------------------------------ MODULE Sessions ------------------------------
(***************************************************************************)
(* Who a request speaks for: login, logout, the session cookie, the demo   *)
(* guard, the decorators login_required and role_required, the alert of    *)
(* repeated failed logins, and add_case as the write they protect          *)
(* (app.py, routes/auth.py, routes/demo_guard.py, dbs/mongo_db.py).        *)
(*                                                                         *)
(* The session lives in the browser, signed with a key that each process   *)
(* draws when it starts.  A request works on the session its cookie held   *)
(* when it began, and its answer may set the cookie again, long after      *)
(* another request of the same browser has changed it.                     *)
(***************************************************************************)
EXTENDS Integers, Sequences, FiniteSets, FiniteSetsExt

CONSTANTS
    User,         \* rows of users
    Writers,      \* those whose role is Admin or Investigator
    Demo,         \* the demo user: user_id 0, role Admin, no row
    None,         \* no user in the session
    Browser,      \* a browser, with the IP address it logs in from
    Process,      \* server processes that run app.py
    Worker,       \* requests that may be served at the same time
    KindSets,     \* what browsers ask for: one of these sets of kinds, in each behaviour
    FaultSets,    \* what may go wrong: one of these sets of faults, in each behaviour
    Threshold,    \* failed attempts that raise an alert: 5 in the code
    Window,       \* how far back attempts and alerts count: 10 minutes in the code
    MaxRequests,  \* bound: requests made
    MaxKeys,      \* bound: keys drawn
    MaxClock      \* bound: time

Kind      == {"login", "demo", "fail", "logout", "add"}
FaultKind == {"sql", "mongo", "neo4j"}

ASSUME SessionsAssumption ==
    /\ Writers \subseteq User /\ Demo \notin User /\ None \notin User \cup {Demo}
    /\ KindSets \subseteq SUBSET Kind /\ FaultSets \subseteq SUBSET FaultKind
    /\ Threshold \in Nat \ {0} /\ Window \in Nat
    /\ MaxRequests \in Nat /\ MaxKeys \in Nat /\ MaxClock \in Nat
    /\ IsFiniteSet(Process) /\ IsFiniteSet(User)

VARIABLES
    clock,     \* time of day
    proc,      \* each process: its secret_key and its DEMO_MODE
    keys,      \* the keys drawn so far
    cookie,    \* the session cookie of each browser
    hash,      \* users.password_hash: how it is hashed
    failures,  \* login_attempts that failed: how many from each browser at each time
    recorded,  \* login_attempts that succeeded: their users
    alerts,    \* security_alerts of each browser's address
    cases,     \* rows of cases: who created them, in order
    nodes,     \* Case nodes of the graph
    caseLogs,  \* case_created entries of MongoDB
    pc,        \* the step each worker executes next
    job,       \* the session and the local variables of the request each worker serves
    kinds,     \* the kinds of this behaviour
    faults,    \* the faults of this behaviour
    requests,  \* history: requests made
    logins,    \* history: who logged in at the process with which key
    left       \* history: what became of the last logout of each browser

mongo   == <<failures, recorded, alerts, caseLogs>>
sql     == <<hash, cases>>
history == <<kinds, faults, requests, logins>>
vars    == <<clock, proc, keys, cookie, mongo, sql, nodes, pc, job, history, left>>

Someone == User \cup {Demo}
Session == [key: Nat, user: Someone \cup {None}]
Job     == [browser: Browser, key: Nat, user: Someone \cup {None}, kind: Kind,
            name: User \cup {None}, case: Nat, cutoff: Int, solo: BOOLEAN, late: BOOLEAN]
NoJob   == <<>>
NoOne   == [key |-> 0, user |-> None]

AlertSteps  == {"count", "find", "alert"}
AnswerSteps == {"set", "keep", "clear"}
Step == {"idle", "check", "upgrade", "stamp", "logged", "record",
         "insert", "neo", "caseLog"} \cup AlertSteps \cup AnswerSteps

Init ==
    /\ clock = 0 /\ keys = Cardinality(Process)
    /\ proc \in [Process -> [key: 1 .. Cardinality(Process), demo: BOOLEAN]]
    /\ \A p, q \in Process : p # q => proc[p].key # proc[q].key
    /\ cookie = [b \in Browser |-> NoOne]
    /\ hash \in [User -> {"sha256", "bcrypt"}]
    /\ failures = [b \in Browser |-> [t \in 0 .. MaxClock |-> 0]]
    /\ recorded = {} /\ alerts = [b \in Browser |-> <<>>]
    /\ cases = <<>> /\ nodes = {} /\ caseLogs = {}
    /\ pc = [w \in Worker |-> "idle"]
    /\ job = [w \in Worker |-> NoJob]
    /\ kinds \in KindSets /\ faults \in FaultSets
    /\ requests = 0 /\ logins = {}
    /\ left = [b \in Browser |-> "no"]

MayFail(fault) == fault \in faults

Goto(w, step) == pc' = [pc EXCEPT ![w] = step]

Respond(w) ==
    /\ pc' = [pc EXCEPT ![w] = "idle"]
    /\ job' = [job EXCEPT ![w] = NoJob]

-----------------------------------------------------------------------------
(* What happens before any statement of the handler. *)

(* Flask: a cookie another key signed is no session. *)
SessionOf(b, p) == IF cookie[b].key = proc[p].key THEN cookie[b].user ELSE None

(* block_writes_in_demo *)
BlockedInDemo(p, user) == proc[p].demo /\ user = Demo

(* role_required('Admin', 'Investigator'); the demo session is an Admin's. *)
MayAdd(user) == user \in Writers \cup {Demo}

(* The first step of each route: a request of the demo session that writes *)
(* is blocked, one without a session redirected, one of another role       *)
(* refused with a flash, which sets the cookie again.                      *)
FirstStep(p, kind, user) ==
    CASE kind = "login"  -> "check"
      [] kind = "demo"   -> IF proc[p].demo THEN "set" ELSE "record"
      [] kind = "fail"   -> "record"
      [] kind = "logout" -> "clear"
      [] kind = "add"    -> IF BlockedInDemo(p, user) THEN "set"
                            ELSE IF user = None THEN "keep"
                            ELSE IF MayAdd(user) THEN "insert" ELSE "set"

(* A login with the right password of a user, with the demo credentials or *)
(* with anything else; a logout; POST /cases/add.                          *)
Begin(w, b, p, kind, name) ==
    LET user == IF kind = "demo" /\ proc[p].demo THEN Demo ELSE SessionOf(b, p) IN
    /\ pc[w] = "idle" /\ kind \in kinds /\ requests < MaxRequests
    /\ kind = "login" <=> name # None
    /\ requests' = requests + 1
    /\ Goto(w, FirstStep(p, kind, user))
    /\ job' = [job EXCEPT ![w] = [browser |-> b, key |-> proc[p].key, user |-> user,
                                  kind |-> kind, name |-> name, case |-> 0, cutoff |-> 0,
                                  solo |-> TRUE, late |-> FALSE]]
    /\ logins' = IF kind = "demo" /\ proc[p].demo
                 THEN logins \cup {<<Demo, proc[p].key>>} ELSE logins
    /\ UNCHANGED <<clock, proc, keys, cookie, mongo, sql, nodes, kinds, faults, left>>

-----------------------------------------------------------------------------
(* POST / *)

(* The row of the user is read and the password compared. *)
CheckPassword(w) ==
    /\ pc[w] = "check"
    /\ \/ Goto(w, IF hash[job[w].name] = "bcrypt" THEN "stamp" ELSE "upgrade")
       \/ MayFail("sql") /\ Goto(w, "keep")
    /\ UNCHANGED <<clock, proc, keys, cookie, mongo, sql, nodes, job, history, left>>

(* The old hash is replaced; an exception makes it a wrong password. *)
Upgrade(w) ==
    /\ pc[w] = "upgrade"
    /\ \/ /\ hash' = [hash EXCEPT ![job[w].name] = "bcrypt"]
          /\ Goto(w, "stamp")
       \/ /\ MayFail("sql")
          /\ hash' \in {hash, [hash EXCEPT ![job[w].name] = "bcrypt"]}
          /\ Goto(w, "record")
    /\ UNCHANGED <<clock, proc, keys, cookie, mongo, cases, nodes, job, history, left>>

(* last_login_at is set, then the session. *)
Stamp(w) ==
    /\ pc[w] = "stamp"
    /\ \/ /\ Goto(w, "logged")
          /\ job' = [job EXCEPT ![w].user = job[w].name]
          /\ logins' = logins \cup {<<job[w].name, job[w].key>>}
       \/ MayFail("sql") /\ Goto(w, "keep") /\ UNCHANGED <<job, logins>>
    /\ UNCHANGED <<clock, proc, keys, cookie, mongo, sql, nodes, kinds, faults, requests, left>>

(* log_login_attempt, and the audit log after it: when one raises, Flask   *)
(* answers with a 500, and with the cookie all the same.                   *)
LogLogin(w) ==
    /\ pc[w] = "logged"
    /\ Goto(w, "set")
    /\ \/ recorded' = recorded \cup {job[w].name}
       \/ MayFail("mongo") /\ UNCHANGED recorded
    /\ UNCHANGED <<clock, proc, keys, cookie, failures, alerts, caseLogs, sql, nodes, job,
                   history, left>>

(* log_login_attempt of a failure: the entry, then the search for others;  *)
(* whatever was asked for, nobody is logged in.                            *)
RecordFailure(w) ==
    LET b == job[w].browser
        others == {v \in Worker \ {w} : pc[v] \in AlertSteps /\ job[v].browser = b}
    IN
    /\ pc[w] = "record"
    /\ failures' \in {failures, [failures EXCEPT ![b][clock] = @ + 1]}
    /\ \/ /\ failures' # failures
          /\ Goto(w, "count")
          /\ job' = [v \in Worker |->
                        IF v = w THEN [job[w] EXCEPT !.kind = "fail", !.solo = others = {},
                                                     !.cutoff = clock - Window]
                        ELSE IF v \in others THEN [job[v] EXCEPT !.solo = FALSE] ELSE job[v]]
       \/ MayFail("mongo") /\ Goto(w, "keep") /\ UNCHANGED job
    /\ UNCHANGED <<clock, proc, keys, cookie, recorded, alerts, caseLogs, sql, nodes,
                   history, left>>

FailedSince(b, cutoff) ==
    MapThenSumSet(LAMBDA t : failures[b][t], {t \in 0 .. MaxClock : t >= cutoff})

(* Mutant: more than the threshold. *)
IsBruteForceAbove(b, cutoff) == FailedSince(b, cutoff) > Threshold

IsBruteForce(b, cutoff) == FailedSince(b, cutoff) >= Threshold

CountFailures(w) ==
    /\ pc[w] = "count"
    /\ \/ Goto(w, IF IsBruteForce(job[w].browser, job[w].cutoff) THEN "find" ELSE "set")
       \/ MayFail("mongo") /\ Goto(w, "keep")
    /\ UNCHANGED <<clock, proc, keys, cookie, mongo, sql, nodes, job, history, left>>

AlertedSince(b, cutoff) == \E i \in DOMAIN alerts[b] : alerts[b][i].time >= cutoff

(* Mutant: nobody looks for an alert that is there. *)
FindAlertNever(w) ==
    /\ pc[w] = "find"
    /\ Goto(w, "alert")
    /\ UNCHANGED <<clock, proc, keys, cookie, mongo, sql, nodes, job, history, left>>

FindAlert(w) ==
    /\ pc[w] = "find"
    /\ \/ Goto(w, IF AlertedSince(job[w].browser, job[w].cutoff) THEN "set" ELSE "alert")
       \/ MayFail("mongo") /\ Goto(w, "keep")
    /\ UNCHANGED <<clock, proc, keys, cookie, mongo, sql, nodes, job, history, left>>

RaiseAlert(w) ==
    LET b == job[w].browser
        raised == [alerts EXCEPT ![b] = Append(@, [time |-> clock, solo |-> job[w].solo])]
    IN
    /\ pc[w] = "alert"
    /\ \/ alerts' = raised /\ Goto(w, "set")
       \/ MayFail("mongo") /\ alerts' \in {alerts, raised} /\ Goto(w, "keep")
    /\ UNCHANGED <<clock, proc, keys, cookie, failures, recorded, caseLogs, sql, nodes, job,
                   history, left>>

-----------------------------------------------------------------------------
(* POST /cases/add *)

(* The INSERT and its commit, whose answer may be lost. *)
InsertCase(w) ==
    /\ pc[w] = "insert"
    /\ \/ /\ cases' = Append(cases, [creator |-> job[w].user, key |-> job[w].key])
          /\ job' = [job EXCEPT ![w].case = Len(cases')]
          /\ Goto(w, "neo") \/ (MayFail("sql") /\ Goto(w, "keep"))
       \/ MayFail("sql") /\ Goto(w, "keep") /\ UNCHANGED <<cases, job>>
    /\ UNCHANGED <<clock, proc, keys, cookie, mongo, hash, nodes, history, left>>

(* neo_create_case: the node, then the edge from its creator. *)
CreateNode(w) ==
    /\ pc[w] = "neo"
    /\ \/ nodes' = nodes \cup {job[w].case} /\ Goto(w, "caseLog")
       \/ /\ MayFail("neo4j")
          /\ nodes' \in {nodes, nodes \cup {job[w].case}}
          /\ Goto(w, "keep")
    /\ UNCHANGED <<clock, proc, keys, cookie, mongo, sql, job, history, left>>

(* The two logs, then the flash. *)
LogCase(w) ==
    /\ pc[w] = "caseLog"
    /\ \/ caseLogs' = caseLogs \cup {job[w].case} /\ Goto(w, "set")
       \/ /\ MayFail("mongo")
          /\ caseLogs' \in {caseLogs, caseLogs \cup {job[w].case}}
          /\ Goto(w, "keep")
    /\ UNCHANGED <<clock, proc, keys, cookie, failures, recorded, alerts, sql, nodes, job,
                   history, left>>

-----------------------------------------------------------------------------
(* The answer arrives at the browser. *)

(* The session was not modified: no Set-Cookie. *)
Answer(w) ==
    /\ pc[w] = "keep"
    /\ Respond(w)
    /\ UNCHANGED <<clock, proc, keys, cookie, mongo, sql, nodes, history, left>>

(* It was, if only by a flash: the cookie is what this request holds. *)
AnswerSet(w) ==
    LET b == job[w].browser IN
    /\ pc[w] = "set"
    /\ cookie' = [cookie EXCEPT ![b] = IF job[w].user = None THEN NoOne
                                       ELSE [key |-> job[w].key, user |-> job[w].user]]
    /\ left' = [left EXCEPT ![b] =
                    IF job[w].user = None THEN @
                    ELSE IF job[w].kind \in {"login", "demo"} THEN "no"
                    ELSE IF job[w].late /\ @ = "out" THEN "undone" ELSE @]
    /\ Respond(w)
    /\ UNCHANGED <<clock, proc, keys, mongo, sql, nodes, history>>

(* Mutant: an empty session is not deleted. *)
AnswerClearKeeps(w) ==
    LET b == job[w].browser
        late == {v \in Worker \ {w} : pc[v] # "idle" /\ job[v].browser = b}
    IN
    /\ pc[w] = "clear"
    /\ left' = [left EXCEPT ![b] = "out"]
    /\ Goto(w, "idle")
    /\ job' = [v \in Worker |-> IF v = w THEN NoJob
                                ELSE IF v \in late THEN [job[v] EXCEPT !.late = TRUE] ELSE job[v]]
    /\ UNCHANGED <<clock, proc, keys, cookie, mongo, sql, nodes, history>>

(* GET /logout: the cookie is deleted, of an empty session, too; the audit *)
(* log, whose failure is swallowed, is left out.  The other requests of    *)
(* this browser go on.                                                     *)
AnswerClear(w) ==
    LET b == job[w].browser
        late == {v \in Worker \ {w} : pc[v] # "idle" /\ job[v].browser = b}
    IN
    /\ pc[w] = "clear"
    /\ cookie' = [cookie EXCEPT ![b] = NoOne]
    /\ left' = [left EXCEPT ![b] = "out"]
    /\ Goto(w, "idle")
    /\ job' = [v \in Worker |-> IF v = w THEN NoJob
                                ELSE IF v \in late THEN [job[v] EXCEPT !.late = TRUE] ELSE job[v]]
    /\ UNCHANGED <<clock, proc, keys, mongo, sql, nodes, history>>

-----------------------------------------------------------------------------
(* Mutant: the key comes from the configuration. *)
NewKeyFixed(p) == proc[p].key

(* secrets.token_hex(32) *)
NewKey(p) == keys + 1

(* A process is started anew, with another DEMO_MODE perhaps; its requests *)
(* are gone.                                                               *)
Restart(p) ==
    LET gone == {w \in Worker : pc[w] # "idle" /\ job[w].key = proc[p].key} IN
    /\ keys < MaxKeys
    /\ keys' = keys + 1
    /\ \E demo \in BOOLEAN : proc' = [proc EXCEPT ![p] = [key |-> NewKey(p), demo |-> demo]]
    /\ pc' = [w \in Worker |-> IF w \in gone THEN "idle" ELSE pc[w]]
    /\ job' = [w \in Worker |-> IF w \in gone THEN NoJob ELSE job[w]]
    /\ UNCHANGED <<clock, cookie, mongo, sql, nodes, history, left>>

(* Time matters to failed logins only. *)
Tick ==
    /\ clock < MaxClock /\ "fail" \in kinds
    /\ clock' = clock + 1
    /\ UNCHANGED <<proc, keys, cookie, mongo, sql, nodes, pc, job, history, left>>

Continue(w) ==
    \/ CheckPassword(w) \/ Upgrade(w) \/ Stamp(w) \/ LogLogin(w)
    \/ RecordFailure(w) \/ CountFailures(w) \/ FindAlert(w) \/ RaiseAlert(w)
    \/ InsertCase(w) \/ CreateNode(w) \/ LogCase(w)
    \/ Answer(w) \/ AnswerSet(w) \/ AnswerClear(w)

Next ==
    \/ \E w \in Worker :
          \/ \E b \in Browser, p \in Process, kind \in Kind, name \in User \cup {None} :
                Begin(w, b, p, kind, name)
          \/ Continue(w)
    \/ \E p \in Process : Restart(p)
    \/ Tick

Spec == Init /\ [][Next]_vars

-----------------------------------------------------------------------------
LoginSteps == {"check", "upgrade", "stamp", "logged"}

JobOK(w) ==
    IF pc[w] = "idle"
    THEN job[w] = NoJob
    ELSE /\ job[w] \in Job /\ job[w].key \in 1 .. keys
         /\ pc[w] \in LoginSteps => job[w].name \in User
         /\ pc[w] = "insert" => job[w].user \in Someone

TypeOK ==
    /\ clock \in 0 .. MaxClock /\ keys \in Nat /\ requests \in Nat
    /\ proc \in [Process -> [key: 1 .. keys, demo: BOOLEAN]]
    /\ cookie \in [Browser -> Session]
    /\ hash \in [User -> {"sha256", "bcrypt"}]
    /\ failures \in [Browser -> [0 .. MaxClock -> Nat]]
    /\ recorded \subseteq User
    /\ alerts \in [Browser -> Seq([time: Nat, solo: BOOLEAN])]
    /\ cases \in Seq([creator: Someone, key: Nat])
    /\ pc \in [Worker -> Step]
    /\ DOMAIN job = Worker /\ \A w \in Worker : JobOK(w)
    /\ kinds \subseteq Kind /\ faults \subseteq FaultKind
    /\ logins \subseteq Someone \X (1 .. keys)
    /\ left \in [Browser -> {"no", "out", "undone"}]

(* The demo user, who is an Admin to every decorator, creates no case: not *)
(* where the guard is on, and not where a process without it is reached    *)
(* with the cookie of one that has it.                                     *)
DemoWritesNothing == \A i \in DOMAIN cases : cases[i].creator # Demo

(* A case is created by somebody who logged in at the very process that    *)
(* stored it, since it started, and whose role may create cases.           *)
CreatorsLoggedIn ==
    \A i \in DOMAIN cases :
        /\ <<cases[i].creator, cases[i].key>> \in logins
        /\ cases[i].creator \in Writers

(* After a logout the browser is nobody, until it logs in again or the     *)
(* answer to a request that was under way during the logout arrives and    *)
(* brings the old session back.                                            *)
LogoutHolds ==
    \A b \in Browser : left[b] = "out" => cookie[b].user = None

(* Whoever holds a session that was logged in with a password is in        *)
(* login_attempts, unless MongoDB failed.                                  *)
LoginsAreRecorded ==
    \A b \in Browser : cookie[b].user \in User =>
        cookie[b].user \in recorded \/ MayFail("mongo")

(* Two alerts about one address are further apart than the window, or the  *)
(* logins that raised them were served at the same time.                   *)
AlertsAreSpaced ==
    \A b \in Browser : \A i, j \in DOMAIN alerts[b] :
        (i < j /\ alerts[b][j].time - alerts[b][i].time =< Window) =>
            ~alerts[b][i].solo /\ ~alerts[b][j].solo

(* Wherever enough attempts failed within the window, there is an alert    *)
(* that is not older than the window, once the requests have ended;        *)
(* provided MongoDB did not fail and no process was stopped.               *)
BruteForceIsRaised ==
    (~MayFail("mongo") /\ keys = Cardinality(Process) /\ \A w \in Worker : pc[w] = "idle") =>
        \A b \in Browser : \A t \in 0 .. MaxClock :
            (failures[b][t] > 0 /\ MapThenSumSet(LAMBDA s : failures[b][s],
                                       {s \in 0 .. t : s >= t - Window}) >= Threshold)
                => \E i \in DOMAIN alerts[b] : alerts[b][i].time >= t - Window

(* The graph and the log tell only of cases that are stored, the log only  *)
(* of cases the graph has; each case is in both unless a store failed, a   *)
(* process was stopped or its request is still under way.                  *)
CasesAreMirrored ==
    /\ caseLogs \subseteq nodes /\ nodes \subseteq DOMAIN cases
    /\ (faults = {} /\ keys = Cardinality(Process)) =>
          DOMAIN cases = caseLogs \cup {job[w].case : w \in {v \in Worker :
                                           pc[v] \in {"neo", "caseLog"}}}

=============================================================================
