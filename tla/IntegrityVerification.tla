----------------------- MODULE IntegrityVerification -----------------------
(***************************************************************************)
(* The verification of evidence: the engine of cyber/integrity_engine.py   *)
(* (one item, all of a case, those due), POST /evidence/<id>/verify and    *)
(* POST /api/evidence/bulk-verify of routes/evidence.py, beside the        *)
(* auto-seal of a case that is closed (routes/cases.py).                   *)
(*                                                                         *)
(* No file is fetched: the code compares the stored hash with itself, so   *)
(* what a verification leaves is its time, its history row, its event in   *)
(* the graph and its log entries.  Those are what is modelled, with the    *)
(* row locks of PostgreSQL: an UPDATE waits for the transaction that has   *)
(* updated its row, and when transactions wait for each other PostgreSQL   *)
(* makes the statement of one of them raise.                               *)
(***************************************************************************)
EXTENDS Naturals, FiniteSets

CONSTANTS
    Evidence,   \* evidence_id of the rows, all active, in one case
    Worker,     \* requests that may be served at the same time
    None,       \* holder of a row lock that is free
    Limit,      \* LIMIT 100 of the queries for what is due
    Age,        \* the threshold: 30 days
    FaultSets,  \* what may go wrong: one of these sets of faults, in each behaviour
    MaxClock    \* bound: no request starts once the clock has reached it

FaultKind == {"sql", "mongo", "neo4j", "crash"}

ASSUME VerificationAssumption ==
    /\ Evidence \subseteq Nat \ {0}
    /\ IsFiniteSet(Evidence)
    /\ None \notin Worker
    /\ Limit \in Nat /\ Age \in Nat /\ MaxClock \in Nat
    /\ FaultSets \subseteq SUBSET FaultKind

VARIABLES
    clock,        \* ticks when a request or a transaction begins and at every commit
    lastVerified, \* evidence.last_verified_at, 0 for NULL
    sealed,       \* evidence.is_sealed
    closed,       \* the case has been closed
    rows,         \* evidence_verification_history
    nextId,       \* the sequence behind verify_id
    events,       \* VerificationEvent nodes of the graph
    logs,         \* MongoDB case_activity_logs and audit_logs
    lock,         \* the transaction that has updated a row and is still open
    pc,           \* the statement each worker executes next
    job,          \* the local variables of the request each worker serves
    faults,       \* the faults of this behaviour
    done,         \* history: committed updates of last_verified_at
    reports,      \* history: what clients were told
    rolledBack    \* history: verify_ids whose row was rolled back

tables  == <<lastVerified, sealed, closed, rows>>
history == <<faults, done, reports, rolledBack>>
vars    == <<clock, tables, nextId, events, logs, lock, pc, job, history>>

HistoryRow == [id: Nat, ev: Evidence, ts: Nat]
Event      == [id: Nat, ev: Evidence]
LogEntry   == [event: {"evidence_verified", "VERIFY_INTEGRITY", "VERIFY",
                       "BULK_VERIFY", "bulk_verification"},
               evs: SUBSET Evidence]

(* quick is the route of one item, one, case and due are the engine's.     *)
Kind == {"quick", "one", "case", "due", "bulk", "seal"}

(* todo is what the request has listed and not come to yet, ev the item it *)
(* is at, ts the NOW() of its open transaction, id its verify_id or 0.     *)
NoJob == <<>>
Job == [kind: Kind, todo: SUBSET Evidence, ev: Evidence \cup {0}, id: Nat, ts: Nat,
        passed: SUBSET Evidence, began: Nat]

Report == [kind: Kind, passed: SUBSET Evidence, began: Nat]

Step == {"idle", "next", "event", "update", "commit", "log",
         "row", "commitRows", "bulkLog"}

-----------------------------------------------------------------------------
Init ==
    /\ clock = 0
    /\ lastVerified = [e \in Evidence |-> 0]
    /\ sealed = [e \in Evidence |-> FALSE] /\ closed = FALSE
    /\ rows = {} /\ nextId = 1 /\ events = {} /\ logs = {}
    /\ lock = [e \in Evidence |-> None]
    /\ pc = [w \in Worker |-> "idle"]
    /\ job = [w \in Worker |-> NoJob]
    /\ faults \in FaultSets
    /\ done = {} /\ reports = {} /\ rolledBack = {}

MayFail(fault) == fault \in faults
Tick == clock' = clock + 1
Goto(w, step) == pc' = [pc EXCEPT ![w] = step]
Respond(w) ==
    /\ pc' = [pc EXCEPT ![w] = "idle"]
    /\ job' = [job EXCEPT ![w] = NoJob]

Held(w)   == {e \in Evidence : lock[e] = w}
Unlock(w) == lock' = [e \in Evidence |-> IF lock[e] = w THEN None ELSE lock[e]]

(* The items the two queries for what is due return. *)
Due(e)    == lastVerified[e] = 0 \/ lastVerified[e] + Age < clock
First(S)  == {e \in S : Cardinality({f \in S : f < e}) < Limit}

(* Mutant: the list of a bulk verification is in no order. *)
ComesNextUnordered(kind, e, S) ==
    /\ e \in S
    /\ kind = "due" => \A f \in S : e =< f

(* Those queries order their rows; the query for a case does not, and an   *)
(* UPDATE of several rows comes to them in the order of the table's pages. *)
ComesNext(kind, e, S) ==
    /\ e \in S
    /\ kind \in {"due", "bulk"} => \A f \in S : e =< f

NewJob(kind, S, e) ==
    [kind |-> kind, todo |-> S, ev |-> e, id |-> 0, ts |-> clock + 1,
     passed |-> {}, began |-> clock + 1]

-----------------------------------------------------------------------------
(* A request to the engine has its list. *)
Verify(w, kind, S) ==
    /\ pc[w] = "idle" /\ clock < MaxClock
    /\ Tick
    /\ Goto(w, "next")
    /\ job' = [job EXCEPT ![w] = NewJob(kind, S, 0)]
    /\ UNCHANGED <<tables, nextId, events, logs, lock, history>>

(* The route of one item: its SELECT opens the transaction. *)
QuickVerify(w, e) ==
    /\ pc[w] = "idle" /\ clock < MaxClock
    /\ Tick
    /\ Goto(w, "update")
    /\ job' = [job EXCEPT ![w] = NewJob("quick", {}, e)]
    /\ UNCHANGED <<tables, nextId, events, logs, lock, history>>

(* verify_single_evidence: SELECT and INSERT of the history row.  When the *)
(* INSERT raises, the transaction is rolled back and the rest goes on in a *)
(* new one, without verify_id; when the SELECT does, the item has failed.  *)
BeginVerification(w) ==
    /\ pc[w] = "next"
    /\ \E e \in Evidence :
          /\ ComesNext(job[w].kind, e, job[w].todo)
          /\ Tick
          /\ \/ /\ job' = [job EXCEPT ![w].todo = @ \ {e}, ![w].ev = e,
                                      ![w].id = nextId, ![w].ts = clock + 1]
                /\ nextId' = nextId + 1
                /\ Goto(w, "event")
             \/ /\ MayFail("sql")
                /\ job' = [job EXCEPT ![w].todo = @ \ {e}, ![w].ev = e,
                                      ![w].id = 0, ![w].ts = clock + 1]
                /\ Goto(w, "update") /\ UNCHANGED nextId
             \/ /\ MayFail("sql")
                /\ job' = [job EXCEPT ![w].todo = @ \ {e}]
                /\ UNCHANGED <<pc, nextId>>
    /\ UNCHANGED <<tables, events, logs, lock, history>>

(* Mutant: the id is MAX(verify_id), not the one RETURNING gives. *)
WriteLastEvent(w) ==
    /\ pc[w] = "event"
    /\ \/ events' = events \cup {[id |-> nextId - 1, ev |-> job[w].ev]}
       \/ MayFail("neo4j") /\ UNCHANGED events
    /\ Goto(w, "update")
    /\ UNCHANGED <<clock, tables, nextId, logs, lock, job, history>>

(* neo_add_verification_event, before the commit; it may raise or find no  *)
(* evidence node to MATCH.                                                 *)
WriteEvent(w) ==
    /\ pc[w] = "event"
    /\ \/ events' = events \cup {[id |-> job[w].id, ev |-> job[w].ev]}
       \/ MayFail("neo4j") /\ UNCHANGED events
    /\ Goto(w, "update")
    /\ UNCHANGED <<clock, tables, nextId, logs, lock, job, history>>

(* UPDATE evidence SET last_verified_at = NOW(): it waits for the lock.    *)
Update(w) ==
    /\ pc[w] = "update"
    /\ lock[job[w].ev] = None
    /\ lock' = [lock EXCEPT ![job[w].ev] = w]
    /\ Goto(w, "commit")
    /\ UNCHANGED <<clock, tables, nextId, events, logs, job, history>>

(* What is kept of a commit: the value written, when its transaction began *)
(* and when it was committed.                                              *)
Done(w, e) == [ev |-> e, ts |-> lastVerified'[e], opened |-> job[w].ts, at |-> clock']

(* Mutant: the time written is that of the request, not of the transaction. *)
CommitStale(w) ==
    /\ pc[w] = "commit"
    /\ Tick
    /\ lastVerified' = [lastVerified EXCEPT ![job[w].ev] = job[w].began]
    /\ rows' = rows \cup {[id |-> n, ev |-> job[w].ev, ts |-> job[w].ts] :
                             n \in {job[w].id} \ {0}}
    /\ done' = done \cup {Done(w, job[w].ev)}
    /\ Unlock(w)
    /\ \/ Goto(w, "log")
       \/ MayFail("sql") /\ Goto(w, "next")
    /\ UNCHANGED <<sealed, closed, job, nextId, events, logs, faults, reports, rolledBack>>

(* A commit whose answer is lost counts as a failure although it stands.   *)
CommitVerification(w) ==
    /\ pc[w] = "commit"
    /\ Tick
    /\ lastVerified' = [lastVerified EXCEPT ![job[w].ev] = job[w].ts]
    /\ rows' = rows \cup {[id |-> n, ev |-> job[w].ev, ts |-> job[w].ts] :
                             n \in {job[w].id} \ {0}}
    /\ done' = done \cup {Done(w, job[w].ev)}
    /\ Unlock(w)
    /\ \/ Goto(w, "log")
       \/ MayFail("sql") /\ Goto(w, "next")
    /\ UNCHANGED <<sealed, closed, job, nextId, events, logs, faults, reports, rolledBack>>

(* The UPDATE or the commit raises: rollback, and the item has failed. *)
VerificationFails(w) ==
    /\ MayFail("sql")
    /\ pc[w] \in {"update", "commit"}
    /\ Unlock(w)
    /\ rolledBack' = rolledBack \cup ({job[w].id} \ {0})
    /\ Goto(w, "next")
    /\ UNCHANGED <<clock, tables, nextId, events, logs, job, faults, done, reports>>

(* The log calls are inside the try: when one raises, the client is told   *)
(* that a verification failed which is committed.                          *)
LogsOf(w) ==
    {[event |-> n, evs |-> {job[w].ev}] :
        n \in IF job[w].kind = "quick" THEN {"VERIFY"}
              ELSE {"evidence_verified", "VERIFY_INTEGRITY"}}

LogVerification(w) ==
    /\ pc[w] = "log"
    /\ \/ /\ logs' = logs \cup LogsOf(w)
          /\ job' = [job EXCEPT ![w].passed = @ \cup {job[w].ev}]
       \/ /\ MayFail("mongo")
          /\ logs' \in {logs, logs \cup {l \in LogsOf(w) : l.event = "evidence_verified"}}
          /\ UNCHANGED job
    /\ Goto(w, "next")
    /\ UNCHANGED <<clock, tables, nextId, events, lock, history>>

ReportOf(w) == [kind |-> job[w].kind, passed |-> job[w].passed, began |-> job[w].began]

Answer(w) ==
    /\ pc[w] = "next" /\ job[w].todo = {}
    /\ reports' = reports \cup {ReportOf(w)}
    /\ Respond(w)
    /\ UNCHANGED <<clock, tables, nextId, events, logs, lock, faults, done, rolledBack>>

Verifying(w) ==
    \/ BeginVerification(w) \/ WriteEvent(w) \/ Update(w)
    \/ CommitVerification(w) \/ VerificationFails(w)
    \/ LogVerification(w) \/ Answer(w)

-----------------------------------------------------------------------------
(* bulk_verify_evidence and the auto-seal of edit_case: one transaction    *)
(* that updates several rows.                                              *)
UpdateRows(w, kind, S) ==
    /\ pc[w] = "idle" /\ clock < MaxClock
    /\ Tick
    /\ \/ /\ S = {}
          /\ Goto(w, "commitRows")
          /\ job' = [job EXCEPT ![w] = NewJob(kind, {}, 0)]
       \/ \E e \in Evidence :
             /\ ComesNext(kind, e, S)
             /\ Goto(w, "row")
             /\ job' = [job EXCEPT ![w] = NewJob(kind, S, e)]
    /\ UNCHANGED <<lastVerified, sealed, rows, nextId, events, logs, lock, history>>

BulkVerify(w) ==
    /\ UpdateRows(w, "bulk", First({e \in Evidence : Due(e)}))
    /\ UNCHANGED closed

AutoSeal(w) ==
    /\ UpdateRows(w, "seal", {e \in Evidence : ~sealed[e]})
    /\ closed' = TRUE

(* The row is locked, and every row has a stored hash: it passes.  The     *)
(* auto-seal passes over a row it finds sealed by then.                    *)
LockRow(w) ==
    /\ pc[w] = "row"
    /\ lock[job[w].ev] = None
    /\ lock' = IF job[w].kind = "seal" /\ sealed[job[w].ev] THEN lock
               ELSE [lock EXCEPT ![job[w].ev] = w]
    /\ LET rest == job[w].todo \ {job[w].ev}
       IN  IF rest = {}
           THEN /\ Goto(w, "commitRows")
                /\ job' = [job EXCEPT ![w].todo = {}, ![w].passed = @ \cup {job[w].ev}]
           ELSE /\ UNCHANGED pc
                /\ \E e \in Evidence :
                      /\ ComesNext(job[w].kind, e, rest)
                      /\ job' = [job EXCEPT ![w].todo = rest, ![w].ev = e,
                                            ![w].passed = @ \cup {job[w].ev}]
    /\ UNCHANGED <<clock, tables, nextId, events, logs, history>>

CommitRows(w) ==
    /\ pc[w] = "commitRows"
    /\ Tick
    /\ Unlock(w)
    /\ \/ /\ job[w].kind = "bulk"
          /\ lastVerified' = [e \in Evidence |->
                                 IF e \in job[w].passed THEN job[w].ts ELSE lastVerified[e]]
          /\ done' = done \cup {Done(w, e) : e \in job[w].passed}
          /\ \/ Goto(w, "bulkLog") /\ UNCHANGED job
             \/ MayFail("sql") /\ Respond(w)
          /\ UNCHANGED sealed
       \/ /\ job[w].kind = "seal"
          /\ sealed' = [e \in Evidence |-> sealed[e] \/ e \in job[w].passed]
          /\ Respond(w)
          /\ UNCHANGED <<lastVerified, done>>
    /\ UNCHANGED <<closed, rows, nextId, events, logs, faults, reports, rolledBack>>

(* PostgreSQL finds transactions that wait for each other in a cycle. *)
WaitsFor(v, u) == pc[v] \in {"update", "row"} /\ u # v /\ lock[job[v].ev] = u
Deadlocked(w) ==
    \E S \in SUBSET Worker :
        w \in S /\ \A v \in S : \E u \in S : WaitsFor(v, u)

(* Mutant: the transaction is tried again at once. *)
RowsFailRetried(w) ==
    /\ pc[w] = "row" /\ Deadlocked(w)
    /\ Unlock(w)
    /\ LET S == job[w].todo \cup job[w].passed
       IN  \E e \in Evidence :
              /\ ComesNext(job[w].kind, e, S)
              /\ job' = [job EXCEPT ![w].todo = S, ![w].ev = e, ![w].passed = {}]
    /\ UNCHANGED <<clock, tables, nextId, events, logs, pc, history>>

(* A statement raises, or is chosen to break a deadlock: rollback.  The    *)
(* client of a bulk verification gets a 500, the auto-seal is given up.    *)
RowsFail(w) ==
    /\ \/ pc[w] \in {"row", "commitRows"} /\ MayFail("sql")
       \/ pc[w] = "row" /\ Deadlocked(w)
    /\ Unlock(w)
    /\ Respond(w)
    /\ UNCHANGED <<clock, tables, nextId, events, logs, history>>

(* Both kinds of log are in one try. *)
BulkLogs(w) == {[event |-> n, evs |-> job[w].passed] : n \in {"BULK_VERIFY", "bulk_verification"}}

BulkLog(w) ==
    /\ pc[w] = "bulkLog"
    /\ \/ logs' = logs \cup BulkLogs(w)
       \/ /\ MayFail("mongo")
          /\ logs' \in {logs, logs \cup {l \in BulkLogs(w) : l.event = "BULK_VERIFY"}}
    /\ reports' = reports \cup {ReportOf(w)}
    /\ Respond(w)
    /\ UNCHANGED <<clock, tables, nextId, events, lock, faults, done, rolledBack>>

UpdatingRows(w) == LockRow(w) \/ CommitRows(w) \/ RowsFail(w) \/ BulkLog(w)

-----------------------------------------------------------------------------
(* The process dies, PostgreSQL rolls back what is open. *)
Crash(w) ==
    /\ MayFail("crash")
    /\ pc[w] # "idle"
    /\ Unlock(w)
    /\ rolledBack' = IF pc[w] \in {"event", "update", "commit"}
                     THEN rolledBack \cup ({job[w].id} \ {0}) ELSE rolledBack
    /\ Respond(w)
    /\ UNCHANGED <<clock, tables, nextId, events, logs, faults, done, reports>>

(* All requests the bound allows have been served. *)
Quiet ==
    /\ clock >= MaxClock
    /\ \A w \in Worker : pc[w] = "idle"
    /\ UNCHANGED vars

Request(w) ==
    \/ \E e \in Evidence : QuickVerify(w, e) \/ Verify(w, "one", {e})
    \/ Verify(w, "case", Evidence)
    \/ Verify(w, "due", First({e \in Evidence : Due(e)}))
    \/ BulkVerify(w)
    \/ AutoSeal(w)

Continue(w) == Verifying(w) \/ UpdatingRows(w)

Next ==
    \/ \E w \in Worker : Request(w) \/ Continue(w) \/ Crash(w)
    \/ Quiet

Spec == Init /\ [][Next]_vars

(* A handler is sequential code; what it waits for is a row lock, which    *)
(* PostgreSQL hands on.  Nothing makes a client send a request.            *)
FairSpec == Spec /\ \A w \in Worker : WF_vars(Continue(w))

-----------------------------------------------------------------------------
(* Type invariant. *)
TypeOK ==
    /\ clock \in Nat
    /\ lastVerified \in [Evidence -> Nat]
    /\ sealed \in [Evidence -> BOOLEAN] /\ closed \in BOOLEAN
    /\ rows \subseteq HistoryRow /\ nextId \in Nat
    /\ events \subseteq Event /\ logs \subseteq LogEntry
    /\ lock \in [Evidence -> Worker \cup {None}]
    /\ pc \in [Worker -> Step]
    /\ job \in [Worker -> {NoJob} \cup Job]
    /\ \A w \in Worker :
          /\ pc[w] # "idle" => job[w] \in Job
          /\ pc[w] \in Step \ {"idle", "next", "commitRows", "bulkLog"}
                => job[w].ev \in Evidence
    /\ faults \subseteq FaultKind
    /\ done \subseteq [ev: Evidence, ts: Nat, opened: Nat, at: Nat]
    /\ reports \subseteq Report /\ rolledBack \subseteq Nat

(* last_verified_at is NOW(), the start of a transaction that may have     *)
(* waited for the row: it goes back behind a verification only when        *)
(* another one began before that and committed after it.                   *)
GoesBackOnlyByOverlap ==
    \A v \in done :
        \/ v.ts =< lastVerified[v.ev]
        \/ \E u \in done : /\ u.ev = v.ev /\ u.ts = lastVerified[v.ev]
                           /\ u.opened < v.at /\ v.at < u.at

(* A verification event of the graph, which is written before the commit,  *)
(* has its row in evidence_verification_history, for the same evidence,    *)
(* unless its verification is still running or was rolled back.            *)
EventsHaveHistory ==
    \A x \in events :
        \/ \E r \in rows : r.id = x.id /\ r.ev = x.ev
        \/ \E w \in Worker : /\ pc[w] \in {"update", "commit"}
                             /\ job[w].id = x.id /\ job[w].ev = x.ev
        \/ x.id \in rolledBack /\ \A r \in rows : r.id # x.id

(* What a client is told has passed was verified since it asked: the       *)
(* update of last_verified_at is committed, with a start no earlier than   *)
(* the request.                                                            *)
PassedIsCommitted ==
    \A r \in reports : \A e \in r.passed :
        \E v \in done : v.ev = e /\ r.began =< v.ts

(* Verifications never wait for each other in a cycle: those of several    *)
(* rows come to them in the order of evidence_id, the others update one.   *)
(* In every deadlock there is the auto-seal of a case.                     *)
OnlySealsDeadlock ==
    \A w \in Worker :
        Deadlocked(w) => \E u \in Worker : pc[u] = "row" /\ job[u].kind = "seal"

(* Every request is answered, whatever fails: no row stays locked. *)
VerificationsEnd == \A w \in Worker : pc[w] # "idle" ~> pc[w] = "idle"

=============================================================================
