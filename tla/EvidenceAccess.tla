--------------------------- MODULE EvidenceAccess ---------------------------
(***************************************************************************)
(* Who gets the file of one piece of evidence: the table case_access, the  *)
(* routes that grant and revoke, the page that lists the grants, the       *)
(* download and the signed URL (routes/cases.py, routes/evidence.py).      *)
(*                                                                         *)
(* A download reads the grant in one statement and delivers the file much  *)
(* later; a signed URL is checked once and opened by Supabase, which knows *)
(* of no grant, until it expires.  The log of a download is a write to     *)
(* MongoDB whose answer may be lost.  Sessions are the matter of Sessions: *)
(* here a user is an input of each request.                                *)
(***************************************************************************)
EXTENDS Integers, Sequences, FiniteSets

CONSTANTS
    Open,         \* users of OPEN_ROLES: Admin, Investigator, Forensic Analyst
    Restricted,   \* users of RESTRICTED_ROLES: Lawyer, Prosecutor, Judge
    Worker,       \* requests that may be served at the same time
    FaultSets,    \* what may go wrong: one of these sets of faults, in each behaviour
    MaxRequests,  \* bound: downloads and signed URLs asked for
    MaxChanges    \* bound: grants and revocations that begin

FaultKind == {"sql", "mongo", "storage", "crash"}

ASSUME AccessAssumption ==
    /\ Open \cap Restricted = {}
    /\ FaultSets \subseteq SUBSET FaultKind
    /\ MaxRequests \in Nat /\ MaxChanges \in Nat

VARIABLES
    stored,    \* whether the row of the evidence is committed
    access,    \* case_access: the row of each user for the case
    audit,     \* audit_logs of grants and revocations, in order
    attempts,  \* evidence_download_logs
    urls,      \* signed URLs that Supabase accepts
    pc,        \* the step each worker executes next
    job,       \* the local variables of the request each worker serves
    faults,    \* the faults of this behaviour
    begun,     \* history: downloads and URLs asked for
    changes,   \* history: grants and revocations begun
    epoch,     \* history: how often case_access was written
    entitled,  \* history: who had an active grant in which epoch
    served,    \* history: what was answered with the file or with a URL
    crossed    \* history: whether two of them were ever served at the same time

postgres == <<stored, access>>
mongo    == <<audit, attempts>>
history  == <<faults, begun, changes, epoch, entitled, served, crossed>>
vars     == <<postgres, mongo, urls, pc, job, history>>

User == Open \cup Restricted

Kind    == {"download", "url"}
Request == [id: Nat, user: User, kind: Kind, since: Nat]
Change  == [user: Restricted, to: {"active", "revoked"}, committed: BOOLEAN,
            logged: BOOLEAN, said: SUBSET {"done", "failed"}]
Page    == [since: Nat, granted: SUBSET Restricted, offered: SUBSET Restricted]
NoJob   == <<>>

RequestSteps == {"row", "access", "deny", "fetch", "log", "deliver", "fail"}
ChangeSteps  == {"change", "name", "audit", "tell"}
PageSteps    == {"offered", "show"}

Init ==
    /\ stored \in BOOLEAN
    /\ access = [u \in Restricted |-> "none"]
    /\ audit = <<>> /\ attempts = {} /\ urls = {}
    /\ pc = [w \in Worker |-> "idle"]
    /\ job = [w \in Worker |-> NoJob]
    /\ faults \in FaultSets
    /\ begun = 0 /\ changes = 0 /\ epoch = 0
    /\ entitled = {} /\ served = {} /\ crossed = FALSE

MayFail(fault) == fault \in faults

Goto(w, step) == pc' = [pc EXCEPT ![w] = step]

Respond(w) ==
    /\ pc' = [pc EXCEPT ![w] = "idle"]
    /\ job' = [job EXCEPT ![w] = NoJob]

-----------------------------------------------------------------------------
(* GET /evidence/<id>/download and /evidence/<id>/signed-url: the same     *)
(* statements up to the access check.                                      *)

BeginRequest(w, u, kind) ==
    /\ pc[w] = "idle" /\ begun < MaxRequests
    /\ begun' = begun + 1
    /\ Goto(w, "row")
    /\ job' = [job EXCEPT ![w] = [id |-> begun', user |-> u, kind |-> kind, since |-> epoch]]
    /\ UNCHANGED <<postgres, mongo, urls, faults, changes, epoch, entitled, served, crossed>>

(* Where an exception leads: the download logs it, the URL route answers   *)
(* with a 500.                                                             *)
Raise(w) ==
    IF job[w].kind = "download" THEN Goto(w, "fail") /\ UNCHANGED job ELSE Respond(w)

(* A download of evidence that is not there is logged, a URL of it is not. *)
(* Nothing in the code sets is_active of a row of evidence to FALSE.       *)
ReadRow(w) ==
    /\ pc[w] = "row"
    /\ \/ stored /\ Goto(w, "access") /\ UNCHANGED job
       \/ ~stored /\ job[w].kind = "download" /\ Goto(w, "deny") /\ UNCHANGED job
       \/ ~stored /\ job[w].kind = "url" /\ Respond(w)
       \/ MayFail("sql") /\ Raise(w)
    /\ UNCHANGED <<postgres, mongo, urls, history>>

(* Mutant: any row of case_access grants. *)
MayReadAnyRow(u) == u \in Open \/ (u \in Restricted /\ access[u] # "none")

(* OPEN_ROLES, or an active row of case_access. *)
MayRead(u) == u \in Open \/ (u \in Restricted /\ access[u] = "active")

(* An error of the query denies. *)
CheckAccess(w) ==
    /\ pc[w] = "access"
    /\ \/ Goto(w, IF MayRead(job[w].user) THEN "fetch" ELSE "deny")
       \/ MayFail("sql") /\ job[w].user \in Restricted /\ Goto(w, "deny")
    /\ UNCHANGED <<postgres, mongo, urls, job, history>>

(* log_evidence_download: the entry is stored, and the call returns unless *)
(* its answer is lost; or it raises and nothing is stored.                 *)
LogAttempt(w, success, Return) ==
    LET entry == [id |-> job[w].id, user |-> job[w].user, success |-> success] IN
    \/ /\ attempts' = attempts \cup {entry}
       /\ Return \/ (MayFail("mongo") /\ Raise(w))
    \/ MayFail("mongo") /\ Raise(w) /\ UNCHANGED attempts

Deny(w) ==
    /\ pc[w] = "deny"
    /\ LogAttempt(w, FALSE, Respond(w))
    /\ UNCHANGED <<postgres, audit, urls, history>>

(* fetch_encrypted_bytes and the decryption, or get_signed_url: the URL    *)
(* may be there although the call raises.                                  *)
Fetch(w) ==
    /\ pc[w] = "fetch"
    /\ LET url == IF job[w].kind = "url" THEN {[id |-> job[w].id, known |-> FALSE]} ELSE {} IN
       \/ urls' = urls \cup url /\ Goto(w, "log") /\ UNCHANGED job
       \/ MayFail("storage") /\ urls' \in {urls, urls \cup url} /\ Raise(w)
    /\ UNCHANGED <<postgres, mongo, history>>

(* Mutant: a failing log of the success is swallowed. *)
LogSuccessQuietly(w) ==
    /\ pc[w] = "log"
    /\ \/ attempts' = attempts \cup {[id |-> job[w].id, user |-> job[w].user, success |-> TRUE]}
       \/ MayFail("mongo") /\ UNCHANGED attempts
    /\ Goto(w, "deliver")
    /\ UNCHANGED <<postgres, audit, urls, job, history>>

(* The success is logged before the file or the URL leaves; the audit log  *)
(* of a download, whose failures are swallowed, is left out.               *)
LogSuccess(w) ==
    /\ pc[w] = "log"
    /\ LogAttempt(w, TRUE, Goto(w, "deliver") /\ UNCHANGED job)
    /\ UNCHANGED <<postgres, audit, urls, history>>

Deliver(w) ==
    /\ pc[w] = "deliver"
    /\ served' = served \cup {[id |-> job[w].id, user |-> job[w].user, kind |-> job[w].kind,
                               since |-> job[w].since, until |-> epoch]}
    /\ urls' = {IF l.id = job[w].id THEN [l EXCEPT !.known = TRUE] ELSE l : l \in urls}
    /\ Respond(w)
    /\ UNCHANGED <<postgres, mongo, faults, begun, changes, epoch, entitled, crossed>>

(* The except branch of the download: it tries to log the failure.         *)
Fail(w) ==
    /\ pc[w] = "fail"
    /\ \/ attempts' = attempts \cup {[id |-> job[w].id, user |-> job[w].user, success |-> FALSE]}
       \/ MayFail("mongo") /\ UNCHANGED attempts
    /\ Respond(w)
    /\ UNCHANGED <<postgres, audit, urls, history>>

(* expires_in has passed. *)
Expire(url) ==
    /\ url \in urls
    /\ urls' = urls \ {url}
    /\ UNCHANGED <<postgres, mongo, pc, job, history>>

-----------------------------------------------------------------------------
(* POST /cases/<id>/access/grant and /cases/<id>/access/revoke/<user>.     *)

BeginChange(w, u, to) ==
    /\ pc[w] = "idle" /\ changes < MaxChanges
    /\ changes' = changes + 1
    /\ crossed' = (crossed \/ \E v \in Worker : pc[v] \in ChangeSteps)
    /\ Goto(w, "change")
    /\ job' = [job EXCEPT ![w] = [user |-> u, to |-> to, committed |-> FALSE,
                                  logged |-> FALSE, said |-> {}]]
    /\ UNCHANGED <<postgres, mongo, urls, faults, begun, epoch, entitled, served>>

(* Mutant: the row is inserted once and never updated. *)
RowAfterInsert(u, to) ==
    IF access[u] = "none" THEN (IF to = "active" THEN "active" ELSE "none") ELSE access[u]

(* ON CONFLICT DO UPDATE SET is_active = TRUE; the UPDATE of a revocation  *)
(* finds active rows only.                                                 *)
RowAfter(u, to) ==
    IF to = "revoked" /\ access[u] = "none" THEN "none" ELSE to

(* The statement and its commit; the answer of the commit may be lost.     *)
CommitChange(w) ==
    LET u == job[w].user IN
    /\ pc[w] = "change"
    /\ access' = [access EXCEPT ![u] = RowAfter(u, job[w].to)]
    /\ epoch' = epoch + 1
    /\ entitled' = entitled \cup {<<v, epoch'>> : v \in {x \in Restricted : access'[x] = "active"}}
    /\ \/ /\ Goto(w, "name")
          /\ job' = [job EXCEPT ![w].committed = TRUE]
       \/ /\ MayFail("sql")
          /\ Goto(w, "tell")
          /\ job' = [job EXCEPT ![w].committed = TRUE, ![w].said = {"failed"}]
    /\ UNCHANGED <<stored, mongo, urls, faults, begun, changes, served, crossed>>

ChangeFails(w) ==
    /\ MayFail("sql")
    /\ pc[w] \in {"change", "name"}
    /\ Goto(w, "tell")
    /\ job' = [job EXCEPT ![w].said = {"failed"}]
    /\ UNCHANGED <<postgres, mongo, urls, history>>

(* The name is read and the success flashed, before the audit log. *)
ReadName(w) ==
    /\ pc[w] = "name"
    /\ Goto(w, "audit")
    /\ job' = [job EXCEPT ![w].said = {"done"}]
    /\ UNCHANGED <<postgres, mongo, urls, history>>

(* log_audit_event inside the try: when it raises, a failure is flashed    *)
(* as well.                                                                *)
AuditChange(w) ==
    /\ pc[w] = "audit"
    /\ \/ /\ audit' = Append(audit, [user |-> job[w].user, to |-> job[w].to])
          /\ job' = [job EXCEPT ![w].logged = TRUE]
       \/ /\ MayFail("mongo")
          /\ \/ /\ audit' = Append(audit, [user |-> job[w].user, to |-> job[w].to])
                /\ job' = [job EXCEPT ![w].logged = TRUE, ![w].said = @ \cup {"failed"}]
             \/ /\ job' = [job EXCEPT ![w].said = @ \cup {"failed"}]
                /\ UNCHANGED audit
    /\ Goto(w, "tell")
    /\ UNCHANGED <<postgres, attempts, urls, history>>

Tell(w) ==
    /\ pc[w] = "tell"
    /\ Respond(w)
    /\ UNCHANGED <<postgres, mongo, urls, history>>

-----------------------------------------------------------------------------
(* GET /cases/edit/<id>: who has access, then, in another statement, the   *)
(* users of restricted roles who do not.                                   *)
ListGrants(w) ==
    /\ pc[w] = "idle"
    /\ Goto(w, "offered")
    /\ job' = [job EXCEPT ![w] = [since |-> epoch, offered |-> {},
                                  granted |-> {u \in Restricted : access[u] = "active"}]]
    /\ UNCHANGED <<postgres, mongo, urls, history>>

Offered == Restricted \ {u \in Restricted : access[u] = "active"}

ListOffered(w) ==
    /\ pc[w] = "offered"
    /\ Goto(w, "show")
    /\ job' = [job EXCEPT ![w].offered = Offered]
    /\ UNCHANGED <<postgres, mongo, urls, history>>

ShowPage(w) ==
    /\ pc[w] = "show"
    /\ Respond(w)
    /\ UNCHANGED <<postgres, mongo, urls, history>>

-----------------------------------------------------------------------------
(* The process of a request is killed. *)
Crash(w) ==
    /\ MayFail("crash")
    /\ pc[w] # "idle"
    /\ Respond(w)
    /\ UNCHANGED <<postgres, mongo, urls, history>>

(* The upload of the evidence commits its row. *)
StoreEvidence ==
    /\ ~stored
    /\ stored' = TRUE
    /\ UNCHANGED <<access, mongo, urls, pc, job, history>>

Continue(w) ==
    \/ ReadRow(w) \/ CheckAccess(w) \/ Deny(w) \/ Fetch(w) \/ LogSuccess(w)
    \/ Deliver(w) \/ Fail(w)
    \/ CommitChange(w) \/ ChangeFails(w) \/ ReadName(w) \/ AuditChange(w) \/ Tell(w)
    \/ ListOffered(w) \/ ShowPage(w)

Next ==
    \/ \E w \in Worker :
          \/ \E u \in User, kind \in Kind : BeginRequest(w, u, kind)
          \/ \E u \in Restricted, to \in {"active", "revoked"} : BeginChange(w, u, to)
          \/ ListGrants(w)
          \/ Continue(w)
          \/ Crash(w)
    \/ \E url \in urls : Expire(url)
    \/ StoreEvidence

Spec == Init /\ [][Next]_vars

-----------------------------------------------------------------------------
JobOK(w) ==
    /\ pc[w] = "idle" => job[w] = NoJob
    /\ pc[w] \in RequestSteps => job[w] \in Request /\ job[w].id \in 1 .. begun
    /\ pc[w] \in ChangeSteps => job[w] \in Change
    /\ pc[w] \in PageSteps => job[w] \in Page

TypeOK ==
    /\ stored \in BOOLEAN
    /\ access \in [Restricted -> {"none", "active", "revoked"}]
    /\ audit \in Seq([user: Restricted, to: {"active", "revoked"}])
    /\ attempts \subseteq [id: 1 .. begun, user: User, success: BOOLEAN]
    /\ urls \subseteq [id: 1 .. begun, known: BOOLEAN]
    /\ pc \in [Worker -> {"idle"} \cup RequestSteps \cup ChangeSteps \cup PageSteps]
    /\ DOMAIN job = Worker /\ \A w \in Worker : JobOK(w)
    /\ faults \subseteq FaultKind
    /\ begun \in Nat /\ changes \in Nat /\ epoch \in Nat
    /\ entitled \subseteq Restricted \X (1 .. epoch)
    /\ served \subseteq [id: 1 .. begun, user: User, kind: Kind, since: Nat, until: Nat]
    /\ crossed \in BOOLEAN

EntitledDuring(u, first, last) ==
    u \in Open \/ \E n \in first .. last : <<u, n>> \in entitled

(* Whoever is answered with the file or with a URL of it had the right to  *)
(* it at some moment while the request was served: a revocation that was   *)
(* there when the request came stops it.                                   *)
OnlyEntitledAreServed ==
    \A s \in served : EntitledDuring(s.user, s.since, s.until)

(* The file never leaves, directly or through a URL that is known to       *)
(* somebody, without a log entry that says so; and a request whose failure *)
(* is logged has been answered with nothing.                               *)
NothingLeavesUnlogged ==
    /\ \A s \in served : [id |-> s.id, user |-> s.user, success |-> TRUE] \in attempts
    /\ \A l \in urls : l.known =>
          \E s \in served : s.id = l.id /\ s.kind = "url"
    /\ \A a \in attempts : ~a.success => \A s \in served : s.id # a.id

(* A grant or revocation that is answered with success is in case_access,  *)
(* and in the audit log unless the answer tells of a failure as well.      *)
ToldChangesAreAudited ==
    \A w \in Worker : pc[w] = "tell" =>
        /\ "done" \in job[w].said => job[w].committed
        /\ job[w].said = {"done"} => job[w].logged

(* The last grant or revocation of a user in the audit log is what         *)
(* case_access says, when no request that writes them is under way, none   *)
(* failed and no two of them were ever served at the same time.            *)
AuditFollowsTable ==
    (faults = {} /\ ~crossed /\ \A w \in Worker : pc[w] \notin ChangeSteps) =>
        \A u \in Restricted :
            LET of == {i \in DOMAIN audit : audit[i].user = u} IN
            access[u] = "active" <=>
                \E i \in of : audit[i].to = "active" /\ \A j \in of : j =< i

(* The page of a case shows each restricted user as granted or as one to   *)
(* be granted, and as both or neither only when the table was written      *)
(* between its two statements.                                             *)
PageShowsEachOnce ==
    \A w \in Worker : (pc[w] = "show" /\ job[w].since = epoch) =>
        job[w].offered = Restricted \ job[w].granted

=============================================================================
