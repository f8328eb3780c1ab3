-------------------------- MODULE ChainOfCustody --------------------------
(***************************************************************************)
(* Custody transfer, seal, unseal and case editing of the Flask back end   *)
(* (routes/custody.py, routes/evidence.py, routes/cases.py), run by        *)
(* concurrent request workers over PostgreSQL, MongoDB and Neo4j.          *)
(*                                                                         *)
(* PostgreSQL runs at READ COMMITTED: each statement of a transaction sees *)
(* what is committed when it starts, so each statement is a step of its    *)
(* own.  An UPDATE of one row locks it until the commit and is one step    *)
(* with it: nobody can tell the two apart.  The UPDATE that seals a case   *)
(* is not: it locks the rows it matches only.  MongoDB and Neo4j are       *)
(* written after the commit, one autocommitted call at a time.             *)
(*                                                                         *)
(* A transfer is blocked by two checks that are statements of their own,   *)
(* and nothing locks the rows they read.                                   *)
(***************************************************************************)
EXTENDS Naturals

CONSTANTS
    Evidence,   \* rows of table evidence, all with is_active = TRUE
    Case,       \* rows of table cases
    User,       \* rows of table users
    Worker,     \* requests that may be served at the same time
    CaseOf,     \* evidence.case_id
    Uploader,   \* evidence.uploader_id
    None,       \* "not read yet", for the from_user_id of a request
    FaultSets,  \* what may go wrong: one of these sets of faults, in each behaviour
    MaxClock    \* bound: no request starts once the clock has reached it

FaultKind == {"sql", "mongo", "neo4j", "crash"}

ASSUME CustodyAssumption ==
    /\ CaseOf \in [Evidence -> Case]
    /\ Uploader \in [Evidence -> User]
    /\ None \notin User
    /\ FaultSets \subseteq SUBSET FaultKind
    /\ MaxClock \in Nat

VARIABLES
    clock,         \* PostgreSQL's clock: it ticks when a transfer begins and at every commit
    caseStatus,    \* cases.status
    sealed,        \* evidence.is_sealed
    cocLogs,       \* committed rows of coc_logs
    nextLogId,     \* the sequence behind coc_logs.log_id; a rollback does not give a value back
    custodyDocs,   \* MongoDB custody_logs, by the log_id of the transfer they tell of
    logs,          \* MongoDB audit_logs and case_activity_logs
    graphEvidence, \* Evidence nodes of the graph, with their HAS_EVIDENCE edge
    graphTransfers,\* CustodyEvent nodes of transfers
    graphSeals,    \* CustodyEvent nodes of seals and unseals
    pc,            \* the statement each worker executes next
    job,           \* the local variables of the request each worker serves
    faults,        \* the faults of this behaviour
    reported,      \* history: transfers whose client was told of success
    sealLog,       \* history: committed changes of is_sealed
    statusLog      \* history: committed changes of cases.status

postgres == <<clock, caseStatus, sealed, cocLogs, nextLogId>>
mongo    == <<custodyDocs, logs>>
neo4j    == <<graphEvidence, graphTransfers, graphSeals>>
history  == <<faults, reported, sealLog, statusLog>>
vars     == <<postgres, mongo, neo4j, pc, job, history>>

Status     == {"open", "closed", "archived"}
SealAction == {"seal", "unseal"}

(* A row of coc_logs.  ts is the column timestamp, NOW(), which PostgreSQL *)
(* defines as the start of the transaction; at is the instant of its       *)
(* commit, which no column records (history).                              *)
Row == [id: Nat, ev: Evidence, from: User, to: User, ts: Nat, at: Nat]

(* What the MongoDB document and the Neo4j node repeat of a row. *)
Copy == [id: Nat, ev: Evidence, from: User, to: User]
CopyOf(r) == [id |-> r.id, ev |-> r.ev, from |-> r.from, to |-> r.to]

SealChange   == [ev: Evidence, action: SealAction, at: Nat]
StatusChange == [case: Case, status: Status, at: Nat]
LogEvent == {"SEAL", "UNSEAL", "TRANSFER_BLOCKED_SEALED", "evidence_sealed",
             "custody_transferred"}
LogEntry == [event: LogEvent, ev: Evidence]
                \cup [event: {"case_updated", "UPDATE"}, case: Case]

TransferSteps == {"checkCase", "checkSeal", "readHolder", "insert", "commit",
                  "logCustody", "graphCustody", "logTransfer"}
Uncommitted   == {"checkCase", "checkSeal", "readHolder", "insert", "commit"}
SealSteps     == {"auditSeal", "logSeal", "graphSeal"}
EditSteps     == {"autoSeal", "commitAutoSeal", "graphAutoSeal", "logEdit", "auditEdit"}

NoJob       == <<>>
TransferJob == [ev: Evidence, to: User, from: User \cup {None}, id: Nat, ts: Nat]
EditJob     == [case: Case, locked: SUBSET Evidence, rows: SUBSET SealChange]

RowsOf(e) == {r \in cocLogs : r.ev = e}

(* The rows of evidence that a closing has updated and not committed yet:  *)
(* another UPDATE of one of them waits.                                    *)
Locked == {e \in Evidence : \E w \in Worker : pc[w] = "commitAutoSeal"
                                               /\ e \in job[w].locked}

-----------------------------------------------------------------------------
(* Some evidence may have been sealed before: its seal has the time 0.     *)
Init ==
    /\ clock = 0
    /\ caseStatus = [c \in Case |-> "open"]
    /\ sealed \in [Evidence -> BOOLEAN]
    /\ cocLogs = {}
    /\ nextLogId = 1
    /\ custodyDocs = {} /\ logs = {}
    /\ graphEvidence \in SUBSET Evidence
    /\ graphTransfers = {} /\ graphSeals = {}
    /\ pc = [w \in Worker |-> "idle"]
    /\ job = [w \in Worker |-> NoJob]
    /\ faults \in FaultSets
    /\ reported = {} /\ statusLog = {}
    /\ sealLog = {[ev |-> e, action |-> "seal", at |-> 0] : e \in {x \in Evidence : sealed[x]}}

Tick == clock' = clock + 1

Goto(w, step) == pc' = [pc EXCEPT ![w] = step]

Respond(w) ==
    /\ pc' = [pc EXCEPT ![w] = "idle"]
    /\ job' = [job EXCEPT ![w] = NoJob]

(* A call that writes to a store: it takes effect, or, in the behaviours   *)
(* in which that store may fail, it raises and has no effect.              *)
MayFail(fault) == fault \in faults

-----------------------------------------------------------------------------
(* POST /custody/transfer *)

(* The first execute of the connection opens the transaction and so fixes  *)
(* the NOW() of the row to come; psycopg2 sends BEGIN on its own, before   *)
(* the SELECT of the case status.                                          *)
BeginTransfer(w, e, u) ==
    /\ pc[w] = "idle"
    /\ clock < MaxClock
    /\ Tick
    /\ Goto(w, "checkCase")
    /\ job' = [job EXCEPT ![w] = [ev |-> e, to |-> u, from |-> None,
                                  id |-> 0, ts |-> clock']]
    /\ UNCHANGED <<caseStatus, sealed, cocLogs, nextLogId, mongo, neo4j, history>>

(* Mutant: "archived" tested for "closed". *)
CheckCaseArchived(w) ==
    /\ pc[w] = "checkCase"
    /\ IF caseStatus[CaseOf[job[w].ev]] = "archived"
       THEN Respond(w)
       ELSE Goto(w, "checkSeal") /\ UNCHANGED job
    /\ UNCHANGED <<postgres, mongo, neo4j, history>>

(* Only "closed" blocks a transfer; an archived case does not. *)
CheckCase(w) ==
    /\ pc[w] = "checkCase"
    /\ IF caseStatus[CaseOf[job[w].ev]] = "closed"
       THEN Respond(w)
       ELSE Goto(w, "checkSeal") /\ UNCHANGED job
    /\ UNCHANGED <<postgres, mongo, neo4j, history>>

(* Mutant: the seal is left to the caller to check. *)
CheckSealDropped(w) ==
    /\ pc[w] = "checkSeal"
    /\ Goto(w, "readHolder")
    /\ UNCHANGED <<postgres, mongo, neo4j, job, history>>

CheckSeal(w) ==
    /\ pc[w] = "checkSeal"
    /\ IF sealed[job[w].ev]
       THEN /\ Respond(w)
            /\ \/ logs' = logs \cup {[event |-> "TRANSFER_BLOCKED_SEALED",
                                      ev |-> job[w].ev]}
               \/ MayFail("mongo") /\ UNCHANGED logs
       ELSE /\ Goto(w, "readHolder")
            /\ UNCHANGED <<job, logs>>
    /\ UNCHANGED <<postgres, custodyDocs, neo4j, history>>

(* Mutant: from_user_id of the last row. *)
IsLastGiver(u, e) ==
    \/ RowsOf(e) = {} /\ u = Uploader[e]
    \/ \E r \in RowsOf(e) : u = r.from /\ \A q \in RowsOf(e) : q.ts =< r.ts

(* The holder is the recipient of the committed row with the greatest      *)
(* timestamp, or the uploader when there is no row.                        *)
IsHolder(u, e) ==
    \/ RowsOf(e) = {} /\ u = Uploader[e]
    \/ \E r \in RowsOf(e) : u = r.to /\ \A q \in RowsOf(e) : q.ts =< r.ts

ReadHolder(w) ==
    /\ pc[w] = "readHolder"
    /\ \E u \in User :
          /\ IsHolder(u, job[w].ev)
          /\ job' = [job EXCEPT ![w].from = u]
    /\ Goto(w, "insert")
    /\ UNCHANGED <<postgres, mongo, neo4j, history>>

InsertRow(w) ==
    /\ pc[w] = "insert"
    /\ job' = [job EXCEPT ![w].id = nextLogId]
    /\ nextLogId' = nextLogId + 1
    /\ Goto(w, "commit")
    /\ UNCHANGED <<clock, caseStatus, sealed, cocLogs, mongo, neo4j, history>>

RowToCommit(w) ==
    [id |-> job[w].id, ev |-> job[w].ev, from |-> job[w].from, to |-> job[w].to,
     ts |-> job[w].ts, at |-> clock + 1]

(* Mutant: the new row replaces the old ones. *)
CommitReplaces(w) ==
    /\ pc[w] = "commit"
    /\ Tick
    /\ cocLogs' = (cocLogs \ RowsOf(job[w].ev)) \cup {RowToCommit(w)}
    /\ Goto(w, "logCustody")
    /\ UNCHANGED <<caseStatus, sealed, nextLogId, mongo, neo4j, job, history>>

(* The commit makes the row visible.  When the server's answer is lost the *)
(* handler takes its except branch although the row is there.              *)
CommitTransfer(w) ==
    /\ pc[w] = "commit"
    /\ Tick
    /\ cocLogs' = cocLogs \cup {RowToCommit(w)}
    /\ \/ Goto(w, "logCustody") /\ UNCHANGED job
       \/ MayFail("sql") /\ Respond(w)
    /\ UNCHANGED <<caseStatus, sealed, nextLogId, mongo, neo4j, history>>

(* A statement or the commit raises: rollback, and "Transfer failed". *)
TransferFails(w) ==
    /\ MayFail("sql")
    /\ pc[w] \in Uncommitted
    /\ Respond(w)
    /\ UNCHANGED <<postgres, mongo, neo4j, history>>

(* The three mirror writes, in the order of the handler's list; each       *)
(* exception is swallowed.                                                 *)
LogCustody(w) ==
    /\ pc[w] = "logCustody"
    /\ \/ custodyDocs' = custodyDocs \cup {CopyOf(job[w])}
       \/ MayFail("mongo") /\ UNCHANGED custodyDocs
    /\ Goto(w, "graphCustody")
    /\ UNCHANGED <<postgres, logs, neo4j, job, history>>

(* Mutant: the query also MATCHes an earlier event, to chain the new one.  *)
GraphCustodyChained(w) ==
    /\ pc[w] = "graphCustody"
    /\ graphTransfers' = IF \E g \in graphTransfers : g.ev = job[w].ev
                         THEN graphTransfers \cup {CopyOf(job[w])}
                         ELSE graphTransfers
    /\ Goto(w, "logTransfer")
    /\ UNCHANGED <<postgres, mongo, graphEvidence, graphSeals, job, history>>

(* The last query of neo_add_custody_event MATCHes the evidence node: when *)
(* there is none it creates nothing and raises nothing.                    *)
GraphCustody(w) ==
    /\ pc[w] = "graphCustody"
    /\ \/ /\ job[w].ev \in graphEvidence
          /\ graphTransfers' = graphTransfers \cup {CopyOf(job[w])}
       \/ /\ job[w].ev \notin graphEvidence \/ MayFail("neo4j")
          /\ UNCHANGED graphTransfers
    /\ Goto(w, "logTransfer")
    /\ UNCHANGED <<postgres, mongo, graphEvidence, graphSeals, job, history>>

LogTransfer(w) ==
    /\ pc[w] = "logTransfer"
    /\ \/ logs' = logs \cup {[event |-> "custody_transferred", ev |-> job[w].ev]}
       \/ MayFail("mongo") /\ UNCHANGED logs
    /\ Respond(w)
    /\ reported' = reported \cup {job[w].id}
    /\ UNCHANGED <<postgres, custodyDocs, neo4j, faults, sealLog, statusLog>>

Transferring(w) ==
    \/ CheckCase(w) \/ CheckSeal(w) \/ ReadHolder(w) \/ InsertRow(w)
    \/ CommitTransfer(w) \/ TransferFails(w)
    \/ LogCustody(w) \/ GraphCustody(w) \/ LogTransfer(w)

-----------------------------------------------------------------------------
(* POST /evidence/<id>/seal and /evidence/<id>/unseal *)

(* UPDATE ... WHERE is_active RETURNING, and commit.  Neither asks what    *)
(* the seal or the case status was; the UPDATE waits for a row that a      *)
(* closing has locked.  A lost answer to the commit leads to the except    *)
(* branch: the change stands and nothing is logged.                        *)
ChangeSeal(w, e, action) ==
    /\ pc[w] = "idle"
    /\ clock < MaxClock
    /\ e \notin Locked
    /\ Tick
    /\ sealed' = [sealed EXCEPT ![e] = (action = "seal")]
    /\ LET change == [ev |-> e, action |-> action, at |-> clock + 1]
       IN  /\ sealLog' = sealLog \cup {change}
           /\ \/ /\ Goto(w, "auditSeal")
                 /\ job' = [job EXCEPT ![w] = change]
              \/ MayFail("sql") /\ UNCHANGED <<pc, job>>
    /\ UNCHANGED <<caseStatus, cocLogs, nextLogId, mongo, neo4j, faults, reported, statusLog>>

(* log_audit_event is not in a try of its own: when it raises the handler  *)
(* answers 500 and skips the rest, although the change is committed.       *)
AuditSeal(w) ==
    /\ pc[w] = "auditSeal"
    /\ \/ /\ logs' = logs \cup {[event |-> IF job[w].action = "seal"
                                           THEN "SEAL" ELSE "UNSEAL",
                                 ev |-> job[w].ev]}
          /\ Goto(w, IF job[w].action = "seal" THEN "logSeal" ELSE "graphSeal")
          /\ UNCHANGED job
       \/ MayFail("mongo") /\ Respond(w) /\ UNCHANGED logs
    /\ UNCHANGED <<postgres, custodyDocs, neo4j, history>>

(* log_case_activity, of the seal route only; not in a try either. *)
LogSeal(w) ==
    /\ pc[w] = "logSeal"
    /\ \/ /\ logs' = logs \cup {[event |-> "evidence_sealed", ev |-> job[w].ev]}
          /\ Goto(w, "graphSeal")
          /\ UNCHANGED job
       \/ MayFail("mongo") /\ Respond(w) /\ UNCHANGED logs
    /\ UNCHANGED <<postgres, custodyDocs, neo4j, history>>

(* neo_seal_evidence: like GraphCustody it needs the evidence node. *)
NeoSeal(change) ==
    \/ /\ change.ev \in graphEvidence
       /\ graphSeals' = graphSeals \cup {change}
    \/ /\ change.ev \notin graphEvidence \/ MayFail("neo4j")
       /\ UNCHANGED graphSeals

GraphSeal(w) ==
    /\ pc[w] = "graphSeal"
    /\ NeoSeal(job[w])
    /\ Respond(w)
    /\ UNCHANGED <<postgres, mongo, graphEvidence, graphTransfers, history>>

Sealing(w) == AuditSeal(w) \/ LogSeal(w) \/ GraphSeal(w)

-----------------------------------------------------------------------------
(* POST /cases/edit/<id> *)

(* Mutant: archiving seals, closing does not. *)
EditCaseArchived(w, c, s) ==
    /\ pc[w] = "idle"
    /\ clock < MaxClock
    /\ Tick
    /\ caseStatus' = [caseStatus EXCEPT ![c] = s]
    /\ statusLog' = statusLog \cup {[case |-> c, status |-> s, at |-> clock + 1]}
    /\ Goto(w, IF s = "archived" THEN "autoSeal" ELSE "logEdit")
    /\ job' = [job EXCEPT ![w] = [case |-> c, locked |-> {}, rows |-> {}]]
    /\ UNCHANGED <<sealed, cocLogs, nextLogId, mongo, neo4j, faults, reported, sealLog>>

(* The first transaction writes the status, whatever it was before. *)
EditCase(w, c, s) ==
    /\ pc[w] = "idle"
    /\ clock < MaxClock
    /\ Tick
    /\ caseStatus' = [caseStatus EXCEPT ![c] = s]
    /\ statusLog' = statusLog \cup {[case |-> c, status |-> s, at |-> clock + 1]}
    /\ \/ /\ Goto(w, IF s = "closed" THEN "autoSeal" ELSE "logEdit")
          /\ job' = [job EXCEPT ![w] = [case |-> c, locked |-> {}, rows |-> {}]]
       \/ MayFail("sql") /\ UNCHANGED <<pc, job>>
    /\ UNCHANGED <<sealed, cocLogs, nextLogId, mongo, neo4j, faults, reported, sealLog>>

(* The second transaction, in a try whose except is "pass".  Its UPDATE    *)
(* locks the unsealed evidence of the case, waiting for the rows another   *)
(* closing has locked; what is sealed already it neither matches nor       *)
(* locks.  It does not look at the status again.                           *)
Unsealed(c) == {e \in Evidence : CaseOf[e] = c /\ ~sealed[e]}

AutoSeal(w) ==
    /\ pc[w] = "autoSeal"
    /\ Unsealed(job[w].case) \cap Locked = {}
    /\ job' = [job EXCEPT ![w].locked = Unsealed(job[w].case)]
    /\ Goto(w, "commitAutoSeal")
    /\ UNCHANGED <<postgres, mongo, neo4j, history>>

(* The commit shows the rows sealed.  When its answer is lost the seals    *)
(* stand and the handler goes on as if the try had failed.                 *)
CommitAutoSeal(w) ==
    /\ pc[w] = "commitAutoSeal"
    /\ Tick
    /\ sealed' = [e \in Evidence |-> sealed[e] \/ e \in job[w].locked]
    /\ LET rows == {[ev |-> e, action |-> "seal", at |-> clock + 1] : e \in job[w].locked}
       IN  /\ sealLog' = sealLog \cup rows
           /\ \/ /\ Goto(w, "graphAutoSeal")
                 /\ job' = [job EXCEPT ![w].rows = rows]
              \/ MayFail("sql") /\ Goto(w, "logEdit") /\ UNCHANGED job
    /\ UNCHANGED <<caseStatus, cocLogs, nextLogId, mongo, neo4j, faults, reported, statusLog>>

(* Mutant: the rows are mirrored although the commit fails. *)
AutoSealMirrored(w) ==
    /\ MayFail("sql")
    /\ pc[w] = "commitAutoSeal"
    /\ Goto(w, "graphAutoSeal")
    /\ job' = [job EXCEPT ![w].rows =
                  {[ev |-> e, action |-> "seal", at |-> clock] : e \in job[w].locked}]
    /\ UNCHANGED <<postgres, mongo, neo4j, history>>

(* The UPDATE or the commit raises: the transaction is undone. *)
AutoSealFails(w) ==
    /\ MayFail("sql")
    /\ pc[w] \in {"autoSeal", "commitAutoSeal"}
    /\ Goto(w, "logEdit")
    /\ UNCHANGED <<postgres, mongo, neo4j, job, history>>

(* One neo_seal_evidence for each returned row, each in its own try. *)
GraphAutoSeal(w) ==
    /\ pc[w] = "graphAutoSeal"
    /\ \/ /\ job[w].rows = {}
          /\ Goto(w, "logEdit")
          /\ UNCHANGED <<job, graphSeals>>
       \/ \E change \in job[w].rows :
             /\ NeoSeal(change)
             /\ job' = [job EXCEPT ![w].rows = @ \ {change}]
             /\ UNCHANGED pc
    /\ UNCHANGED <<postgres, mongo, graphEvidence, graphTransfers, history>>

(* log_case_activity and log_audit_event are in no try: the first that     *)
(* raises ends the request with a 500.                                     *)
LogEdit(w) ==
    /\ pc[w] = "logEdit"
    /\ \/ /\ logs' = logs \cup {[event |-> "case_updated", case |-> job[w].case]}
          /\ Goto(w, "auditEdit")
          /\ UNCHANGED job
       \/ MayFail("mongo") /\ Respond(w) /\ UNCHANGED logs
    /\ UNCHANGED <<postgres, custodyDocs, neo4j, history>>

AuditEdit(w) ==
    /\ pc[w] = "auditEdit"
    /\ \/ logs' = logs \cup {[event |-> "UPDATE", case |-> job[w].case]}
       \/ MayFail("mongo") /\ UNCHANGED logs
    /\ Respond(w)
    /\ UNCHANGED <<postgres, custodyDocs, neo4j, history>>

Editing(w) ==
    \/ AutoSeal(w) \/ CommitAutoSeal(w) \/ AutoSealFails(w) \/ GraphAutoSeal(w)
    \/ LogEdit(w) \/ AuditEdit(w)

-----------------------------------------------------------------------------
(* The process that serves a request is killed (a serverless function that *)
(* crashes or runs out of time).  PostgreSQL rolls back what the request   *)
(* had not committed, the rest of the handler never runs.                  *)
Crash(w) ==
    /\ MayFail("crash")
    /\ pc[w] # "idle"
    /\ Respond(w)
    /\ UNCHANGED <<postgres, mongo, neo4j, history>>

(* The upload that inserted e gets to its Neo4j write, which comes after   *)
(* the evidence row is committed and may never come.                       *)
NeoAddEvidence(e) ==
    /\ e \notin graphEvidence
    /\ graphEvidence' = graphEvidence \cup {e}
    /\ UNCHANGED <<postgres, mongo, graphTransfers, graphSeals, pc, job, history>>

(* All requests the bound allows have been served. *)
Quiet ==
    /\ clock >= MaxClock
    /\ \A w \in Worker : pc[w] = "idle"
    /\ UNCHANGED vars

Request(w) ==
    \/ \E e \in Evidence, u \in User : BeginTransfer(w, e, u)
    \/ \E e \in Evidence, action \in SealAction : ChangeSeal(w, e, action)
    \/ \E c \in Case, s \in Status : EditCase(w, c, s)

Continue(w) == Transferring(w) \/ Sealing(w) \/ Editing(w)

Next ==
    \/ \E w \in Worker : Request(w) \/ Continue(w) \/ Crash(w)
    \/ \E e \in Evidence : NeoAddEvidence(e)
    \/ Quiet

Spec == Init /\ [][Next]_vars

(* A handler is sequential code: while its process lives, its next         *)
(* statement is executed.  Nothing makes a client send a request.          *)
FairSpec == Spec /\ \A w \in Worker : WF_vars(Continue(w))

-----------------------------------------------------------------------------
(* Type invariant.  The request record of a worker has the fields that its *)
(* handler has bound by the time it reaches the step named in pc.          *)
TypeOK ==
    /\ clock \in Nat
    /\ caseStatus \in [Case -> Status]
    /\ sealed \in [Evidence -> BOOLEAN]
    /\ cocLogs \subseteq Row
    /\ nextLogId \in Nat
    /\ custodyDocs \subseteq Copy
    /\ logs \subseteq LogEntry
    /\ graphEvidence \subseteq Evidence
    /\ graphTransfers \subseteq Copy
    /\ graphSeals \subseteq SealChange
    /\ pc \in [Worker -> {"idle"} \cup TransferSteps \cup SealSteps \cup EditSteps]
    /\ job \in [Worker -> {NoJob} \cup TransferJob \cup SealChange \cup EditJob]
    /\ \A w \in Worker :
          /\ pc[w] \in TransferSteps => job[w] \in TransferJob
          /\ pc[w] \in TransferSteps \ {"checkCase", "checkSeal", "readHolder"}
                => job[w].from \in User
          /\ pc[w] \in SealSteps => job[w] \in SealChange
          /\ pc[w] \in EditSteps => job[w] \in EditJob
    /\ faults \subseteq FaultKind
    /\ reported \subseteq Nat
    /\ sealLog \subseteq SealChange
    /\ statusLog \subseteq StatusChange

(* Nothing is copied that PostgreSQL does not hold: every MongoDB custody  *)
(* document and every transfer event of the graph repeats a committed row  *)
(* of coc_logs, whatever failed or crashed and whoever else was running.   *)
(* The handler writes the mirrors after the commit.                        *)
MirrorsFollowLedger ==
    custodyDocs \cup graphTransfers \subseteq {CopyOf(r) : r \in cocLogs}

(* Every row of coc_logs names as its giver the uploader or the recipient  *)
(* of a row that was committed before it: no transfer takes the evidence   *)
(* from somebody who never had it.                                         *)
GiverHeldIt ==
    \A r \in cocLogs :
        \/ r.from = Uploader[r.ev]
        \/ \E q \in RowsOf(r.ev) : q.at < r.at /\ q.to = r.from

(* Two transfer transactions of which neither committed before the other   *)
(* began.                                                                  *)
Overlap(q, r) == q.ts < r.at /\ r.ts < q.at

(* The custody view walks the rows in timestamp order and calls it a gap   *)
(* when one row's recipient is not the giver of the next.                  *)
NextInView(p, r) ==
    /\ p.ev = r.ev /\ p.ts < r.ts
    /\ \A q \in RowsOf(p.ev) : q.ts =< p.ts \/ r.ts =< q.ts

Gap(p, r) == NextInView(p, r) /\ p.to # r.from

(* The chain of custody has a gap only where transfers of the same         *)
(* evidence overlapped: requests served one after the other, even with     *)
(* failures and crashes between them, leave an unbroken chain.             *)
GapNeedsOverlap ==
    \A p, r \in cocLogs :
        Gap(p, r) => \E q \in RowsOf(r.ev) : q # r /\ Overlap(q, r)

(* Evidence that was sealed when a transfer began is transferred only if   *)
(* somebody unsealed it before the transfer committed.                     *)
SealStopsLaterTransfers ==
    \A r \in cocLogs, s \in sealLog :
        s.ev = r.ev /\ s.action = "seal" /\ s.at < r.ts
            => \E u \in sealLog : /\ u.ev = r.ev /\ u.action = "unseal"
                                  /\ s.at < u.at /\ u.at < r.at

(* Evidence of a case that was closed when a transfer began is transferred *)
(* only if the case got another status before the transfer committed.      *)
CloseStopsLaterTransfers ==
    \A r \in cocLogs, s \in statusLog :
        s.case = CaseOf[r.ev] /\ s.status = "closed" /\ s.at < r.ts
            => \E u \in statusLog : /\ u.case = s.case /\ u.status # "closed"
                                    /\ s.at < u.at /\ u.at < r.at

(* A client that is told "Custody transferred successfully" can rely on    *)
(* it: the row is committed and the transfer was offered to both mirrors.  *)
ReportedIsCommitted ==
    reported \subseteq {r.id : r \in cocLogs}

(* The audit log, the case activity log and the seal events of the graph   *)
(* tell only of what PostgreSQL committed: a seal, an unseal, an edit, a   *)
(* transfer, or a transfer that was refused because of a seal.             *)
LogsTellTheTruth ==
    /\ graphSeals \subseteq sealLog
    /\ \A l \in logs :
          \/ /\ l.event \in {"SEAL", "evidence_sealed", "TRANSFER_BLOCKED_SEALED"}
             /\ \E s \in sealLog : s.ev = l.ev /\ s.action = "seal"
          \/ /\ l.event = "UNSEAL"
             /\ \E s \in sealLog : s.ev = l.ev /\ s.action = "unseal"
          \/ /\ l.event = "custody_transferred"
             /\ RowsOf(l.ev) # {}
          \/ /\ l.event \in {"case_updated", "UPDATE"}
             /\ \E s \in statusLog : s.case = l.case

-----------------------------------------------------------------------------
(* A closing ends with all the evidence of the case sealed, but for what   *)
(* somebody unsealed after it; when neither PostgreSQL nor the process     *)
(* fails between the two transactions of edit_case.  An unseal may come    *)
(* before the second of them commits and is not undone by it.              *)
CloseSealsAll ==
    \A c \in Case, n \in 1 .. MaxClock :
        /\ faults \cap {"sql", "crash"} = {}
        /\ [case |-> c, status |-> "closed", at |-> n] \in statusLog
        ~> \A e \in Evidence :
              CaseOf[e] = c =>
                 \/ sealed[e]
                 \/ \E u \in sealLog : u.ev = e /\ u.action = "unseal" /\ n < u.at

(* When nothing fails, each committed transfer reaches MongoDB, and Neo4j  *)
(* too when the evidence node is there by the time the mirrors are written.*)
TransfersReachMirrors ==
    \A n \in 1 .. MaxClock :
        /\ faults = {} /\ (\E r \in cocLogs : r.id = n)
              ~> (\E d \in custodyDocs : d.id = n)
        /\ (\E w \in Worker : /\ faults = {}
                              /\ pc[w] = "logCustody" /\ job[w].id = n
                              /\ job[w].ev \in graphEvidence)
              ~> (\E d \in graphTransfers : d.id = n)

=============================================================================
