----------------------- MODULE ChainOfCustodyProofs -----------------------
(***************************************************************************)
(* Proofs about ChainOfCustody, for every set of evidence, cases, users    *)
(* and workers, every kind of failure and every bound on the clock.        *)
(***************************************************************************)
EXTENDS ChainOfCustodyInv, TLAPS

(* Every variable keeps its type, and the request record of a worker has   *)
(* the fields its handler needs at the step it has reached.                *)
THEOREM TypeCorrect == Spec => []TypeOK
<1> USE CustodyAssumption DEF FaultKind, Status, SealAction, Row, Copy, SealChange,
        StatusChange, LogEvent, LogEntry, TransferSteps, SealSteps, EditSteps,
        Uncommitted, NoJob, TransferJob, EditJob
<1>1. Init => TypeOK
  BY DEF Init, TypeOK
<1>2. TypeOK /\ [Next]_vars => TypeOK'
  <2> SUFFICES ASSUME TypeOK, [Next]_vars PROVE TypeOK'
    OBVIOUS
  <2> USE DEF TypeOK, postgres, mongo, neo4j, history, Tick, Goto, Respond, MayFail
  <2>1. ASSUME NEW w \in Worker, NEW e \in Evidence, NEW u \in User,
               BeginTransfer(w, e, u)
        PROVE  TypeOK'
    BY <2>1 DEF BeginTransfer
  <2>2. ASSUME NEW w \in Worker, CheckCase(w) PROVE TypeOK'
    <3>1. CASE Respond(w)
      BY <2>2, <3>1 DEF CheckCase
    <3>2. CASE Goto(w, "checkSeal") /\ UNCHANGED job
      BY <2>2, <3>2 DEF CheckCase
    <3> QED
      BY <2>2, <3>1, <3>2 DEF CheckCase
  <2>3. ASSUME NEW w \in Worker, CheckSeal(w) PROVE TypeOK'
    BY <2>3, SMTT(20) DEF CheckSeal
  <2>4. ASSUME NEW w \in Worker, ReadHolder(w) PROVE TypeOK'
    BY <2>4, SMTT(40) DEF ReadHolder
  <2>5. ASSUME NEW w \in Worker, InsertRow(w) PROVE TypeOK'
    BY <2>5 DEF InsertRow
  <2>6. ASSUME NEW w \in Worker, CommitTransfer(w) PROVE TypeOK'
    <3>1. /\ cocLogs' = cocLogs \cup {RowToCommit(w)}
          /\ pc[w] = "commit" /\ clock' = clock + 1
          /\ UNCHANGED <<caseStatus, sealed, nextLogId, custodyDocs, logs, graphEvidence,
                         graphTransfers, graphSeals, faults, reported, sealLog, statusLog>>
      BY <2>6 DEF CommitTransfer
    <3>2. RowToCommit(w) \in Row
      BY <3>1 DEF RowToCommit
    <3>3. CASE Respond(w)
      BY <3>1, <3>2, <3>3
    <3>4. CASE Goto(w, "logCustody") /\ UNCHANGED job
      BY <3>1, <3>2, <3>4
    <3> QED
      BY <2>6, <3>3, <3>4 DEF CommitTransfer
  <2>7. ASSUME NEW w \in Worker, TransferFails(w) PROVE TypeOK'
    BY <2>7 DEF TransferFails
  <2>8. ASSUME NEW w \in Worker, LogCustody(w) PROVE TypeOK'
    BY <2>8 DEF LogCustody, CopyOf
  <2>9. ASSUME NEW w \in Worker, GraphCustody(w) PROVE TypeOK'
    BY <2>9 DEF GraphCustody, CopyOf
  <2>10. ASSUME NEW w \in Worker, LogTransfer(w) PROVE TypeOK'
    <3>1. job[w] \in TransferJob /\ job[w].ev \in Evidence /\ job[w].id \in Nat
      BY <2>10 DEF LogTransfer
    <3>2. logs' \subseteq LogEntry
      BY <2>10, <3>1 DEF LogTransfer
    <3>3. reported' \subseteq Nat
      BY <2>10, <3>1 DEF LogTransfer
    <3> QED
      BY <2>10, <3>2, <3>3 DEF LogTransfer
  <2>11. ASSUME NEW w \in Worker, NEW e \in Evidence, NEW a \in SealAction,
                ChangeSeal(w, e, a)
         PROVE  TypeOK'
    BY <2>11 DEF ChangeSeal
  <2>12. ASSUME NEW w \in Worker, AuditSeal(w) PROVE TypeOK'
    <3>1. job[w] \in SealChange /\ job[w].ev \in Evidence
      BY <2>12 DEF AuditSeal
    <3>2. logs' \subseteq LogEntry
      BY <2>12, <3>1 DEF AuditSeal
    <3>3. CASE Respond(w)
      BY <2>12, <3>2, <3>3 DEF AuditSeal
    <3>4. CASE job' = job /\ \E t \in {"logSeal", "graphSeal"} : Goto(w, t)
      BY <2>12, <3>1, <3>2, <3>4 DEF AuditSeal
    <3> HIDE DEF Goto, Respond, TypeOK
    <3> QED
      BY <2>12, <3>3, <3>4 DEF AuditSeal
  <2>13. ASSUME NEW w \in Worker, LogSeal(w) PROVE TypeOK'
    BY <2>13 DEF LogSeal
  <2>14. ASSUME NEW w \in Worker, GraphSeal(w) PROVE TypeOK'
    BY <2>14 DEF GraphSeal, NeoSeal
  <2>15. ASSUME NEW w \in Worker, NEW c \in Case, NEW s \in Status, EditCase(w, c, s)
         PROVE  TypeOK'
    <3>1. statusLog' \subseteq StatusChange /\ caseStatus' \in [Case -> Status]
      BY <2>15 DEF EditCase
    <3>2. [case |-> c, locked |-> {}, rows |-> {}] \in EditJob
      OBVIOUS
    <3>3. CASE UNCHANGED <<pc, job>>
      BY <2>15, <3>1, <3>3 DEF EditCase
    <3>4. CASE /\ \E t \in {"autoSeal", "logEdit"} : Goto(w, t)
               /\ job' = [job EXCEPT ![w] = [case |-> c, locked |-> {}, rows |-> {}]]
      <4>1. pc' \in [Worker -> {"idle"} \cup TransferSteps \cup SealSteps \cup EditSteps]
        BY <3>4
      <4>2. job' \in [Worker -> {NoJob} \cup TransferJob \cup SealChange \cup EditJob]
        BY <3>2, <3>4
      <4>3. \A v \in Worker :
               /\ pc'[v] \in TransferSteps => job'[v] \in TransferJob
               /\ pc'[v] \in TransferSteps \ {"checkCase", "checkSeal", "readHolder"}
                     => job'[v].from \in User
               /\ pc'[v] \in SealSteps => job'[v] \in SealChange
               /\ pc'[v] \in EditSteps => job'[v] \in EditJob
        BY <3>2, <3>4
      <4> QED
        BY <2>15, <3>1, <4>1, <4>2, <4>3 DEF EditCase
    <3> HIDE DEF Goto, TypeOK
    <3>5. \/ UNCHANGED <<pc, job>>
          \/ /\ \E t \in {"autoSeal", "logEdit"} : Goto(w, t)
             /\ job' = [job EXCEPT ![w] = [case |-> c, locked |-> {}, rows |-> {}]]
      BY <2>15 DEF EditCase
    <3> QED
      BY <3>3, <3>4, <3>5
  <2>16. ASSUME NEW w \in Worker, AutoSeal(w) PROVE TypeOK'
    <3>1. job[w] \in EditJob /\ Unsealed(job[w].case) \subseteq Evidence
      BY <2>16 DEF AutoSeal, Unsealed
    <3>2. [job[w] EXCEPT !.locked = Unsealed(job[w].case)] \in EditJob
      BY <3>1
    <3> QED
      BY <2>16, <3>1, <3>2, SMTT(40) DEF AutoSeal
  <2>24. ASSUME NEW w \in Worker, CommitAutoSeal(w) PROVE TypeOK'
    <3> DEFINE rows == {[ev |-> e, action |-> "seal", at |-> clock + 1] : e \in job[w].locked}
    <3>1. job[w] \in EditJob /\ rows \subseteq SealChange
      BY <2>24 DEF CommitAutoSeal
    <3>2. sealLog' \subseteq SealChange /\ sealed' \in [Evidence -> BOOLEAN]
      BY <2>24, <3>1 DEF CommitAutoSeal
    <3>3. [job[w] EXCEPT !.rows = rows] \in EditJob
      BY <3>1
    <3> HIDE DEF rows
    <3> QED
      BY <2>24, <3>1, <3>2, <3>3, SMTT(40) DEF CommitAutoSeal, rows
  <2>17. ASSUME NEW w \in Worker, AutoSealFails(w) PROVE TypeOK'
    BY <2>17 DEF AutoSealFails
  <2>18. ASSUME NEW w \in Worker, GraphAutoSeal(w) PROVE TypeOK'
    BY <2>18, SMTT(20) DEF GraphAutoSeal, NeoSeal
  <2>19. ASSUME NEW w \in Worker, LogEdit(w) PROVE TypeOK'
    BY <2>19 DEF LogEdit
  <2>20. ASSUME NEW w \in Worker, AuditEdit(w) PROVE TypeOK'
    BY <2>20 DEF AuditEdit
  <2>21. ASSUME NEW w \in Worker, Crash(w) PROVE TypeOK'
    BY <2>21 DEF Crash
  <2>22. ASSUME NEW e \in Evidence, NeoAddEvidence(e) PROVE TypeOK'
    BY <2>22 DEF NeoAddEvidence
  <2>23. CASE UNCHANGED vars
    BY <2>23 DEF vars
  <2> HIDE DEF TypeOK
  <2> QED
    BY <2>1, <2>2, <2>3, <2>4, <2>5, <2>6, <2>7, <2>8, <2>9, <2>10, <2>11, <2>12,
       <2>13, <2>14, <2>15, <2>16, <2>17, <2>18, <2>19, <2>20, <2>21, <2>22, <2>23,
       <2>24
       DEF Next, Request, Continue, Transferring, Sealing, Editing, Quiet
<1> QED
  BY <1>1, <1>2, PTL DEF Spec

-----------------------------------------------------------------------------
(* The invariants below speak of committed data and of requests that have  *)
(* not committed yet.  All steps but nine leave both alone: at most they   *)
(* take a request out of its uncommitted part.                             *)
Inert ==
    /\ UNCHANGED <<clock, caseStatus, sealed, cocLogs, nextLogId, sealLog, statusLog>>
    /\ \A v \in Worker :
          pc'[v] \in Uncommitted => pc[v] = pc'[v] /\ job[v] = job'[v]

LEMMA StepKinds ==
    ASSUME TypeOK, [Next]_vars
    PROVE  \/ \E w \in Worker, e \in Evidence, u \in User : BeginTransfer(w, e, u)
           \/ \E w \in Worker : CheckCase(w)
           \/ \E w \in Worker : CheckSeal(w)
           \/ \E w \in Worker : ReadHolder(w)
           \/ \E w \in Worker : InsertRow(w)
           \/ \E w \in Worker : CommitTransfer(w)
           \/ \E w \in Worker, e \in Evidence, a \in SealAction : ChangeSeal(w, e, a)
           \/ \E w \in Worker, c \in Case, s \in Status : EditCase(w, c, s)
           \/ \E w \in Worker : CommitAutoSeal(w)
           \/ Inert
<1>1. pc \in [Worker -> {"idle"} \cup TransferSteps \cup SealSteps \cup EditSteps]
      /\ job \in [Worker -> {NoJob} \cup TransferJob \cup SealChange \cup EditJob]
  BY DEF TypeOK
<1>2. ASSUME NEW w \in Worker,
             \/ TransferFails(w) \/ LogCustody(w) \/ GraphCustody(w) \/ LogTransfer(w)
             \/ AuditSeal(w) \/ LogSeal(w) \/ GraphSeal(w)
             \/ AutoSeal(w) \/ AutoSealFails(w) \/ GraphAutoSeal(w) \/ LogEdit(w)
             \/ AuditEdit(w) \/ Crash(w)
      PROVE  Inert
  <2> USE DEF postgres, history, Goto, Respond, Uncommitted
  <2>1. UNCHANGED <<clock, caseStatus, sealed, cocLogs, nextLogId, sealLog, statusLog>>
    BY <1>2 DEF TransferFails, LogCustody, GraphCustody, LogTransfer, AuditSeal,
       LogSeal, GraphSeal, AutoSeal, AutoSealFails, GraphAutoSeal, LogEdit, AuditEdit,
       Crash
  <2>2. /\ \A v \in Worker \ {w} : pc'[v] = pc[v] /\ job'[v] = job[v]
        /\ pc'[w] \notin Uncommitted
    <3>1. CASE TransferFails(w) \/ LogTransfer(w) \/ GraphSeal(w) \/ AuditEdit(w) \/ Crash(w)
      BY <1>1, <3>1 DEF TransferFails, LogTransfer, GraphSeal, AuditEdit, Crash
    <3>2. CASE LogCustody(w) \/ GraphCustody(w) \/ AutoSealFails(w)
      BY <1>1, <3>2 DEF LogCustody, GraphCustody, AutoSealFails
    <3>3. CASE AuditSeal(w) \/ LogSeal(w) \/ LogEdit(w)
      BY <1>1, <3>3 DEF AuditSeal, LogSeal, LogEdit
    <3>4. CASE GraphAutoSeal(w)
      BY <1>1, <3>4 DEF GraphAutoSeal
    <3>5. CASE AutoSeal(w)
      BY <1>1, <3>5 DEF AutoSeal
    <3> QED
      BY <1>2, <3>1, <3>2, <3>3, <3>4, <3>5
  <2> QED
    BY <2>1, <2>2 DEF Inert
<1>3. ASSUME NEW e \in Evidence, NeoAddEvidence(e) PROVE Inert
  BY <1>3 DEF NeoAddEvidence, Inert, postgres, history
<1>4. CASE UNCHANGED vars
  BY <1>4 DEF vars, Inert, postgres, history
<1> QED
  BY <1>2, <1>3, <1>4
     DEF Next, Request, Continue, Transferring, Sealing, Editing, Quiet

(* What a check or a read of a transfer changes: the request alone. *)
LEMMA ReadSteps ==
    ASSUME TypeOK, NEW w \in Worker, CheckCase(w) \/ CheckSeal(w) \/ ReadHolder(w)
    PROVE  /\ UNCHANGED <<postgres, history>>
           /\ \A v \in Worker \ {w} : pc'[v] = pc[v] /\ job'[v] = job[v]
           /\ pc[w] \in Uncommitted /\ pc'[w] # "commit"
           /\ pc'[w] \in Uncommitted =>
                 /\ job'[w].ev = job[w].ev
                 /\ job'[w].ts = job[w].ts
                 /\ pc'[w] # "checkCase"
  BY DEF TypeOK, CheckCase, CheckSeal, ReadHolder, Goto, Respond, Uncommitted,
         TransferSteps, TransferJob, postgres, history

-----------------------------------------------------------------------------
(* The clock never runs behind what it has stamped, and a start stamp is   *)
(* given once.                                                             *)
LEMMA ClockCorrect == Spec => []ClockInv
<1>1. Init => ClockInv
  BY DEF Init, ClockInv, Uncommitted
<1>2. TypeOK /\ TypeOK' /\ ClockInv /\ [Next]_vars => ClockInv'
  <2> SUFFICES ASSUME TypeOK, TypeOK', ClockInv, [Next]_vars PROVE ClockInv'
    OBVIOUS
  <2>0. /\ clock \in Nat /\ cocLogs \subseteq Row /\ sealLog \subseteq SealChange
        /\ statusLog \subseteq StatusChange
        /\ pc \in [Worker -> {"idle"} \cup TransferSteps \cup SealSteps \cup EditSteps]
        /\ job \in [Worker -> {NoJob} \cup TransferJob \cup SealChange \cup EditJob]
        /\ \A v \in Worker : pc[v] \in Uncommitted => job[v] \in TransferJob
        /\ \A v \in Worker : pc[v] \in HolderKnown => job[v].from \in User
    BY DEF TypeOK, Uncommitted, TransferSteps, HolderKnown
  <2>1. ASSUME NEW w \in Worker, NEW e \in Evidence, NEW u \in User,
               BeginTransfer(w, e, u)
        PROVE  ClockInv'
    BY <2>0, <2>1 DEF BeginTransfer, Tick, Goto, ClockInv, Uncommitted, history,
       Row, SealChange, StatusChange, TransferJob
  <2>2. ASSUME NEW w \in Worker, CheckCase(w) \/ CheckSeal(w) \/ ReadHolder(w)
        PROVE  ClockInv'
    BY <2>0, <2>2, ReadSteps DEF ClockInv, postgres, history
  <2>3. ASSUME NEW w \in Worker, InsertRow(w) PROVE ClockInv'
    BY <2>0, <2>3 DEF InsertRow, Goto, ClockInv, Uncommitted, history, TransferJob
  <2>4. ASSUME NEW w \in Worker, CommitTransfer(w) PROVE ClockInv'
    <3>1. RowToCommit(w).ts = job[w].ts /\ RowToCommit(w).at = clock + 1
      BY DEF RowToCommit
    <3>2. /\ clock' = clock + 1
          /\ cocLogs' = cocLogs \cup {RowToCommit(w)}
          /\ sealLog' = sealLog /\ statusLog' = statusLog
          /\ pc[w] \in Uncommitted /\ pc'[w] \notin Uncommitted
          /\ \A v \in Worker \ {w} : pc'[v] = pc[v] /\ job'[v] = job[v]
      BY <2>0, <2>4 DEF CommitTransfer, Tick, Goto, Respond, Uncommitted, history
    <3>3. job[w].ts \in Nat
      BY <2>0, <3>2 DEF TransferJob
    <3> QED
      BY <2>0, <3>1, <3>2, <3>3 DEF ClockInv, Row, SealChange, StatusChange, TransferJob
  <2>5. ASSUME NEW w \in Worker, NEW e \in Evidence, NEW a \in SealAction,
               ChangeSeal(w, e, a)
        PROVE  ClockInv'
    BY <2>0, <2>5 DEF ChangeSeal, Tick, Goto, ClockInv, Uncommitted, Row, SealChange,
       StatusChange, TransferJob
  <2>6. ASSUME NEW w \in Worker, NEW c \in Case, NEW s \in Status, EditCase(w, c, s)
        PROVE  ClockInv'
    <3>1. /\ clock' = clock + 1 /\ cocLogs' = cocLogs /\ sealLog' = sealLog
          /\ statusLog' = statusLog
                \cup {[case |-> c, status |-> s, at |-> clock + 1]}
          /\ pc'[w] \notin Uncommitted
          /\ \A v \in Worker \ {w} : pc'[v] = pc[v] /\ job'[v] = job[v]
      BY <2>0, <2>6 DEF EditCase, Tick, Goto, Uncommitted
    <3> QED
      BY <2>0, <3>1 DEF ClockInv, Row, SealChange, StatusChange, TransferJob
  <2>7. ASSUME NEW w \in Worker, CommitAutoSeal(w) PROVE ClockInv'
    <3>1. /\ clock' = clock + 1 /\ cocLogs' = cocLogs /\ statusLog' = statusLog
          /\ \A x \in sealLog' : x \in sealLog \/ x.at = clock + 1
          /\ pc'[w] \notin Uncommitted
          /\ \A v \in Worker \ {w} : pc'[v] = pc[v] /\ job'[v] = job[v]
      BY <2>0, <2>7 DEF CommitAutoSeal, Tick, Goto, Uncommitted
    <3> QED
      BY <2>0, <3>1 DEF ClockInv, Row, SealChange, StatusChange, TransferJob
  <2>8. CASE Inert
    BY <2>8 DEF Inert, ClockInv
  <2> QED
    BY <2>1, <2>2, <2>3, <2>4, <2>5, <2>6, <2>7, <2>8, StepKinds
<1> QED
  BY <1>1, <1>2, TypeCorrect, PTL DEF Spec

-----------------------------------------------------------------------------
(* log_id is drawn from a sequence before the commit: a value belongs to   *)
(* one row, or to one request that may still commit it.                    *)
LEMMA IdCorrect == Spec => []IdInv
<1>1. Init => IdInv
  BY DEF Init, IdInv
<1>2. TypeOK /\ IdInv /\ [Next]_vars => IdInv'
  <2> SUFFICES ASSUME TypeOK, IdInv, [Next]_vars PROVE IdInv'
    OBVIOUS
  <2>0. /\ nextLogId \in Nat /\ cocLogs \subseteq Row
        /\ pc \in [Worker -> {"idle"} \cup TransferSteps \cup SealSteps \cup EditSteps]
        /\ job \in [Worker -> {NoJob} \cup TransferJob \cup SealChange \cup EditJob]
        /\ \A v \in Worker : pc[v] \in Uncommitted => job[v] \in TransferJob
    BY DEF TypeOK, Uncommitted, TransferSteps
  <2>1. ASSUME NEW w \in Worker, NEW e \in Evidence, NEW u \in User,
               BeginTransfer(w, e, u)
        PROVE  IdInv'
    BY <2>0, <2>1 DEF BeginTransfer, Goto, IdInv
  <2>2. ASSUME NEW w \in Worker, CheckCase(w) \/ CheckSeal(w) \/ ReadHolder(w)
        PROVE  IdInv'
    BY <2>0, <2>2, ReadSteps DEF IdInv, postgres
  <2>3. ASSUME NEW w \in Worker, InsertRow(w) PROVE IdInv'
    BY <2>0, <2>3 DEF InsertRow, Goto, IdInv, Uncommitted, TransferJob, Row
  <2>4. ASSUME NEW w \in Worker, CommitTransfer(w) PROVE IdInv'
    <3>1. RowToCommit(w).id = job[w].id
      BY DEF RowToCommit
    <3>2. /\ nextLogId' = nextLogId
          /\ cocLogs' = cocLogs \cup {RowToCommit(w)}
          /\ pc[w] = "commit" /\ pc'[w] # "commit"
          /\ \A v \in Worker \ {w} : pc'[v] = pc[v] /\ job'[v] = job[v]
      BY <2>0, <2>4 DEF CommitTransfer, Goto, Respond
    <3> QED
      BY <2>0, <3>1, <3>2 DEF IdInv
  <2>5. ASSUME NEW w \in Worker, NEW e \in Evidence, NEW a \in SealAction,
               ChangeSeal(w, e, a)
        PROVE  IdInv'
    BY <2>0, <2>5 DEF ChangeSeal, Goto, IdInv
  <2>6. ASSUME NEW w \in Worker, NEW c \in Case, NEW s \in Status, EditCase(w, c, s)
        PROVE  IdInv'
    <3>1. /\ nextLogId' = nextLogId /\ cocLogs' = cocLogs /\ pc'[w] # "commit"
          /\ \A v \in Worker \ {w} : pc'[v] = pc[v] /\ job'[v] = job[v]
      BY <2>0, <2>6 DEF EditCase, Goto
    <3> QED
      BY <2>0, <3>1 DEF IdInv
  <2>7. ASSUME NEW w \in Worker, CommitAutoSeal(w) PROVE IdInv'
    BY <2>0, <2>7 DEF CommitAutoSeal, Goto, IdInv
  <2>8. CASE Inert
    BY <2>8 DEF Inert, IdInv, Uncommitted
  <2> QED
    BY <2>1, <2>2, <2>3, <2>4, <2>5, <2>6, <2>7, <2>8, StepKinds
<1> QED
  BY <1>1, <1>2, TypeCorrect, PTL DEF Spec

-----------------------------------------------------------------------------
(* Only CommitTransfer brings a request to its mirror writes, and only the *)
(* mirror writes touch the mirrors.                                        *)
MirrorsInert ==
    /\ UNCHANGED <<cocLogs, custodyDocs, graphTransfers, reported>>
    /\ \A v \in Worker :
          pc'[v] \in Mirroring => pc[v] = pc'[v] /\ job[v] = job'[v]

LEMMA MirrorSteps ==
    ASSUME TypeOK, [Next]_vars,
           \A w \in Worker : ~ CommitTransfer(w) /\ ~ LogCustody(w)
                              /\ ~ GraphCustody(w) /\ ~ LogTransfer(w)
    PROVE  MirrorsInert
<1> USE DEF postgres, mongo, neo4j, history, Goto, Respond, Mirroring, MirrorsInert
<1>0. /\ pc \in [Worker -> {"idle"} \cup TransferSteps \cup SealSteps \cup EditSteps]
      /\ job \in [Worker -> {NoJob} \cup TransferJob \cup SealChange \cup EditJob]
  BY DEF TypeOK
<1>1. ASSUME NEW w \in Worker, Transferring(w) PROVE MirrorsInert
  BY <1>0, <1>1 DEF Transferring, CheckCase, CheckSeal, ReadHolder, InsertRow,
     TransferFails
<1>2. ASSUME NEW w \in Worker, Sealing(w) PROVE MirrorsInert
  BY <1>0, <1>2 DEF Sealing, AuditSeal, LogSeal, GraphSeal
<1>3. ASSUME NEW w \in Worker, Editing(w) PROVE MirrorsInert
  <2>1. CASE AutoSeal(w) \/ CommitAutoSeal(w) \/ AutoSealFails(w)
    BY <1>0, <2>1 DEF AutoSeal, CommitAutoSeal, AutoSealFails
  <2>2. CASE GraphAutoSeal(w)
    BY <1>0, <2>2 DEF GraphAutoSeal
  <2>3. CASE LogEdit(w) \/ AuditEdit(w)
    BY <1>0, <2>3 DEF LogEdit, AuditEdit
  <2> QED
    BY <1>3, <2>1, <2>2, <2>3 DEF Editing
<1>4. ASSUME NEW w \in Worker, Crash(w) PROVE MirrorsInert
  BY <1>0, <1>4 DEF Crash
<1>5. ASSUME NEW w \in Worker, NEW e \in Evidence, NEW u \in User, BeginTransfer(w, e, u)
      PROVE  MirrorsInert
  BY <1>0, <1>5 DEF BeginTransfer
<1>6. ASSUME NEW w \in Worker, NEW e \in Evidence, NEW a \in SealAction, ChangeSeal(w, e, a)
      PROVE  MirrorsInert
  BY <1>0, <1>6 DEF ChangeSeal
<1>7. ASSUME NEW w \in Worker, NEW c \in Case, NEW s \in Status, EditCase(w, c, s)
      PROVE  MirrorsInert
  <2>1. /\ UNCHANGED <<cocLogs, custodyDocs, graphTransfers, reported>>
        /\ pc'[w] \notin Mirroring
        /\ \A v \in Worker \ {w} : pc'[v] = pc[v] /\ job'[v] = job[v]
    BY <1>0, <1>7 DEF EditCase
  <2> QED
    BY <2>1
<1>8. ASSUME NEW e \in Evidence, NeoAddEvidence(e) PROVE MirrorsInert
  BY <1>8 DEF NeoAddEvidence
<1>9. CASE UNCHANGED vars
  BY <1>9 DEF vars
<1> HIDE DEF MirrorsInert
<1> QED
  BY <1>1, <1>2, <1>3, <1>4, <1>5, <1>6, <1>7, <1>8, <1>9
     DEF Next, Request, Continue, Quiet

(* MongoDB and Neo4j tell of no transfer that PostgreSQL does not hold,    *)
(* and neither does the answer to a client: the handler writes them from   *)
(* a request whose row is committed, and rows stay.                        *)
LEMMA LedgerInvCorrect == Spec => []LedgerInv
<1> USE DEF LedgerInv, MirrorsFollowLedger, ReportedIsCommitted
<1>1. Init => LedgerInv
  BY DEF Init, Mirroring
<1>2. TypeOK /\ LedgerInv /\ [Next]_vars => LedgerInv'
  <2> SUFFICES ASSUME TypeOK, LedgerInv, [Next]_vars PROVE LedgerInv'
    OBVIOUS
  <2>0. /\ pc \in [Worker -> {"idle"} \cup TransferSteps \cup SealSteps \cup EditSteps]
        /\ job \in [Worker -> {NoJob} \cup TransferJob \cup SealChange \cup EditJob]
    BY DEF TypeOK
  <2>1. ASSUME NEW w \in Worker, CommitTransfer(w) PROVE LedgerInv'
    <3>1. /\ cocLogs' = cocLogs \cup {RowToCommit(w)}
          /\ CopyOf(RowToCommit(w)) = CopyOf(job[w])
          /\ UNCHANGED <<custodyDocs, graphTransfers, reported>>
          /\ \A v \in Worker \ {w} : pc'[v] = pc[v] /\ job'[v] = job[v]
          /\ pc'[w] \in Mirroring => job'[w] = job[w]
      BY <2>0, <2>1 DEF CommitTransfer, RowToCommit, CopyOf, Goto, Respond, mongo,
         neo4j, history, Mirroring
    <3> QED
      BY <3>1
  <2>2. ASSUME NEW w \in Worker, LogCustody(w) PROVE LedgerInv'
    BY <2>0, <2>2 DEF LogCustody, Goto, postgres, neo4j, history, Mirroring
  <2>3. ASSUME NEW w \in Worker, GraphCustody(w) PROVE LedgerInv'
    BY <2>0, <2>3 DEF GraphCustody, Goto, postgres, mongo, history, Mirroring
  <2>4. ASSUME NEW w \in Worker, LogTransfer(w) PROVE LedgerInv'
    <3>1. /\ UNCHANGED <<cocLogs, custodyDocs, graphTransfers>>
          /\ reported' = reported \cup {job[w].id}
          /\ \A v \in Worker \ {w} : pc'[v] = pc[v] /\ job'[v] = job[v]
          /\ pc[w] \in Mirroring /\ pc'[w] \notin Mirroring
      BY <2>0, <2>4 DEF LogTransfer, Respond, postgres, neo4j, Mirroring
    <3>2. PICK r \in cocLogs : CopyOf(r) = CopyOf(job[w])
      BY <3>1
    <3>3. r.id = job[w].id
      BY <3>2 DEF CopyOf
    <3> QED
      BY <3>1, <3>3
  <2>5. CASE \A w \in Worker : ~ CommitTransfer(w) /\ ~ LogCustody(w)
                                /\ ~ GraphCustody(w) /\ ~ LogTransfer(w)
    BY <2>5, MirrorSteps DEF MirrorsInert
  <2> QED
    BY <2>1, <2>2, <2>3, <2>4, <2>5
<1> QED
  BY <1>1, <1>2, TypeCorrect, PTL DEF Spec

(* Every custody document of MongoDB and every transfer event of Neo4j     *)
(* repeats a committed row of coc_logs.                                    *)
THEOREM MirrorsFollow == Spec => []MirrorsFollowLedger
<1>1. LedgerInv => MirrorsFollowLedger
  BY DEF LedgerInv
<1> QED
  BY <1>1, LedgerInvCorrect, PTL

(* A transfer whose client was told of success is committed.               *)
THEOREM ReportedStands == Spec => []ReportedIsCommitted
<1>1. LedgerInv => ReportedIsCommitted
  BY DEF LedgerInv
<1> QED
  BY <1>1, LedgerInvCorrect, PTL

-----------------------------------------------------------------------------
(* The nine steps that matter to the invariants below, by what they change *)
(* of the requests: nothing of the others.                                 *)
LEMMA CommitStep ==
    ASSUME TypeOK, NEW w \in Worker, CommitTransfer(w)
    PROVE  /\ clock' = clock + 1
           /\ cocLogs' = cocLogs \cup {RowToCommit(w)}
           /\ UNCHANGED <<caseStatus, sealed, sealLog, statusLog>>
           /\ pc[w] = "commit" /\ pc'[w] \notin Uncommitted
           /\ \A v \in Worker \ {w} : pc'[v] = pc[v] /\ job'[v] = job[v]
  BY DEF TypeOK, CommitTransfer, Tick, Goto, Respond, Uncommitted, history

(* A change of a seal or of a status takes no request into a transfer and  *)
(* adds no row.                                                            *)
LEMMA ChangeSteps ==
    ASSUME TypeOK, NEW w \in Worker,
           \/ \E e \in Evidence, a \in SealAction : ChangeSeal(w, e, a)
           \/ \E c \in Case, s \in Status : EditCase(w, c, s)
           \/ CommitAutoSeal(w)
    PROVE  /\ clock' = clock + 1
           /\ cocLogs' = cocLogs
           /\ pc'[w] \notin Uncommitted
           /\ \A v \in Worker \ {w} : pc'[v] = pc[v] /\ job'[v] = job[v]
<1> USE DEF TypeOK, Tick, Goto, Uncommitted
<1>1. CASE \E e \in Evidence, a \in SealAction : ChangeSeal(w, e, a)
  BY <1>1 DEF ChangeSeal
<1>2. CASE \E c \in Case, s \in Status : EditCase(w, c, s)
  BY <1>2 DEF EditCase
<1>3. CASE CommitAutoSeal(w)
  BY <1>3 DEF CommitAutoSeal
<1> QED
  BY <1>1, <1>2, <1>3

(* A transfer names as its giver the uploader or an earlier recipient: the *)
(* holder a request reads is one of them, and rows stay.                   *)
LEMMA GiverInvCorrect == Spec => []GiverInv
<1> USE DEF GiverInv, GiverHeldIt, RowsOf
<1>1. Init => GiverInv
  BY DEF Init, HolderKnown
<1>2. TypeOK /\ ClockInv /\ GiverInv /\ [Next]_vars => GiverInv'
  <2> SUFFICES ASSUME TypeOK, ClockInv, GiverInv, [Next]_vars PROVE GiverInv'
    OBVIOUS
  <2>0. /\ clock \in Nat /\ cocLogs \subseteq Row
        /\ pc \in [Worker -> {"idle"} \cup TransferSteps \cup SealSteps \cup EditSteps]
        /\ job \in [Worker -> {NoJob} \cup TransferJob \cup SealChange \cup EditJob]
        /\ \A v \in Worker : pc[v] \in Uncommitted => job[v] \in TransferJob
    BY DEF TypeOK, Uncommitted, TransferSteps
  <2>1. ASSUME NEW w \in Worker, NEW e \in Evidence, NEW u \in User,
               BeginTransfer(w, e, u)
        PROVE  GiverInv'
    BY <2>0, <2>1 DEF BeginTransfer, Goto, HolderKnown
  <2>2. ASSUME NEW w \in Worker, CheckCase(w) \/ CheckSeal(w) PROVE GiverInv'
    <3>1. /\ cocLogs' = cocLogs /\ pc'[w] \notin HolderKnown
          /\ \A v \in Worker \ {w} : pc'[v] = pc[v] /\ job'[v] = job[v]
      BY <2>0, <2>2 DEF CheckCase, CheckSeal, Goto, Respond, HolderKnown, postgres
    <3> QED
      BY <3>1
  <2>3. ASSUME NEW w \in Worker, ReadHolder(w) PROVE GiverInv'
    <3>1. PICK u \in User : /\ IsHolder(u, job[w].ev)
                            /\ job' = [job EXCEPT ![w].from = u]
      BY <2>3 DEF ReadHolder
    <3>2. job'[w].ev = job[w].ev /\ job'[w].from = u
      BY <2>0, <2>3, <3>1 DEF ReadHolder, Uncommitted, TransferJob
    <3>3. /\ cocLogs' = cocLogs
          /\ \A v \in Worker \ {w} : pc'[v] = pc[v] /\ job'[v] = job[v]
      BY <2>0, <2>3, <3>1 DEF ReadHolder, Goto, postgres
    <3> QED
      BY <3>1, <3>2, <3>3 DEF IsHolder
  <2>4. ASSUME NEW w \in Worker, InsertRow(w) PROVE GiverInv'
    <3>1. /\ cocLogs' = cocLogs /\ pc[w] \in HolderKnown
          /\ job'[w].ev = job[w].ev /\ job'[w].from = job[w].from
          /\ \A v \in Worker \ {w} : pc'[v] = pc[v] /\ job'[v] = job[v]
      BY <2>0, <2>4 DEF InsertRow, Goto, HolderKnown, Uncommitted, TransferJob
    <3> QED
      BY <3>1
  <2>5. ASSUME NEW w \in Worker, CommitTransfer(w) PROVE GiverInv'
    <3>1. /\ RowToCommit(w).ev = job[w].ev /\ RowToCommit(w).from = job[w].from
          /\ RowToCommit(w).at = clock + 1
      BY DEF RowToCommit
    <3>2. pc[w] \in HolderKnown /\ HolderKnown \subseteq Uncommitted
      BY <2>5, CommitStep DEF HolderKnown, Uncommitted
    <3>3. \A q \in cocLogs : q.at < clock + 1
      BY <2>0 DEF ClockInv, Row
    <3> QED
      BY <2>5, CommitStep, <3>1, <3>2, <3>3
  <2>6. ASSUME NEW w \in Worker,
               \/ \E e \in Evidence, a \in SealAction : ChangeSeal(w, e, a)
               \/ \E c \in Case, s \in Status : EditCase(w, c, s)
               \/ CommitAutoSeal(w)
        PROVE  GiverInv'
    BY <2>6, ChangeSteps DEF HolderKnown, Uncommitted
  <2>7. CASE Inert
    BY <2>7 DEF Inert, HolderKnown, Uncommitted
  <2> QED
    BY <2>1, <2>2, <2>3, <2>4, <2>5, <2>6, <2>7, StepKinds
<1> QED
  BY <1>1, <1>2, TypeCorrect, ClockCorrect, PTL DEF Spec

(* Nobody hands over evidence that he never had.                           *)
THEOREM GiverHeld == Spec => []GiverHeldIt
<1>1. GiverInv => GiverHeldIt
  BY DEF GiverInv
<1> QED
  BY <1>1, GiverInvCorrect, PTL

-----------------------------------------------------------------------------
(* A seal that precedes a transfer's start stops it unless it is undone:   *)
(* the seal check passes only on evidence whose every seal is undone, and  *)
(* a later seal does not precede the start.                                *)
LEMMA SealInvCorrect == Spec => []SealInv
<1> USE DEF SealInv, Undone
<1>1. Init => SealInv
  <2> SUFFICES ASSUME Init PROVE SealInv
    OBVIOUS
  <2>1. \A s \in sealLog : sealed[s.ev]
    BY DEF Init
  <2>2. cocLogs = {} /\ \A w \in Worker : pc[w] = "idle"
    BY DEF Init
  <2> QED
    BY <2>1, <2>2 DEF SealStopsLaterTransfers, PastSealCheck
<1>2. TypeOK /\ ClockInv /\ SealInv /\ [Next]_vars => SealInv'
  <2> SUFFICES ASSUME TypeOK, ClockInv, SealInv, [Next]_vars PROVE SealInv'
    OBVIOUS
  <2>0. /\ clock \in Nat /\ cocLogs \subseteq Row /\ sealLog \subseteq SealChange
        /\ sealed \in [Evidence -> BOOLEAN]
        /\ pc \in [Worker -> {"idle"} \cup TransferSteps \cup SealSteps \cup EditSteps]
        /\ job \in [Worker -> {NoJob} \cup TransferJob \cup SealChange \cup EditJob]
        /\ \A v \in Worker : pc[v] \in Uncommitted => job[v] \in TransferJob
    BY DEF TypeOK, Uncommitted, TransferSteps
  <2>a. PastSealCheck \subseteq Uncommitted
    BY DEF PastSealCheck, Uncommitted
  <2>b. \A s \in sealLog : s.at =< clock /\ s.at \in Nat
    BY <2>0 DEF ClockInv, SealChange
  <2>1. ASSUME NEW w \in Worker, NEW e \in Evidence, NEW u \in User,
               BeginTransfer(w, e, u)
        PROVE  SealInv'
    <3>1. /\ clock' = clock + 1
          /\ UNCHANGED <<cocLogs, sealed, sealLog>>
          /\ pc'[w] \notin PastSealCheck
          /\ \A v \in Worker \ {w} : pc'[v] = pc[v] /\ job'[v] = job[v]
      BY <2>0, <2>1 DEF BeginTransfer, Tick, Goto, PastSealCheck, history
    <3>2. SealStopsLaterTransfers'
      BY <3>1 DEF SealStopsLaterTransfers
    <3> QED
      BY <2>0, <2>b, <3>1, <3>2
  <2>2. ASSUME NEW w \in Worker, CheckCase(w) PROVE SealInv'
    <3>1. /\ UNCHANGED <<clock, cocLogs, sealed, sealLog>>
          /\ pc'[w] \notin PastSealCheck
          /\ \A v \in Worker \ {w} : pc'[v] = pc[v] /\ job'[v] = job[v]
      BY <2>0, <2>2 DEF CheckCase, Goto, Respond, PastSealCheck, postgres, history
    <3> QED
      BY <3>1 DEF SealStopsLaterTransfers
  <2>3. ASSUME NEW w \in Worker, CheckSeal(w) PROVE SealInv'
    <3>1. /\ UNCHANGED <<clock, cocLogs, sealed, sealLog>>
          /\ pc'[w] \in PastSealCheck => ~sealed[job[w].ev] /\ job'[w] = job[w]
          /\ \A v \in Worker \ {w} : pc'[v] = pc[v] /\ job'[v] = job[v]
      BY <2>0, <2>3 DEF CheckSeal, Goto, Respond, PastSealCheck, postgres, history
    <3> QED
      BY <3>1 DEF SealStopsLaterTransfers
  <2>4. ASSUME NEW w \in Worker, ReadHolder(w) \/ InsertRow(w) PROVE SealInv'
    <3>1. /\ UNCHANGED <<clock, cocLogs, sealed, sealLog>>
          /\ pc[w] \in PastSealCheck
          /\ job'[w].ev = job[w].ev /\ job'[w].ts = job[w].ts
          /\ \A v \in Worker \ {w} : pc'[v] = pc[v] /\ job'[v] = job[v]
      BY <2>0, <2>4 DEF ReadHolder, InsertRow, Goto, PastSealCheck, Uncommitted,
         TransferJob, postgres, history
    <3> QED
      BY <3>1 DEF SealStopsLaterTransfers
  <2>5. ASSUME NEW w \in Worker, CommitTransfer(w) PROVE SealInv'
    <3>1. /\ RowToCommit(w).ev = job[w].ev /\ RowToCommit(w).ts = job[w].ts
          /\ RowToCommit(w).at = clock + 1
      BY DEF RowToCommit
    <3>2. pc[w] \in PastSealCheck
      BY <2>5, CommitStep DEF PastSealCheck
    <3>3. SealStopsLaterTransfers'
      BY <2>5, CommitStep, <3>1, <3>2 DEF SealStopsLaterTransfers
    <3> QED
      BY <2>0, <2>5, <2>a, <2>b, <3>3, CommitStep
  <2>6. ASSUME NEW w \in Worker, NEW e \in Evidence, NEW a \in SealAction,
               ChangeSeal(w, e, a)
        PROVE  SealInv'
    <3> DEFINE change == [ev |-> e, action |-> a, at |-> clock + 1]
    <3>1. /\ sealLog' = sealLog \cup {change}
          /\ sealed' = [sealed EXCEPT ![e] = (a = "seal")]
      BY <2>6 DEF ChangeSeal
    <3>2. /\ clock' = clock + 1 /\ cocLogs' = cocLogs
          /\ pc'[w] \notin PastSealCheck
          /\ \A v \in Worker \ {w} : pc'[v] = pc[v] /\ job'[v] = job[v]
      BY <2>6, <2>a, ChangeSteps
    <3>3. change.ev = e /\ change.action = a /\ change.at = clock + 1
      OBVIOUS
    <3> HIDE DEF change
    <3>4. /\ \A r \in cocLogs : r.ts < clock + 1 /\ r.ts \in Nat
          /\ \A v \in Worker : pc[v] \in Uncommitted => job[v].ts =< clock /\ job[v].ts \in Nat
      BY <2>0 DEF ClockInv, Row, TransferJob
    <3>5. SealStopsLaterTransfers'
      BY <2>0, <3>1, <3>2, <3>3, <3>4 DEF SealStopsLaterTransfers
    <3>6. \A s \in sealLog' :
             s.action = "seal" /\ ~sealed'[s.ev] => Undone(s, clock + 1)'
      <4> SUFFICES ASSUME NEW s \in sealLog', s.action = "seal", ~sealed'[s.ev]
                   PROVE  Undone(s, clock + 1)'
        OBVIOUS
      <4>1. CASE s.ev = e
        <5>1. a # "seal"
          BY <2>0, <3>1, <4>1
        <5>2. a = "unseal" /\ s # change
          BY <5>1, <3>3 DEF SealAction
        <5> QED
          BY <2>0, <2>b, <3>1, <3>2, <3>3, <4>1, <5>2
      <4>2. CASE s.ev # e
        <5>1. s \in sealLog /\ s.ev \in Evidence
          BY <2>0, <3>1, <3>3, <4>2 DEF SealChange
        <5>2. ~sealed[s.ev]
          BY <2>0, <3>1, <4>2, <5>1
        <5>3. Undone(s, clock + 1)
          BY <5>1, <5>2
        <5> QED
          BY <2>0, <2>b, <3>1, <3>2, <5>3
      <4> QED
        BY <4>1, <4>2
    <3>7. \A v \in Worker, s \in sealLog' :
             /\ pc'[v] \in PastSealCheck /\ s.ev = job'[v].ev
             /\ s.action = "seal" /\ s.at < job'[v].ts
             => Undone(s, clock + 1)'
      BY <2>0, <2>a, <2>b, <3>1, <3>2, <3>3, <3>4
    <3> QED
      BY <3>5, <3>6, <3>7
  <2>7. ASSUME NEW w \in Worker, NEW c \in Case, NEW s \in Status, EditCase(w, c, s)
        PROVE  SealInv'
    <3>1. UNCHANGED <<sealed, sealLog>>
      BY <2>7 DEF EditCase
    <3>2. /\ clock' = clock + 1 /\ cocLogs' = cocLogs
          /\ pc'[w] \notin PastSealCheck
          /\ \A v \in Worker \ {w} : pc'[v] = pc[v] /\ job'[v] = job[v]
      BY <2>7, <2>a, ChangeSteps
    <3>3. SealStopsLaterTransfers'
      BY <3>1, <3>2 DEF SealStopsLaterTransfers
    <3> QED
      BY <2>0, <2>b, <3>1, <3>2, <3>3
  <2>8. ASSUME NEW w \in Worker, CommitAutoSeal(w) PROVE SealInv'
    <3>1. /\ \A x \in sealLog' :
                x \in sealLog \/ (x.at = clock + 1 /\ sealed'[x.ev])
          /\ sealLog \subseteq sealLog'
          /\ \A e \in Evidence : ~sealed'[e] => ~sealed[e]
      <4>1. sealed' = [e \in Evidence |-> sealed[e] \/ e \in job[w].locked]
        BY <2>8 DEF CommitAutoSeal
      <4>2. sealLog' = sealLog \cup {[ev |-> e, action |-> "seal", at |-> clock + 1] :
                                        e \in job[w].locked}
        BY <2>8 DEF CommitAutoSeal
      <4>3. \A x \in sealLog' \ sealLog : x.at = clock + 1 /\ sealed'[x.ev]
        <5>0. job[w].locked \subseteq Evidence
          BY <2>8 DEF CommitAutoSeal, TypeOK, EditSteps, EditJob
        <5>1. \A e \in job[w].locked : sealed'[e] = TRUE
          BY <4>1, <5>0
        <5>2. \A x \in sealLog' \ sealLog :
                 x.at = clock + 1 /\ x.ev \in job[w].locked
          BY <4>2
        <5> QED
          BY <5>1, <5>2
      <4> QED
        BY <2>0, <4>1, <4>2, <4>3
    <3>2. /\ clock' = clock + 1 /\ cocLogs' = cocLogs
          /\ pc'[w] \notin PastSealCheck
          /\ \A v \in Worker \ {w} : pc'[v] = pc[v] /\ job'[v] = job[v]
      BY <2>8, <2>a, ChangeSteps
    <3>3. /\ \A r \in cocLogs : r.ts < clock + 1 /\ r.ts \in Nat
          /\ \A v \in Worker : pc[v] \in Uncommitted => job[v].ts =< clock /\ job[v].ts \in Nat
          /\ \A s \in sealLog : s.ev \in Evidence
      BY <2>0 DEF ClockInv, Row, TransferJob, SealChange
    <3>4. SealStopsLaterTransfers'
      BY <2>0, <3>1, <3>2, <3>3 DEF SealStopsLaterTransfers
    <3>5. \A s \in sealLog' :
             s.action = "seal" /\ ~sealed'[s.ev] => Undone(s, clock + 1)'
      BY <2>0, <2>b, <3>1, <3>2, <3>3
    <3>6. \A v \in Worker, s \in sealLog' :
             /\ pc'[v] \in PastSealCheck /\ s.ev = job'[v].ev
             /\ s.action = "seal" /\ s.at < job'[v].ts
             => Undone(s, clock + 1)'
      BY <2>0, <2>a, <2>b, <3>1, <3>2, <3>3
    <3> QED
      BY <3>4, <3>5, <3>6
  <2>9. CASE Inert
    BY <2>9, <2>a DEF Inert, SealStopsLaterTransfers
  <2> QED
    BY <2>1, <2>2, <2>3, <2>4, <2>5, <2>6, <2>7, <2>8, <2>9, StepKinds
<1> QED
  BY <1>1, <1>2, TypeCorrect, ClockCorrect, PTL DEF Spec

(* Evidence that was sealed when a transfer began moves only if it was     *)
(* unsealed before the transfer committed.                                 *)
THEOREM SealStops == Spec => []SealStopsLaterTransfers
<1>1. SealInv => SealStopsLaterTransfers
  BY DEF SealInv
<1> QED
  BY <1>1, SealInvCorrect, PTL

-----------------------------------------------------------------------------
(* The same argument for the case status: the case check passes only on a  *)
(* case that got another status after each of its closings.                *)
LEMMA CloseInvCorrect == Spec => []CloseInv
<1> USE DEF CloseInv, Reopened
<1>1. Init => CloseInv
  BY DEF Init, CloseStopsLaterTransfers
<1>2. TypeOK /\ ClockInv /\ CloseInv /\ [Next]_vars => CloseInv'
  <2> SUFFICES ASSUME TypeOK, ClockInv, CloseInv, [Next]_vars PROVE CloseInv'
    OBVIOUS
  <2>0. /\ clock \in Nat /\ cocLogs \subseteq Row /\ statusLog \subseteq StatusChange
        /\ caseStatus \in [Case -> Status] /\ CaseOf \in [Evidence -> Case]
        /\ pc \in [Worker -> {"idle"} \cup TransferSteps \cup SealSteps \cup EditSteps]
        /\ job \in [Worker -> {NoJob} \cup TransferJob \cup SealChange \cup EditJob]
        /\ \A v \in Worker : pc[v] \in Uncommitted => job[v] \in TransferJob
    BY CustodyAssumption DEF TypeOK, Uncommitted, TransferSteps
  <2>a. PastCaseCheck \subseteq Uncommitted
    BY DEF PastCaseCheck, Uncommitted
  <2>b. \A s \in statusLog : s.at =< clock /\ s.at \in Nat
    BY <2>0 DEF ClockInv, StatusChange
  <2>1. ASSUME NEW w \in Worker, NEW e \in Evidence, NEW u \in User,
               BeginTransfer(w, e, u)
        PROVE  CloseInv'
    <3>1. /\ clock' = clock + 1
          /\ UNCHANGED <<cocLogs, caseStatus, statusLog>>
          /\ pc'[w] \notin PastCaseCheck
          /\ \A v \in Worker \ {w} : pc'[v] = pc[v] /\ job'[v] = job[v]
      BY <2>0, <2>1 DEF BeginTransfer, Tick, Goto, PastCaseCheck, history
    <3>2. CloseStopsLaterTransfers'
      BY <3>1 DEF CloseStopsLaterTransfers
    <3> QED
      BY <2>0, <2>b, <3>1, <3>2
  <2>2. ASSUME NEW w \in Worker, CheckCase(w) PROVE CloseInv'
    <3>1. /\ UNCHANGED <<clock, cocLogs, caseStatus, statusLog>>
          /\ pc'[w] \in PastCaseCheck =>
                caseStatus[CaseOf[job[w].ev]] # "closed" /\ job'[w] = job[w]
          /\ \A v \in Worker \ {w} : pc'[v] = pc[v] /\ job'[v] = job[v]
      BY <2>0, <2>2 DEF CheckCase, Goto, Respond, PastCaseCheck, postgres, history
    <3> QED
      BY <3>1 DEF CloseStopsLaterTransfers
  <2>3. ASSUME NEW w \in Worker, CheckSeal(w) \/ ReadHolder(w) \/ InsertRow(w)
        PROVE  CloseInv'
    <3>1. /\ UNCHANGED <<clock, cocLogs, caseStatus, statusLog>>
          /\ pc[w] \in PastCaseCheck
          /\ pc'[w] \in PastCaseCheck =>
                job'[w].ev = job[w].ev /\ job'[w].ts = job[w].ts
          /\ \A v \in Worker \ {w} : pc'[v] = pc[v] /\ job'[v] = job[v]
      BY <2>0, <2>3 DEF CheckSeal, ReadHolder, InsertRow, Goto, Respond,
         PastCaseCheck, Uncommitted, TransferJob, postgres, history
    <3> QED
      BY <3>1 DEF CloseStopsLaterTransfers
  <2>4. ASSUME NEW w \in Worker, CommitTransfer(w) PROVE CloseInv'
    <3>1. /\ RowToCommit(w).ev = job[w].ev /\ RowToCommit(w).ts = job[w].ts
          /\ RowToCommit(w).at = clock + 1
      BY DEF RowToCommit
    <3>2. pc[w] \in PastCaseCheck
      BY <2>4, CommitStep DEF PastCaseCheck
    <3>3. CloseStopsLaterTransfers'
      BY <2>4, CommitStep, <3>1, <3>2 DEF CloseStopsLaterTransfers
    <3> QED
      BY <2>0, <2>4, <2>a, <2>b, <3>3, CommitStep
  <2>5. ASSUME NEW w \in Worker,
               \/ \E e \in Evidence, a \in SealAction : ChangeSeal(w, e, a)
               \/ CommitAutoSeal(w)
        PROVE  CloseInv'
    <3>1. UNCHANGED <<caseStatus, statusLog>>
      BY <2>5 DEF ChangeSeal, CommitAutoSeal
    <3>2. /\ clock' = clock + 1 /\ cocLogs' = cocLogs
          /\ pc'[w] \notin PastCaseCheck
          /\ \A v \in Worker \ {w} : pc'[v] = pc[v] /\ job'[v] = job[v]
      BY <2>5, <2>a, ChangeSteps
    <3>3. CloseStopsLaterTransfers'
      BY <3>1, <3>2 DEF CloseStopsLaterTransfers
    <3> QED
      BY <2>0, <2>b, <3>1, <3>2, <3>3
  <2>6. ASSUME NEW w \in Worker, NEW c \in Case, NEW x \in Status, EditCase(w, c, x)
        PROVE  CloseInv'
    <3> DEFINE change == [case |-> c, status |-> x, at |-> clock + 1]
    <3>1. /\ statusLog' = statusLog \cup {change}
          /\ caseStatus' = [caseStatus EXCEPT ![c] = x]
      BY <2>6 DEF EditCase
    <3>2. /\ clock' = clock + 1 /\ cocLogs' = cocLogs
          /\ pc'[w] \notin PastCaseCheck
          /\ \A v \in Worker \ {w} : pc'[v] = pc[v] /\ job'[v] = job[v]
      BY <2>6, <2>a, ChangeSteps
    <3>3. change.case = c /\ change.status = x /\ change.at = clock + 1
      OBVIOUS
    <3> HIDE DEF change
    <3>4. /\ \A r \in cocLogs : r.ts < clock + 1 /\ r.ts \in Nat
          /\ \A v \in Worker : pc[v] \in Uncommitted => job[v].ts =< clock /\ job[v].ts \in Nat
          /\ \A s \in statusLog : s.case \in Case
      BY <2>0 DEF ClockInv, Row, TransferJob, StatusChange
    <3>5. CloseStopsLaterTransfers'
      BY <2>0, <3>1, <3>2, <3>3, <3>4 DEF CloseStopsLaterTransfers
    <3>6. \A s \in statusLog' :
             s.status = "closed" /\ caseStatus'[s.case] # "closed"
             => Reopened(s, clock + 1)'
      <4> SUFFICES ASSUME NEW s \in statusLog', s.status = "closed",
                          caseStatus'[s.case] # "closed"
                   PROVE  Reopened(s, clock + 1)'
        OBVIOUS
      <4>1. CASE s.case = c
        <5>1. x # "closed"
          BY <2>0, <3>1, <4>1
        <5> QED
          BY <2>0, <2>b, <3>1, <3>2, <3>3, <4>1, <5>1
      <4>2. CASE s.case # c
        <5>1. s \in statusLog /\ caseStatus[s.case] # "closed"
          BY <2>0, <3>1, <3>3, <3>4, <4>2
        <5>2. Reopened(s, clock + 1)
          BY <5>1
        <5> QED
          BY <2>0, <2>b, <3>1, <3>2, <5>2
      <4> QED
        BY <4>1, <4>2
    <3>7. \A v \in Worker, s \in statusLog' :
             /\ pc'[v] \in PastCaseCheck /\ s.case = CaseOf[job'[v].ev]
             /\ s.status = "closed" /\ s.at < job'[v].ts
             => Reopened(s, clock + 1)'
      BY <2>0, <2>a, <2>b, <3>1, <3>2, <3>3, <3>4
    <3> QED
      BY <3>5, <3>6, <3>7
  <2>7. CASE Inert
    BY <2>7, <2>a DEF Inert, CloseStopsLaterTransfers
  <2> QED
    BY <2>1, <2>2, <2>3, <2>4, <2>5, <2>6, <2>7, StepKinds
<1> QED
  BY <1>1, <1>2, TypeCorrect, ClockCorrect, PTL DEF Spec

(* Evidence of a case that was closed when a transfer began moves only if  *)
(* the case got another status before the transfer committed.              *)
THEOREM CloseStops == Spec => []CloseStopsLaterTransfers
<1>1. CloseInv => CloseStopsLaterTransfers
  BY DEF CloseInv
<1> QED
  BY <1>1, CloseInvCorrect, PTL

-----------------------------------------------------------------------------
(* A gap in the chain needs two overlapping transfers.  A request that has *)
(* met no commit of another transfer since it began knows the recipient of *)
(* the last row; when it commits, the row before its own is that one, and  *)
(* a row that comes after its own in the view began and committed while it *)
(* was running.                                                            *)
LEMMA HolderInvCorrect == Spec => []HolderInv
<1> USE DEF HolderInv, RowsOf, Latest
<1>1. Init => HolderInv
  BY DEF Init, GapNeedsOverlap, HolderKnown
<1>2. TypeOK /\ ClockInv /\ HolderInv /\ [Next]_vars => HolderInv'
  <2> SUFFICES ASSUME TypeOK, ClockInv, HolderInv, [Next]_vars PROVE HolderInv'
    OBVIOUS
  <2>0. /\ clock \in Nat /\ cocLogs \subseteq Row
        /\ pc \in [Worker -> {"idle"} \cup TransferSteps \cup SealSteps \cup EditSteps]
        /\ job \in [Worker -> {NoJob} \cup TransferJob \cup SealChange \cup EditJob]
        /\ \A v \in Worker : pc[v] \in Uncommitted => job[v] \in TransferJob
    BY DEF TypeOK, Uncommitted, TransferSteps
  <2>a. HolderKnown \subseteq Uncommitted
    BY DEF HolderKnown, Uncommitted
  <2>b. ASSUME cocLogs' = cocLogs,
               \A v \in Worker : pc'[v] \in HolderKnown =>
                  /\ pc[v] \in HolderKnown /\ job'[v].ev = job[v].ev
                  /\ job'[v].ts = job[v].ts /\ job'[v].from = job[v].from
        PROVE  HolderInv'
    BY <2>b DEF GapNeedsOverlap, Gap, NextInView
  <2>1. ASSUME NEW w \in Worker, NEW e \in Evidence, NEW u \in User,
               BeginTransfer(w, e, u)
        PROVE  HolderInv'
    BY <2>0, <2>1, <2>b DEF BeginTransfer, Goto, HolderKnown
  <2>2. ASSUME NEW w \in Worker, CheckCase(w) \/ CheckSeal(w) PROVE HolderInv'
    <3>1. pc'[w] \notin HolderKnown
      BY <2>0, <2>2 DEF CheckCase, CheckSeal, Goto, Respond, HolderKnown
    <3> QED
      BY <2>2, <2>b, <3>1, ReadSteps DEF postgres
  <2>3. ASSUME NEW w \in Worker, ReadHolder(w) PROVE HolderInv'
    <3>1. PICK u \in User : /\ IsHolder(u, job[w].ev)
                            /\ job' = [job EXCEPT ![w].from = u]
      BY <2>3 DEF ReadHolder
    <3>2. job'[w].ev = job[w].ev /\ job'[w].from = u
      BY <2>0, <2>3, <3>1 DEF ReadHolder, Uncommitted, TransferJob
    <3>3. /\ cocLogs' = cocLogs
          /\ \A v \in Worker \ {w} : pc'[v] = pc[v] /\ job'[v] = job[v]
      BY <2>0, <2>3, <3>1 DEF ReadHolder, Goto, postgres
    <3>4. \A p \in RowsOf(job[w].ev) : Latest(p) => p.to = u
      <4> SUFFICES ASSUME NEW p \in cocLogs, p.ev = job[w].ev, Latest(p)
                   PROVE  p.to = u
        OBVIOUS
      <4>1. PICK r \in RowsOf(job[w].ev) :
               u = r.to /\ \A q \in RowsOf(job[w].ev) : q.ts =< r.ts
        BY <3>1 DEF IsHolder
      <4>2. p.ts =< r.ts /\ r.ts =< p.ts /\ p.ts \in Nat /\ r.ts \in Nat
        BY <2>0, <4>1 DEF Row
      <4>3. p = r
        BY <4>1, <4>2 DEF ClockInv
      <4> QED
        BY <4>1, <4>3
    <3>5. GapNeedsOverlap'
      BY <3>3 DEF GapNeedsOverlap, Gap, NextInView
    <3> QED
      BY <3>2, <3>3, <3>4, <3>5
  <2>4. ASSUME NEW w \in Worker, InsertRow(w) PROVE HolderInv'
    <3>1. /\ cocLogs' = cocLogs /\ pc[w] \in HolderKnown
          /\ job'[w].ev = job[w].ev /\ job'[w].from = job[w].from
          /\ job'[w].ts = job[w].ts
          /\ \A v \in Worker \ {w} : pc'[v] = pc[v] /\ job'[v] = job[v]
      BY <2>0, <2>4 DEF InsertRow, Goto, HolderKnown, Uncommitted, TransferJob
    <3> QED
      BY <2>b, <3>1
  <2>5. ASSUME NEW w \in Worker, CommitTransfer(w) PROVE HolderInv'
    <3> DEFINE row == RowToCommit(w)
    <3>1. /\ row.ev = job[w].ev /\ row.from = job[w].from
          /\ row.ts = job[w].ts /\ row.at = clock + 1
      BY DEF RowToCommit
    <3> HIDE DEF row
    <3>2. /\ clock' = clock + 1 /\ cocLogs' = cocLogs \cup {row}
          /\ pc[w] \in HolderKnown /\ pc'[w] \notin HolderKnown
          /\ \A v \in Worker \ {w} : pc'[v] = pc[v] /\ job'[v] = job[v]
      BY <2>5, <2>a, CommitStep DEF row, HolderKnown
    <3>3. /\ \A r \in cocLogs : /\ r.ts < r.at /\ r.at =< clock
                                /\ r.ts \in Nat /\ r.at \in Nat
          /\ row.ts \in Nat /\ row.ts =< clock
          /\ \A v \in Worker : pc[v] \in HolderKnown => job[v].ts =< clock /\ job[v].ts \in Nat
      BY <2>0, <2>a, <3>1, <3>2 DEF ClockInv, Row, TransferJob
    <3>4. row \notin cocLogs
      BY <2>0, <3>1, <3>3
    <3>5. GapNeedsOverlap'
      <4> SUFFICES ASSUME NEW p \in cocLogs', NEW r \in cocLogs', Gap(p, r)'
                   PROVE  \E q \in cocLogs' : q.ev = r.ev /\ q # r /\ Overlap(q, r)
        BY DEF GapNeedsOverlap, Overlap
      <4>1. /\ p.ev = r.ev /\ p.ts < r.ts /\ p.to # r.from
            /\ \A q \in cocLogs' : q.ev = p.ev => q.ts =< p.ts \/ r.ts =< q.ts
        BY DEF Gap, NextInView
      <4>2. CASE p \in cocLogs /\ r \in cocLogs
        <5>1. Gap(p, r)
          BY <3>2, <4>1, <4>2 DEF Gap, NextInView
        <5>2. PICK q \in RowsOf(r.ev) : q # r /\ Overlap(q, r)
          BY <4>2, <5>1 DEF GapNeedsOverlap
        <5> QED
          BY <3>2, <5>2 DEF Overlap
      <4>3. CASE p = row /\ r \in cocLogs
        <5>1. row.ev = r.ev /\ row # r /\ row \in cocLogs'
          BY <3>2, <3>4, <4>1, <4>3
        <5>2. row.ts < r.at /\ r.ts < row.at
          BY <2>0, <3>1, <3>3, <4>1, <4>3
        <5> QED
          BY <5>1, <5>2 DEF Overlap
      <4>4. CASE p \in cocLogs /\ r = row
        <5> SUFFICES ASSUME \A q \in cocLogs : q.ev = row.ev => q.at =< row.ts
                     PROVE  FALSE
          BY <2>0, <3>1, <3>2, <3>3, <3>4, <4>4 DEF Overlap
        <5>1. Latest(p)
          BY <3>2, <3>3, <4>1, <4>4
        <5>2. p.to = job[w].from
          BY <3>1, <3>2, <4>1, <4>4, <5>1
        <5> QED
          BY <3>1, <4>1, <4>4, <5>2
      <4>5. CASE p = row /\ r = row
        BY <3>3, <4>1, <4>5
      <4> QED
        BY <3>2, <4>2, <4>3, <4>4, <4>5
    <3>6. ASSUME NEW v \in Worker, pc'[v] \in HolderKnown,
                 \A q \in cocLogs' : q.ev = job'[v].ev => q.at =< job'[v].ts,
                 NEW p \in cocLogs', p.ev = job'[v].ev,
                 \A q \in cocLogs' : q.ev = p.ev => q.ts =< p.ts
          PROVE  p.to = job'[v].from
      <4>1. v # w /\ pc[v] \in HolderKnown /\ job'[v] = job[v]
        BY <3>2, <3>6
      <4>2. row.ev # job[v].ev
        BY <2>0, <3>1, <3>2, <3>3, <3>6, <4>1
      <4>3. p \in cocLogs /\ Latest(p)
        BY <3>2, <3>6, <4>1, <4>2
      <4> QED
        BY <3>2, <3>6, <4>1, <4>3
    <3> QED
      BY <3>5, <3>6
  <2>6. ASSUME NEW w \in Worker,
               \/ \E e \in Evidence, a \in SealAction : ChangeSeal(w, e, a)
               \/ \E c \in Case, s \in Status : EditCase(w, c, s)
               \/ CommitAutoSeal(w)
        PROVE  HolderInv'
    BY <2>6, <2>a, <2>b, ChangeSteps
  <2>7. CASE Inert
    BY <2>7, <2>a, <2>b DEF Inert
  <2> QED
    BY <2>1, <2>2, <2>3, <2>4, <2>5, <2>6, <2>7, StepKinds
<1> QED
  BY <1>1, <1>2, TypeCorrect, ClockCorrect, PTL DEF Spec

(* Requests served one after the other leave an unbroken chain of custody. *)
THEOREM GapsComeFromOverlaps == Spec => []GapNeedsOverlap
<1>1. HolderInv => GapNeedsOverlap
  BY DEF HolderInv
<1> QED
  BY <1>1, HolderInvCorrect, PTL

-----------------------------------------------------------------------------
(* A commit is a new ledger entry, a mirror write copies an entry, and no  *)
(* other step shows: with every failure and interleaving the handlers      *)
(* implement the ledger.                                                   *)
THEOREM LedgerImplemented == Spec => ImplementsLedger
<1> DEFINE entries == {CopyOf(r) : r \in cocLogs}
<1>1. Init => Ledger!Init
  BY DEF Init, Ledger!Init
<1>2. TypeOK /\ IdInv /\ LedgerInv /\ GiverInv /\ [Next]_vars
         => [Ledger!Next]_(Ledger!vars)
  <2> SUFFICES ASSUME TypeOK, IdInv, LedgerInv, GiverInv, [Next]_vars
               PROVE  [Ledger!Next]_(Ledger!vars)
    OBVIOUS
  <2>0. /\ cocLogs \subseteq Row
        /\ \A v \in Worker : pc[v] = "commit" =>
              job[v] \in TransferJob /\ job[v].from \in User
    BY DEF TypeOK, TransferSteps
  <2>1. ASSUME NEW w \in Worker, CommitTransfer(w) PROVE Ledger!Transfer
    <3> DEFINE x == CopyOf(RowToCommit(w))
    <3>1. /\ cocLogs' = cocLogs \cup {RowToCommit(w)}
          /\ pc[w] = "commit"
          /\ UNCHANGED <<custodyDocs, graphTransfers>>
      BY <2>1 DEF CommitTransfer, mongo, neo4j
    <3>2. entries' = entries \cup {x}
      BY <3>1
    <3>3. /\ x.id = job[w].id /\ x.ev = job[w].ev
          /\ x.from = job[w].from /\ x.to = job[w].to
      BY DEF RowToCommit, CopyOf
    <3>4. x.id \in Nat /\ x.ev \in Evidence /\ x.to \in User
      BY <2>0, <3>1, <3>3 DEF TransferJob
    <3>5. \A y \in entries : y.id # x.id
      BY <3>1, <3>3 DEF IdInv, CopyOf
    <3>6. x.from \in Ledger!Holders(x.ev)
      <4>1. CASE x.from = Uploader[x.ev]
        BY <4>1 DEF Ledger!Holders
      <4>2. CASE \E q \in RowsOf(x.ev) : q.to = x.from
        <5>1. PICK q \in cocLogs : q.ev = x.ev /\ q.to = x.from
          BY <4>2 DEF RowsOf
        <5>2. CopyOf(q) \in entries /\ CopyOf(q).ev = x.ev /\ CopyOf(q).to = x.from
          BY <5>1 DEF CopyOf
        <5> QED
          BY <5>2 DEF Ledger!Holders
      <4> QED
        BY <3>1, <3>3, <4>1, <4>2 DEF GiverInv, HolderKnown
    <3> HIDE DEF x, entries
    <3>7. x \in entries'
      BY <3>2
    <3> QED
      BY <3>1, <3>2, <3>4, <3>5, <3>6, <3>7 DEF Ledger!Transfer, entries
  <2>2. ASSUME NEW w \in Worker, LogCustody(w) PROVE [Ledger!Next]_(Ledger!vars)
    <3>1. /\ UNCHANGED <<cocLogs, graphTransfers>>
          /\ CopyOf(job[w]) \in entries
          /\ \/ custodyDocs' = custodyDocs \cup {CopyOf(job[w])}
             \/ custodyDocs' = custodyDocs
      BY <2>2 DEF LogCustody, postgres, neo4j, LedgerInv, Mirroring
    <3> QED
      BY <3>1 DEF Ledger!Next, Ledger!CopyToDocuments, Ledger!vars
  <2>3. ASSUME NEW w \in Worker, GraphCustody(w) PROVE [Ledger!Next]_(Ledger!vars)
    <3>1. /\ UNCHANGED <<cocLogs, custodyDocs>>
          /\ CopyOf(job[w]) \in entries
          /\ \/ graphTransfers' = graphTransfers \cup {CopyOf(job[w])}
             \/ graphTransfers' = graphTransfers
      BY <2>3 DEF GraphCustody, postgres, mongo, LedgerInv, Mirroring
    <3> QED
      BY <3>1 DEF Ledger!Next, Ledger!CopyToEvents, Ledger!vars
  <2>4. ASSUME NEW w \in Worker, LogTransfer(w) PROVE UNCHANGED Ledger!vars
    BY <2>4 DEF LogTransfer, postgres, neo4j, Ledger!vars
  <2>5. CASE \A w \in Worker : ~ CommitTransfer(w) /\ ~ LogCustody(w)
                                /\ ~ GraphCustody(w) /\ ~ LogTransfer(w)
    BY <2>5, MirrorSteps DEF MirrorsInert, Ledger!vars
  <2> QED
    BY <2>1, <2>2, <2>3, <2>4, <2>5 DEF Ledger!Next
<1> QED
  BY <1>1, <1>2, TypeCorrect, IdCorrect, LedgerInvCorrect, GiverInvCorrect, PTL
     DEF Spec, ImplementsLedger, Ledger!Spec


-----------------------------------------------------------------------------
(* The strengthenings behind the theorems above, in one: what the model    *)
(* checker finds of them on a small instance holds for every one.          *)
THEOREM InvariantCorrect == Spec => []InductiveInv
<1>1. ClockInv /\ IdInv /\ LedgerInv /\ GiverInv /\ SealInv /\ CloseInv /\ HolderInv
         => InductiveInv
  BY DEF InductiveInv
<1> QED
  BY <1>1, ClockCorrect, IdCorrect, LedgerInvCorrect, GiverInvCorrect, SealInvCorrect,
     CloseInvCorrect, HolderInvCorrect, PTL

-----------------------------------------------------------------------------
(* What a log entry tells of has happened. *)
Happened(l) ==
    \/ /\ l.event \in {"SEAL", "evidence_sealed", "TRANSFER_BLOCKED_SEALED"}
       /\ \E s \in sealLog : s.ev = l.ev /\ s.action = "seal"
    \/ /\ l.event = "UNSEAL"
       /\ \E s \in sealLog : s.ev = l.ev /\ s.action = "unseal"
    \/ /\ l.event = "custody_transferred"
       /\ RowsOf(l.ev) # {}
    \/ /\ l.event \in {"case_updated", "UPDATE"}
       /\ \E s \in statusLog : s.case = l.case

(* What a request is about to log or to mirror is committed. *)
Witnessed(w) ==
    /\ pc[w] \in Mirroring => RowsOf(job[w].ev) # {}
    /\ pc[w] \in SealSteps => job[w] \in sealLog
    /\ pc[w] = "logSeal" => job[w].action = "seal"
    /\ pc[w] \in EditSteps => \E s \in statusLog : s.case = job[w].case
    /\ pc[w] = "graphAutoSeal" => job[w].rows \subseteq sealLog

SealsSeen == \A e \in Evidence : sealed[e] => \E s \in sealLog : s.ev = e /\ s.action = "seal"

TruthInv ==
    /\ graphSeals \subseteq sealLog
    /\ \A l \in logs : Happened(l)
    /\ \A w \in Worker : Witnessed(w)
    /\ SealsSeen

(* It is kept by a step of one request that takes nothing out of the       *)
(* history and logs what has happened.                                     *)
LEMMA TruthPassesOn ==
    ASSUME TruthInv, NEW w \in Worker,
           sealLog \subseteq sealLog', cocLogs \subseteq cocLogs', statusLog \subseteq statusLog',
           \A v \in Worker \ {w} : pc'[v] = pc[v] /\ job'[v] = job[v],
           graphSeals' \subseteq graphSeals \cup sealLog',
           \A l \in logs' : l \in logs \/ Happened(l)',
           Witnessed(w)',
           sealed' = sealed \/ SealsSeen'
    PROVE  TruthInv'
<1>1. \A l : Happened(l) => Happened(l)'
  BY DEF Happened, RowsOf
<1>2. ASSUME NEW v \in Worker \ {w} PROVE Witnessed(v)'
  <2>1. Witnessed(v) /\ pc'[v] = pc[v] /\ job'[v] = job[v]
    BY DEF TruthInv
  <2>2. \A e : RowsOf(e) # {} => RowsOf(e)' # {}
    BY DEF RowsOf
  <2> QED
    BY <2>1, <2>2 DEF Witnessed
<1>3. \A v \in Worker : Witnessed(v)'
  BY <1>2
<1>4. SealsSeen'
  BY DEF TruthInv, SealsSeen
<1> QED
  BY <1>1, <1>3, <1>4 DEF TruthInv


LEMMA TransfersTellTheTruth ==
    ASSUME TypeOK, TruthInv, NEW w \in Worker, Transferring(w)
    PROVE  TruthInv'
<1> USE DEF postgres, mongo, neo4j, history, Goto, Respond, Mirroring, SealSteps, EditSteps
<1>0. /\ pc \in [Worker -> {"idle"} \cup TransferSteps \cup SealSteps \cup EditSteps]
      /\ job \in [Worker -> {NoJob} \cup TransferJob \cup SealChange \cup EditJob]
      /\ \A v \in Worker : pc[v] \in TransferSteps => job[v].ev \in Evidence
  BY DEF TypeOK, TransferJob
<1>1. CASE CheckCase(w) \/ ReadHolder(w) \/ InsertRow(w) \/ TransferFails(w)
  <2>1. /\ UNCHANGED <<sealLog, cocLogs, statusLog, graphSeals, logs, sealed>>
        /\ \A v \in Worker \ {w} : pc'[v] = pc[v] /\ job'[v] = job[v]
        /\ pc'[w] \notin Mirroring \cup SealSteps \cup EditSteps
    BY <1>0, <1>1 DEF CheckCase, ReadHolder, InsertRow, TransferFails
  <2> QED
    BY <2>1, TruthPassesOn DEF Witnessed
<1>2. CASE CheckSeal(w)
  <2>1. /\ UNCHANGED <<sealLog, cocLogs, statusLog, graphSeals, sealed>>
        /\ \A v \in Worker \ {w} : pc'[v] = pc[v] /\ job'[v] = job[v]
        /\ pc'[w] \notin Mirroring \cup SealSteps \cup EditSteps
    BY <1>0, <1>2 DEF CheckSeal
  <2>2. \/ logs' = logs
        \/ /\ sealed[job[w].ev]
           /\ logs' = logs \cup {[event |-> "TRANSFER_BLOCKED_SEALED", ev |-> job[w].ev]}
    BY <1>2 DEF CheckSeal
  <2>3. job[w].ev \in Evidence
    BY <1>0, <1>2 DEF CheckSeal, TransferSteps
  <2>4. \A l \in logs' : l \in logs \/ Happened(l)'
    BY <2>1, <2>2, <2>3 DEF TruthInv, SealsSeen, Happened
  <2> QED
    BY <2>1, <2>4, TruthPassesOn DEF Witnessed
<1>3. CASE CommitTransfer(w)
  <2>1. /\ UNCHANGED <<sealLog, statusLog, graphSeals, logs, sealed>>
        /\ cocLogs' = cocLogs \cup {RowToCommit(w)}
        /\ \A v \in Worker \ {w} : pc'[v] = pc[v] /\ job'[v] = job[v]
        /\ pc'[w] \notin SealSteps \cup EditSteps
        /\ pc'[w] \in Mirroring => job'[w] = job[w]
    BY <1>0, <1>3 DEF CommitTransfer
  <2>2. RowToCommit(w).ev = job[w].ev
    BY DEF RowToCommit
  <2> HIDE DEF Mirroring
  <2>3. ASSUME pc'[w] \in Mirroring PROVE RowsOf(job[w].ev)' # {}
    <3>1. PICK r : r \in cocLogs' /\ r.ev = job'[w].ev
      BY <2>1, <2>2, <2>3
    <3> QED
      BY <3>1 DEF RowsOf
  <2>4. Witnessed(w)'
    BY <2>1, <2>3 DEF Witnessed
  <2> QED
    BY <2>1, <2>4, TruthPassesOn
<1>4. CASE LogCustody(w) \/ GraphCustody(w)
  <2>1. /\ UNCHANGED <<sealLog, cocLogs, statusLog, graphSeals, logs, sealed, job>>
        /\ \A v \in Worker \ {w} : pc'[v] = pc[v]
        /\ pc'[w] \notin SealSteps \cup EditSteps /\ pc[w] \in Mirroring
    BY <1>0, <1>4 DEF LogCustody, GraphCustody
  <2>2. Witnessed(w)'
    BY <2>1 DEF TruthInv, Witnessed, RowsOf
  <2> QED
    BY <2>1, <2>2, TruthPassesOn
<1>5. CASE LogTransfer(w)
  <2>1. /\ UNCHANGED <<sealLog, cocLogs, statusLog, graphSeals, sealed>>
        /\ \A v \in Worker \ {w} : pc'[v] = pc[v] /\ job'[v] = job[v]
        /\ pc'[w] = "idle" /\ pc[w] \in Mirroring
        /\ logs' \subseteq logs \cup {[event |-> "custody_transferred", ev |-> job[w].ev]}
    BY <1>0, <1>5 DEF LogTransfer
  <2>2. \A l \in logs' : l \in logs \/ Happened(l)'
    BY <2>1 DEF TruthInv, Witnessed, Happened, RowsOf
  <2>3. Witnessed(w)'
    BY <2>1 DEF Witnessed
  <2> QED
    BY <2>1, <2>2, <2>3, TruthPassesOn
<1> QED
  BY <1>1, <1>2, <1>3, <1>4, <1>5 DEF Transferring

LEMMA SealsTellTheTruth ==
    ASSUME TypeOK, TruthInv, NEW w \in Worker, Sealing(w)
    PROVE  TruthInv'
<1> USE DEF postgres, mongo, neo4j, history, Goto, Respond, Mirroring, SealSteps, EditSteps
<1>0. /\ pc \in [Worker -> {"idle"} \cup TransferSteps \cup SealSteps \cup EditSteps]
      /\ job \in [Worker -> {NoJob} \cup TransferJob \cup SealChange \cup EditJob]
      /\ pc[w] \in SealSteps => job[w] \in sealLog /\ job[w].action \in SealAction
  BY DEF TypeOK, TruthInv, Witnessed, SealChange
<1>1. /\ UNCHANGED <<sealLog, cocLogs, statusLog, sealed>>
      /\ \A v \in Worker \ {w} : pc'[v] = pc[v] /\ job'[v] = job[v]
      /\ pc[w] \in SealSteps
  BY <1>0 DEF Sealing, AuditSeal, LogSeal, GraphSeal
<1>2. pc'[w] = "idle" \/ (job'[w] = job[w] /\ pc'[w] \in SealSteps
                           /\ (pc'[w] = "logSeal" => job[w].action = "seal"))
  BY <1>0 DEF Sealing, AuditSeal, LogSeal, GraphSeal
<1>3. Witnessed(w)'
  BY <1>0, <1>1, <1>2 DEF Witnessed
<1>4. graphSeals' \subseteq graphSeals \cup sealLog'
  BY <1>0, <1>1 DEF Sealing, AuditSeal, LogSeal, GraphSeal, NeoSeal
<1>5. \A l \in logs' : l \in logs \/ Happened(l)'
  <2>1. CASE AuditSeal(w)
    BY <1>0, <1>1, <2>1 DEF AuditSeal, Happened, SealAction
  <2>2. CASE LogSeal(w)
    <3>1. job[w].action = "seal"
      BY <2>2 DEF LogSeal, TruthInv, Witnessed
    <3> QED
      BY <1>0, <1>1, <2>2, <3>1 DEF LogSeal, Happened
  <2>3. CASE GraphSeal(w)
    BY <2>3 DEF GraphSeal
  <2> QED
    BY <2>1, <2>2, <2>3 DEF Sealing
<1> QED
  BY <1>1, <1>3, <1>4, <1>5, TruthPassesOn

LEMMA EditsTellTheTruth ==
    ASSUME TypeOK, TruthInv, NEW w \in Worker, Editing(w)
    PROVE  TruthInv'
<1> USE DEF postgres, mongo, neo4j, history, Goto, Respond, Mirroring, SealSteps, EditSteps
<1>0. /\ pc \in [Worker -> {"idle"} \cup TransferSteps \cup SealSteps \cup EditSteps]
      /\ job \in [Worker -> {NoJob} \cup TransferJob \cup SealChange \cup EditJob]
      /\ sealed \in [Evidence -> BOOLEAN]
      /\ pc[w] \in EditSteps => /\ job[w] \in EditJob
                                /\ \E s \in statusLog : s.case = job[w].case
  BY DEF TypeOK, TruthInv, Witnessed
<1>1. CASE CommitAutoSeal(w)
  <2> DEFINE added == {[ev |-> e, action |-> "seal", at |-> clock + 1] : e \in job[w].locked}
  <2>1. /\ UNCHANGED <<cocLogs, statusLog, graphSeals, logs>>
        /\ sealLog' = sealLog \cup added
        /\ sealed' = [e \in Evidence |-> sealed[e] \/ e \in job[w].locked]
    BY <1>1 DEF CommitAutoSeal
  <2>2. \A v \in Worker \ {w} : pc'[v] = pc[v] /\ job'[v] = job[v]
    BY <1>0, <1>1 DEF CommitAutoSeal
  <2>3. \A e \in job[w].locked : \E s \in added : s.ev = e /\ s.action = "seal"
    <3> SUFFICES ASSUME NEW e \in job[w].locked
                 PROVE  \E s \in added : s.ev = e /\ s.action = "seal"
      OBVIOUS
    <3>1. [ev |-> e, action |-> "seal", at |-> clock + 1] \in added
      OBVIOUS
    <3> QED
      BY <3>1
  <2>4. pc'[w] \in {"graphAutoSeal", "logEdit"} /\ job'[w].case = job[w].case
        /\ (pc'[w] = "graphAutoSeal" => job'[w].rows \subseteq sealLog')
    <3>1. job[w] \in EditJob
      BY <1>0, <1>1 DEF CommitAutoSeal
    <3> HIDE DEF added
    <3>2. \/ pc'[w] = "graphAutoSeal" /\ job'[w] = [job[w] EXCEPT !.rows = added]
          \/ pc'[w] = "logEdit" /\ job'[w] = job[w]
      BY <1>0, <1>1 DEF CommitAutoSeal, added
    <3> QED
      BY <2>1, <3>1, <3>2 DEF EditJob
  <2>5. Witnessed(w)'
    BY <1>0, <1>1, <2>1, <2>4 DEF Witnessed, CommitAutoSeal
  <2> HIDE DEF added
  <2>6. SealsSeen'
    BY <1>0, <2>1, <2>3 DEF TruthInv, SealsSeen
  <2> QED
    BY <2>1, <2>2, <2>5, <2>6, TruthPassesOn
<1>4. CASE AutoSeal(w)
  <2>1. /\ UNCHANGED <<sealLog, cocLogs, statusLog, sealed, graphSeals, logs>>
        /\ \A v \in Worker \ {w} : pc'[v] = pc[v] /\ job'[v] = job[v]
        /\ pc[w] \in EditSteps /\ job[w] \in EditJob /\ pc'[w] = "commitAutoSeal"
    BY <1>0, <1>4 DEF AutoSeal
  <2>2. job'[w].case = job[w].case
    BY <1>0, <1>4, <2>1 DEF AutoSeal, EditJob
  <2>3. Witnessed(w)'
    BY <1>0, <2>1, <2>2 DEF Witnessed
  <2> QED
    BY <2>1, <2>3, TruthPassesOn
<1>2. CASE AutoSealFails(w) \/ LogEdit(w) \/ AuditEdit(w)
  <2>1. /\ UNCHANGED <<sealLog, cocLogs, statusLog, sealed, graphSeals>>
        /\ \A v \in Worker \ {w} : pc'[v] = pc[v] /\ job'[v] = job[v]
        /\ pc[w] \in EditSteps
        /\ pc'[w] = "idle" \/ (pc'[w] \in {"logEdit", "auditEdit"} /\ job'[w] = job[w])
    BY <1>0, <1>2 DEF AutoSealFails, LogEdit, AuditEdit
  <2>2. \A l \in logs' : l \in logs \/ Happened(l)'
    BY <1>0, <1>2, <2>1 DEF AutoSealFails, LogEdit, AuditEdit, Happened
  <2>3. Witnessed(w)'
    BY <1>0, <2>1 DEF Witnessed
  <2> QED
    BY <2>1, <2>2, <2>3, TruthPassesOn
<1>3. CASE GraphAutoSeal(w)
  <2>1. /\ UNCHANGED <<sealLog, cocLogs, statusLog, sealed, logs>>
        /\ \A v \in Worker \ {w} : pc'[v] = pc[v] /\ job'[v] = job[v]
        /\ pc[w] = "graphAutoSeal" /\ job[w] \in EditJob /\ job[w].rows \subseteq sealLog
        /\ pc'[w] \in {"graphAutoSeal", "logEdit"}
    BY <1>0, <1>3 DEF GraphAutoSeal, TruthInv, Witnessed
  <2>2. graphSeals' \subseteq graphSeals \cup sealLog'
    BY <1>3, <2>1 DEF GraphAutoSeal, NeoSeal
  <2>3. job'[w].case = job[w].case /\ job'[w].rows \subseteq job[w].rows
    <3>1. \/ job'[w] = job[w]
          \/ \E change \in job[w].rows : job'[w] = [job[w] EXCEPT !.rows = @ \ {change}]
      BY <1>0, <1>3 DEF GraphAutoSeal
    <3> QED
      BY <2>1, <3>1 DEF EditJob
  <2>4. Witnessed(w)'
    BY <1>0, <2>1, <2>3 DEF Witnessed
  <2> QED
    BY <2>1, <2>2, <2>4, TruthPassesOn
<1> QED
  BY <1>1, <1>2, <1>3, <1>4 DEF Editing

LEMMA RequestsTellTheTruth ==
    ASSUME TypeOK, TruthInv, NEW w \in Worker, Request(w) \/ Crash(w)
    PROVE  TruthInv'
<1> USE DEF postgres, mongo, neo4j, history, Goto, Respond, Mirroring, SealSteps, EditSteps
<1>0. /\ pc \in [Worker -> {"idle"} \cup TransferSteps \cup SealSteps \cup EditSteps]
      /\ job \in [Worker -> {NoJob} \cup TransferJob \cup SealChange \cup EditJob]
      /\ sealed \in [Evidence -> BOOLEAN]
  BY DEF TypeOK
<1>1. CASE Crash(w) \/ \E e \in Evidence, u \in User : BeginTransfer(w, e, u)
  <2>1. /\ UNCHANGED <<sealLog, cocLogs, statusLog, sealed, graphSeals, logs>>
        /\ \A v \in Worker \ {w} : pc'[v] = pc[v] /\ job'[v] = job[v]
        /\ pc'[w] \in {"idle", "checkCase"}
    BY <1>0, <1>1 DEF Crash, BeginTransfer
  <2> QED
    BY <2>1, TruthPassesOn DEF Witnessed
<1>2. ASSUME NEW e \in Evidence, NEW a \in SealAction, ChangeSeal(w, e, a) PROVE TruthInv'
  <2> DEFINE change == [ev |-> e, action |-> a, at |-> clock + 1]
  <2>1. /\ UNCHANGED <<cocLogs, statusLog, graphSeals, logs>>
        /\ sealLog' = sealLog \cup {change}
        /\ sealed' = [sealed EXCEPT ![e] = (a = "seal")]
        /\ pc[w] = "idle"
    BY <1>2 DEF ChangeSeal
  <2>2. \A v \in Worker \ {w} : pc'[v] = pc[v] /\ job'[v] = job[v]
    BY <1>0, <1>2 DEF ChangeSeal
  <2>3. pc'[w] = "idle" \/ (pc'[w] = "auditSeal" /\ job'[w] = change)
    BY <1>0, <1>2 DEF ChangeSeal
  <2>4. Witnessed(w)'
    BY <2>1, <2>3 DEF Witnessed
  <2>5. change.ev = e /\ change.action = a
    OBVIOUS
  <2> HIDE DEF change
  <2>6. SealsSeen'
    BY <1>0, <2>1, <2>5 DEF TruthInv, SealsSeen
  <2> QED
    BY <2>1, <2>2, <2>4, <2>6, TruthPassesOn
<1>3. ASSUME NEW c \in Case, NEW s \in Status, EditCase(w, c, s) PROVE TruthInv'
  <2> DEFINE change == [case |-> c, status |-> s, at |-> clock + 1]
             begun == [case |-> c, locked |-> {}, rows |-> {}]
  <2>1. /\ UNCHANGED <<cocLogs, sealLog, graphSeals, logs, sealed>>
        /\ statusLog' = statusLog \cup {change}
        /\ pc[w] = "idle"
    BY <1>3 DEF EditCase
  <2>2. \A v \in Worker \ {w} : pc'[v] = pc[v] /\ job'[v] = job[v]
    BY <1>0, <1>3 DEF EditCase
  <2>3. pc'[w] = "idle" \/ (pc'[w] \in {"autoSeal", "logEdit"} /\ job'[w] = begun)
    BY <1>0, <1>3 DEF EditCase
  <2>4. change.case = c /\ begun.case = c
    OBVIOUS
  <2> HIDE DEF change, begun
  <2>5. Witnessed(w)'
    BY <2>1, <2>3, <2>4 DEF Witnessed
  <2> QED
    BY <2>1, <2>2, <2>5, TruthPassesOn
<1> QED
  BY <1>1, <1>2, <1>3 DEF Request

(* The audit log, the activity log and the seal events of the graph tell   *)
(* of nothing that PostgreSQL did not commit.                              *)
THEOREM LogsCorrect == Spec => []LogsTellTheTruth
<1>1. Init => TruthInv
  <2> SUFFICES ASSUME Init PROVE TruthInv
    OBVIOUS
  <2>1. SealsSeen
    <3> SUFFICES ASSUME NEW e \in Evidence, sealed[e]
                 PROVE  \E s \in sealLog : s.ev = e /\ s.action = "seal"
      BY DEF SealsSeen
    <3>1. [ev |-> e, action |-> "seal", at |-> 0] \in sealLog
      BY DEF Init
    <3> QED
      BY <3>1
  <2> QED
    BY <2>1 DEF Init, TruthInv, Witnessed, Mirroring, SealSteps, EditSteps
<1>2. TypeOK /\ TruthInv /\ [Next]_vars => TruthInv'
  <2> SUFFICES ASSUME TypeOK, TruthInv, [Next]_vars PROVE TruthInv'
    OBVIOUS
  <2>1. CASE UNCHANGED vars \/ \E e \in Evidence : NeoAddEvidence(e)
    <3>1. UNCHANGED <<sealLog, cocLogs, statusLog, sealed, graphSeals, logs, pc, job>>
      BY <2>1 DEF NeoAddEvidence, vars, postgres, mongo, neo4j, history
    <3> QED
      BY <3>1 DEF TruthInv, Happened, Witnessed, SealsSeen, RowsOf
  <2> QED
    BY <2>1, TransfersTellTheTruth, SealsTellTheTruth, EditsTellTheTruth,
       RequestsTellTheTruth DEF Next, Continue, Quiet
<1>3. TruthInv => LogsTellTheTruth
  BY DEF TruthInv, LogsTellTheTruth, Happened
<1> QED
  BY <1>1, <1>2, <1>3, TypeCorrect, PTL DEF Spec

=============================================================================
