-------------------- MODULE IntegrityVerificationProofs --------------------
(***************************************************************************)
(* Proofs about IntegrityVerification, for any evidence, any number of     *)
(* requests served at the same time and any faults.                        *)
(***************************************************************************)
EXTENDS IntegrityVerification, FiniteSetTheorems, WellFoundedInduction, TLAPS

(* A finite set of numbers has a greatest one.  An induction would show    *)
(* it; here it follows from the strict subset ordering of the finite       *)
(* subsets of a set, which has minimal elements.                           *)
LEMMA Greatest ==
    ASSUME NEW S \in SUBSET Nat, S # {}, IsFiniteSet(S)
    PROVE  \E m \in S : \A x \in S : x =< m
<1> DEFINE Above(m) == {x \in S : m =< x}
           Family == {Above(m) : m \in S}
<1>1. Family \subseteq FiniteSubsetsOf(S)
  <2> SUFFICES ASSUME NEW m \in S PROVE Above(m) \in FiniteSubsetsOf(S)
    OBVIOUS
  <2>1. Above(m) \in SUBSET S
    OBVIOUS
  <2> HIDE DEF Above
  <2> QED
    BY <2>1, FS_Subset DEF FiniteSubsetsOf
<1>2. \E X \in Family : \A Y \in Family : <<Y, X>> \notin StrictSubsetOrdering(S)
  <2>1. Family # {}
    OBVIOUS
  <2> HIDE DEF Family
  <2> QED
    BY <1>1, <2>1, FS_StrictSubsetOrderingWellFounded, WFMin
<1>3. PICK m \in S : \A x \in S : <<Above(x), Above(m)>> \notin StrictSubsetOrdering(S)
  BY <1>2
<1>4. ASSUME NEW x \in S, m < x PROVE FALSE
  <2>1. m \in Nat /\ x \in Nat /\ \A y \in S : y \in Nat
    OBVIOUS
  <2>2. m \in Above(m) /\ m \notin Above(x)
    BY <1>4, <2>1
  <2>3. Above(x) \subseteq Above(m)
    <3>1. \A y \in S : x =< y => m =< y
      BY <1>4, <2>1
    <3> QED
      BY <3>1
  <2>4. Above(x) \in SUBSET S /\ Above(m) \in SUBSET S
    OBVIOUS
  <2> HIDE DEF Above
  <2>5. <<Above(x), Above(m)>> \in StrictSubsetOrdering(S)
    BY <2>2, <2>3, <2>4 DEF StrictSubsetOrdering
  <2> QED
    BY <1>3, <2>5
<1> QED
  BY <1>4

ItemSteps == Step \ {"idle", "next", "commitRows", "bulkLog"}

JobsOK ==
    /\ pc \in [Worker -> Step] /\ job \in [Worker -> {NoJob} \cup Job]
    /\ \A w \in Worker : /\ pc[w] # "idle" => job[w] \in Job
                         /\ pc[w] \in ItemSteps => job[w].ev \in Evidence

(* What a step of one request makes of the requests. *)
Moves(w, s, j) ==
    /\ pc' = [pc EXCEPT ![w] = s]
    /\ job' = [job EXCEPT ![w] = j]

(* The requests keep their types when one of them goes on to a step with   *)
(* the local variables this step needs, or ends.                           *)
LEMMA JobsKept ==
    ASSUME JobsOK, NEW w \in Worker, NEW s \in Step, NEW j, Moves(w, s, j),
           \/ s = "idle" /\ j = NoJob
           \/ j \in Job /\ (s \in ItemSteps => j.ev \in Evidence)
    PROVE  JobsOK'
<1>1. pc' \in [Worker -> Step] /\ job' \in [Worker -> {NoJob} \cup Job]
  BY DEF JobsOK, Moves
<1>2. ASSUME NEW v \in Worker
      PROVE  /\ pc'[v] # "idle" => job'[v] \in Job
             /\ pc'[v] \in ItemSteps => job'[v].ev \in Evidence
  <2>1. CASE v = w
    BY <2>1 DEF JobsOK, Moves, ItemSteps
  <2>2. CASE v # w
    BY <2>2 DEF JobsOK, Moves
  <2> QED
    BY <2>1, <2>2
<1> QED
  BY <1>1, <1>2 DEF JobsOK

LEMMA NewJobs ==
    ASSUME clock \in Nat, NEW kind \in Kind, NEW S \in SUBSET Evidence,
           NEW e \in Evidence \cup {0}
    PROVE  /\ NewJob(kind, S, e) \in Job
           /\ NewJob(kind, S, e).kind = kind /\ NewJob(kind, S, e).todo = S
           /\ NewJob(kind, S, e).ev = e /\ NewJob(kind, S, e).id = 0
           /\ NewJob(kind, S, e).ts = clock + 1 /\ NewJob(kind, S, e).began = clock + 1
           /\ NewJob(kind, S, e).passed = {}
BY DEF NewJob, Job

(* A request that begins. *)
Begins(w, s, kind, S, e) ==
    /\ pc[w] = "idle" /\ clock' = clock + 1
    /\ Moves(w, s, NewJob(kind, S, e))
    /\ kind \in Kind /\ S \in SUBSET Evidence /\ e \in Evidence \cup {0}
    /\ UNCHANGED <<lastVerified, sealed, rows, nextId, events, logs, lock, history>>
    /\ \/ s = "next" /\ kind \in {"one", "case", "due"} /\ UNCHANGED closed
       \/ s = "update" /\ kind = "quick" /\ e \in Evidence /\ UNCHANGED closed
       \/ /\ s \in {"row", "commitRows"} /\ kind \in {"bulk", "seal"} /\ closed' \in {closed, TRUE}
          /\ s = "row" => e \in Evidence /\ ComesNext(kind, e, S)

LEMMA RequestStep ==
    ASSUME NEW w \in Worker, Request(w)
    PROVE  \E s \in Step, kind \in Kind, S \in SUBSET Evidence, e \in Evidence \cup {0} :
              Begins(w, s, kind, S, e)
<1> USE DEF Begins, Moves, Goto, Tick, tables, Step, Kind
<1>1. ASSUME NEW kind \in {"one", "case", "due"}, NEW S \in SUBSET Evidence, Verify(w, kind, S)
      PROVE  Begins(w, "next", kind, S, 0)
  BY <1>1 DEF Verify
<1>2. ASSUME NEW e \in Evidence, QuickVerify(w, e)
      PROVE  Begins(w, "update", "quick", {}, e)
  BY <1>2 DEF QuickVerify
<1>3. ASSUME NEW kind \in {"bulk", "seal"}, NEW S \in SUBSET Evidence, UpdateRows(w, kind, S),
             closed' \in {closed, TRUE}
      PROVE  \E s \in Step, e \in Evidence \cup {0}, T \in SUBSET Evidence :
                Begins(w, s, kind, T, e)
  <2>1. CASE /\ Goto(w, "commitRows") /\ job' = [job EXCEPT ![w] = NewJob(kind, {}, 0)]
    <3>1. Begins(w, "commitRows", kind, {}, 0)
      BY <1>3, <2>1 DEF UpdateRows
    <3> QED
      BY <3>1
  <2>2. ASSUME NEW e \in Evidence, ComesNext(kind, e, S), Goto(w, "row"),
               job' = [job EXCEPT ![w] = NewJob(kind, S, e)]
        PROVE  Begins(w, "row", kind, S, e)
    BY <1>3, <2>2 DEF UpdateRows
  <2> QED
    BY <1>3, <2>1, <2>2 DEF UpdateRows
<1>4. First({e \in Evidence : Due(e)}) \in SUBSET Evidence
  BY DEF First
<1>5. CASE \E e \in Evidence : QuickVerify(w, e) \/ Verify(w, "one", {e})
  <2>1. PICK e \in Evidence : QuickVerify(w, e) \/ Verify(w, "one", {e})
    BY <1>5
  <2>2. {e} \in SUBSET Evidence
    OBVIOUS
  <2>3. CASE Verify(w, "one", {e})
    <3>1. Begins(w, "next", "one", {e}, 0)
      BY <1>1, <2>2, <2>3
    <3> QED
      BY <2>2, <3>1
  <2> QED
    BY <1>2, <2>1, <2>3
<1>6. CASE Verify(w, "case", Evidence) \/ Verify(w, "due", First({e \in Evidence : Due(e)}))
  BY <1>1, <1>4, <1>6
<1>7. CASE BulkVerify(w)
  <2> DEFINE S == First({e \in Evidence : Due(e)})
  <2>1. UpdateRows(w, "bulk", S) /\ S \in SUBSET Evidence /\ closed' = closed
    BY <1>4, <1>7 DEF BulkVerify
  <2> HIDE DEF S
  <2> QED
    BY <1>3, <2>1
<1>8. CASE AutoSeal(w)
  <2> DEFINE S == {e \in Evidence : ~sealed[e]}
  <2>1. UpdateRows(w, "seal", S) /\ S \in SUBSET Evidence /\ closed' = TRUE
    BY <1>8 DEF AutoSeal
  <2> HIDE DEF S
  <2> QED
    BY <1>3, <2>1, ZenonT(30)
<1> QED
  BY <1>5, <1>6, <1>7, <1>8 DEF Request

LEMMA TypeStarts == Init => TypeOK
<1> SUFFICES ASSUME Init PROVE TypeOK
  OBVIOUS
<1>1. faults \subseteq FaultKind
  BY VerificationAssumption DEF Init
<1>2. pc \in [Worker -> Step] /\ job \in [Worker -> {NoJob} \cup Job]
  BY DEF Init, Step
<1> QED
  BY <1>1, <1>2 DEF Init, TypeOK

(* What WaitsFor and the rollback of a transaction do to the locks. *)
LEMMA UnlockType ==
    ASSUME lock \in [Evidence -> Worker \cup {None}], NEW w, Unlock(w)
    PROVE  /\ lock' \in [Evidence -> Worker \cup {None}]
           /\ \A e \in Evidence : lock'[e] = IF lock[e] = w THEN None ELSE lock[e]
BY DEF Unlock

(* The steps of a request that verifies one item after the other. *)
LEMMA TypeVerifying ==
    ASSUME TypeOK, NEW w \in Worker, Verifying(w)
    PROVE  TypeOK'
<1> USE DEF Goto, Tick, tables, history, MayFail, Moves
<1>1. JobsOK /\ pc \in [Worker -> Step] /\ job \in [Worker -> {NoJob} \cup Job]
  BY DEF TypeOK, JobsOK, ItemSteps
<1>2. pc[w] # "idle" => job[w] \in Job
  BY DEF TypeOK
<1>3. clock \in Nat /\ clock + 1 \in Nat /\ nextId \in Nat /\ nextId + 1 \in Nat
  BY DEF TypeOK
<1> USE DEF Step, ItemSteps
<1>4. CASE BeginVerification(w)
  <2>1. PICK e \in Evidence : ComesNext(job[w].kind, e, job[w].todo) /\
           \/ /\ job' = [job EXCEPT ![w].todo = @ \ {e}, ![w].ev = e,
                                    ![w].id = nextId, ![w].ts = clock + 1]
              /\ nextId' = nextId + 1
              /\ Goto(w, "event")
           \/ /\ job' = [job EXCEPT ![w].todo = @ \ {e}, ![w].ev = e,
                                    ![w].id = 0, ![w].ts = clock + 1]
              /\ Goto(w, "update") /\ UNCHANGED nextId
           \/ /\ job' = [job EXCEPT ![w].todo = @ \ {e}]
              /\ UNCHANGED <<pc, nextId>>
    BY <1>4 DEF BeginVerification
  <2>2. pc[w] = "next" /\ job[w] \in Job /\ DOMAIN job = Worker
    BY <1>1, <1>2, <1>4 DEF BeginVerification
  <2>3. nextId' \in Nat
    BY <1>3, <2>1
  <2>4. JobsOK'
    <3>1. CASE /\ job' = [job EXCEPT ![w].todo = @ \ {e}, ![w].ev = e,
                                     ![w].id = nextId, ![w].ts = clock + 1]
               /\ Goto(w, "event")
      <4> DEFINE j == [job[w] EXCEPT !.todo = @ \ {e}, !.ev = e, !.id = nextId, !.ts = clock + 1]
      <4>1. j \in Job /\ j.ev = e
        BY <1>3, <2>2 DEF Job
      <4>2. Moves(w, "event", j)
        BY <2>2, <3>1
      <4> HIDE DEF j
      <4> QED
        BY <1>1, <4>1, <4>2, JobsKept
    <3>2. CASE /\ job' = [job EXCEPT ![w].todo = @ \ {e}, ![w].ev = e,
                                     ![w].id = 0, ![w].ts = clock + 1]
               /\ Goto(w, "update")
      <4> DEFINE j == [job[w] EXCEPT !.todo = @ \ {e}, !.ev = e, !.id = 0, !.ts = clock + 1]
      <4>1. j \in Job /\ j.ev = e
        BY <1>3, <2>2 DEF Job
      <4>2. Moves(w, "update", j)
        BY <2>2, <3>2
      <4> HIDE DEF j
      <4> QED
        BY <1>1, <4>1, <4>2, JobsKept
    <3>3. CASE job' = [job EXCEPT ![w].todo = @ \ {e}] /\ pc' = pc
      <4> DEFINE j == [job[w] EXCEPT !.todo = @ \ {e}]
      <4>1. j \in Job
        BY <2>2 DEF Job
      <4>2. Moves(w, "next", j)
        BY <1>1, <2>2, <3>3
      <4> HIDE DEF j
      <4> QED
        BY <1>1, <4>1, <4>2, JobsKept
    <3> QED
      BY <2>1, <3>1, <3>2, <3>3
  <2> QED
    BY <1>3, <1>4, <2>3, <2>4 DEF BeginVerification, TypeOK, JobsOK
<1>5. ASSUME NEW s \in Step \ {"idle"}, pc[w] # "idle", Goto(w, s), UNCHANGED job,
             s \in ItemSteps => pc[w] \in ItemSteps
      PROVE  JobsOK'
  <2>1. Moves(w, s, job[w])
    BY <1>1, <1>5
  <2>2. pc[w] \in ItemSteps => job[w].ev \in Evidence
    BY <1>1 DEF JobsOK
  <2>3. s \in ItemSteps => job[w].ev \in Evidence
    BY <1>5, <2>2
  <2>4. s \in Step /\ job[w] \in Job
    BY <1>2, <1>5
  <2> HIDE DEF Step, ItemSteps, Moves
  <2> QED
    BY <1>1, <2>1, <2>3, <2>4, JobsKept
<1>6. CASE WriteEvent(w)
  <2>1. JobsOK'
    BY <1>5, <1>6 DEF WriteEvent
  <2>2. events' \subseteq Event
    BY <1>2, <1>6 DEF WriteEvent, TypeOK, Event, Job
  <2> QED
    BY <1>6, <2>1, <2>2 DEF WriteEvent, TypeOK, JobsOK
<1>7. CASE Update(w)
  <2>1. JobsOK'
    BY <1>5, <1>7 DEF Update
  <2>2. lock' \in [Evidence -> Worker \cup {None}]
    BY <1>7 DEF Update, TypeOK
  <2> QED
    BY <1>7, <2>1, <2>2 DEF Update, TypeOK, JobsOK
<1>8. CASE CommitVerification(w)
  <2>1. JobsOK'
    BY <1>5, <1>8 DEF CommitVerification
  <2>2. pc[w] = "commit" /\ job[w] \in Job /\ job[w].ev \in Evidence /\ job[w].ts \in Nat
    BY <1>2, <1>8 DEF CommitVerification, TypeOK, Job
  <2>3. lastVerified' \in [Evidence -> Nat]
    BY <1>8, <2>2 DEF CommitVerification, TypeOK
  <2>4. Done(w, job[w].ev) \in [ev: Evidence, ts: Nat, opened: Nat, at: Nat]
    BY <1>3, <1>8, <2>2, <2>3 DEF Done, CommitVerification
  <2>5. done' \subseteq [ev: Evidence, ts: Nat, opened: Nat, at: Nat]
    BY <1>8, <2>4 DEF CommitVerification, TypeOK
  <2>6. rows' \subseteq HistoryRow
    BY <1>8, <2>2 DEF CommitVerification, TypeOK, HistoryRow, Job
  <2>7. lock' \in [Evidence -> Worker \cup {None}]
    BY <1>8, UnlockType DEF CommitVerification, TypeOK
  <2> QED
    BY <1>3, <1>8, <2>1, <2>3, <2>5, <2>6, <2>7 DEF CommitVerification, TypeOK, JobsOK
<1>9. CASE VerificationFails(w)
  <2>1. JobsOK'
    BY <1>5, <1>9 DEF VerificationFails
  <2>2. lock' \in [Evidence -> Worker \cup {None}]
    BY <1>9, UnlockType DEF VerificationFails, TypeOK
  <2>3. rolledBack' \subseteq Nat
    BY <1>2, <1>9 DEF VerificationFails, TypeOK, Job
  <2> QED
    BY <1>9, <2>1, <2>2, <2>3 DEF VerificationFails, TypeOK, JobsOK
<1>10. CASE LogVerification(w)
  <2>1. pc[w] = "log" /\ job[w] \in Job /\ job[w].ev \in Evidence
    BY <1>2, <1>10 DEF LogVerification, TypeOK
  <2>2. JobsOK'
    <3>1. CASE job' = [job EXCEPT ![w].passed = @ \cup {job[w].ev}]
      <4> DEFINE j == [job[w] EXCEPT !.passed = @ \cup {job[w].ev}]
      <4>1. j \in Job
        BY <2>1 DEF Job
      <4>2. Moves(w, "next", j)
        BY <1>1, <1>10, <3>1 DEF LogVerification
      <4> HIDE DEF j
      <4> QED
        BY <1>1, <4>1, <4>2, JobsKept
    <3>2. CASE UNCHANGED job
      BY <1>5, <1>10, <3>2 DEF LogVerification
    <3> QED
      BY <1>10, <3>1, <3>2 DEF LogVerification
  <2>3. LogsOf(w) \subseteq LogEntry
    BY <2>1 DEF LogsOf, LogEntry
  <2>4. logs' \subseteq LogEntry
    BY <1>10, <2>3 DEF LogVerification, TypeOK
  <2> QED
    BY <1>10, <2>2, <2>4 DEF LogVerification, TypeOK, JobsOK
<1>11. CASE Answer(w)
  <2>1. Moves(w, "idle", NoJob) /\ pc[w] = "next"
    BY <1>11 DEF Answer, Respond
  <2>2. JobsOK'
    BY <1>1, <2>1, JobsKept
  <2>3. reports' \subseteq Report
    BY <1>2, <1>11 DEF Answer, ReportOf, Report, Job, TypeOK
  <2> QED
    BY <1>11, <2>2, <2>3 DEF Answer, TypeOK, JobsOK
<1> QED
  BY <1>4, <1>6, <1>7, <1>8, <1>9, <1>10, <1>11 DEF Verifying

(* The steps of a transaction that updates several rows. *)
LEMMA TypeUpdating ==
    ASSUME TypeOK, NEW w \in Worker, UpdatingRows(w)
    PROVE  TypeOK'
<1> USE DEF Goto, Tick, tables, history, MayFail, Moves
<1>1. JobsOK /\ pc \in [Worker -> Step] /\ job \in [Worker -> {NoJob} \cup Job]
  BY DEF TypeOK, JobsOK, ItemSteps
<1>2. pc[w] # "idle" => job[w] \in Job
  BY DEF TypeOK
<1>3. clock + 1 \in Nat
  BY DEF TypeOK
<1> USE DEF Step, ItemSteps
<1>4. ASSUME Respond(w) PROVE JobsOK'
  <2>1. Moves(w, "idle", NoJob)
    BY <1>4 DEF Respond
  <2> QED
    BY <1>1, <2>1, JobsKept
<1>5. CASE LockRow(w)
  <2>1. pc[w] = "row" /\ job[w] \in Job /\ job[w].ev \in Evidence
    BY <1>2, <1>5 DEF LockRow, TypeOK
  <2>2. JobsOK'
    <3> DEFINE rest == job[w].todo \ {job[w].ev}
    <3>1. CASE /\ Goto(w, "commitRows")
               /\ job' = [job EXCEPT ![w].todo = {}, ![w].passed = @ \cup {job[w].ev}]
      <4> DEFINE j == [job[w] EXCEPT !.todo = {}, !.passed = @ \cup {job[w].ev}]
      <4>1. j \in Job
        BY <2>1 DEF Job
      <4>2. Moves(w, "commitRows", j)
        BY <1>1, <3>1
      <4> HIDE DEF j
      <4> QED
        BY <1>1, <4>1, <4>2, JobsKept
    <3>2. ASSUME NEW e \in Evidence, pc' = pc,
                 job' = [job EXCEPT ![w].todo = rest, ![w].ev = e,
                                    ![w].passed = @ \cup {job[w].ev}]
          PROVE  JobsOK'
      <4> DEFINE j == [job[w] EXCEPT !.todo = rest, !.ev = e, !.passed = @ \cup {job[w].ev}]
      <4>1. rest \subseteq Evidence
        BY <2>1 DEF Job
      <4>2. Moves(w, "row", j)
        BY <1>1, <2>1, <3>2
      <4> HIDE DEF rest
      <4>3. j \in Job /\ j.ev \in Evidence
        BY <2>1, <4>1 DEF Job
      <4> HIDE DEF j
      <4> QED
        BY <1>1, <4>2, <4>3, JobsKept
    <3> QED
      BY <1>5, <3>1, <3>2 DEF LockRow
  <2>3. lock' \in [Evidence -> Worker \cup {None}]
    BY <1>5 DEF LockRow, TypeOK
  <2> QED
    BY <1>5, <2>2, <2>3 DEF LockRow, TypeOK, JobsOK
<1>6. CASE CommitRows(w)
  <2>1. pc[w] = "commitRows" /\ job[w] \in Job
    BY <1>2, <1>6 DEF CommitRows
  <2>2. JobsOK'
    <3>1. CASE Goto(w, "bulkLog") /\ UNCHANGED job
      <4>1. Moves(w, "bulkLog", job[w])
        BY <1>1, <3>1
      <4> QED
        BY <1>1, <2>1, <4>1, JobsKept
    <3> QED
      BY <1>4, <1>6, <3>1 DEF CommitRows
  <2>3. job[w].passed \subseteq Evidence /\ job[w].ts \in Nat
    BY <2>1 DEF Job
  <2>4. lastVerified' \in [Evidence -> Nat] /\ sealed' \in [Evidence -> BOOLEAN]
    BY <1>6, <2>3 DEF CommitRows, TypeOK
  <2>5. \A e \in job[w].passed : Done(w, e) \in [ev: Evidence, ts: Nat, opened: Nat, at: Nat]
    BY <1>3, <1>6, <2>3, <2>4 DEF Done, CommitRows
  <2>6. done' \subseteq [ev: Evidence, ts: Nat, opened: Nat, at: Nat]
    BY <1>6, <2>5 DEF CommitRows, TypeOK
  <2>7. lock' \in [Evidence -> Worker \cup {None}]
    BY <1>6, UnlockType DEF CommitRows, TypeOK
  <2> QED
    BY <1>3, <1>6, <2>2, <2>4, <2>6, <2>7 DEF CommitRows, TypeOK, JobsOK
<1>7. CASE RowsFail(w)
  <2>1. JobsOK' /\ lock' \in [Evidence -> Worker \cup {None}]
    BY <1>4, <1>7, UnlockType DEF RowsFail, TypeOK
  <2> QED
    BY <1>7, <2>1 DEF RowsFail, TypeOK, JobsOK
<1>8. CASE BulkLog(w)
  <2>1. job[w] \in Job /\ job[w].passed \subseteq Evidence
    BY <1>2, <1>8 DEF BulkLog, Job
  <2>2. BulkLogs(w) \subseteq LogEntry
    BY <2>1 DEF BulkLogs, LogEntry
  <2>3. logs' \subseteq LogEntry
    BY <1>8, <2>2 DEF BulkLog, TypeOK
  <2>4. reports' \subseteq Report
    BY <1>8, <2>1 DEF BulkLog, ReportOf, Report, Job, TypeOK
  <2>5. JobsOK'
    BY <1>4, <1>8 DEF BulkLog
  <2> QED
    BY <1>8, <2>3, <2>4, <2>5 DEF BulkLog, TypeOK, JobsOK
<1> QED
  BY <1>5, <1>6, <1>7, <1>8 DEF UpdatingRows

(* Every variable keeps its type, and a request is at an item whenever it  *)
(* is at a step that uses one.                                             *)
THEOREM TypeCorrect == Spec => []TypeOK
<1>1. ASSUME TypeOK, [Next]_vars PROVE TypeOK'
  <2> USE DEF tables, history
  <2>1. JobsOK
    BY <1>1 DEF TypeOK, JobsOK, ItemSteps
  <2>2. ASSUME NEW w \in Worker, Request(w) PROVE TypeOK'
    <3>1. PICK s \in Step, kind \in Kind, S \in SUBSET Evidence, e \in Evidence \cup {0} :
             Begins(w, s, kind, S, e)
      BY <2>2, RequestStep
    <3>2. clock \in Nat /\ clock' = clock + 1
      BY <1>1, <3>1 DEF TypeOK, Begins
    <3>3. NewJob(kind, S, e) \in Job /\ NewJob(kind, S, e).ev = e
      BY <3>2, NewJobs
    <3>4. s \in ItemSteps => e \in Evidence
      BY <3>1 DEF Begins, ItemSteps
    <3>5. Moves(w, s, NewJob(kind, S, e))
      BY <3>1 DEF Begins
    <3>6. JobsOK'
      BY <2>1, <3>3, <3>4, <3>5, JobsKept
    <3>7. closed' \in BOOLEAN
      BY <1>1, <3>1 DEF TypeOK, Begins
    <3> QED
      BY <1>1, <3>1, <3>2, <3>6, <3>7 DEF TypeOK, JobsOK, ItemSteps, Begins
  <2>3. ASSUME NEW w \in Worker, Crash(w) PROVE TypeOK'
    <3>1. Moves(w, "idle", NoJob)
      BY <2>3 DEF Crash, Respond, Moves
    <3>2. JobsOK'
      BY <2>1, <3>1, JobsKept DEF Step
    <3>3. lock' \in [Evidence -> Worker \cup {None}]
      BY <1>1, <2>3, UnlockType DEF Crash, TypeOK
    <3>4. rolledBack' \subseteq Nat
      BY <1>1, <2>3 DEF Crash, TypeOK, Job
    <3> QED
      BY <1>1, <2>3, <3>2, <3>3, <3>4 DEF Crash, TypeOK, JobsOK, ItemSteps
  <2>4. CASE Quiet \/ UNCHANGED vars
    BY <1>1, <2>4 DEF Quiet, vars, TypeOK
  <2> QED
    BY <1>1, <2>2, <2>3, <2>4, TypeVerifying, TypeUpdating DEF Next, Continue
<1> QED
  BY <1>1, TypeStarts, PTL DEF Spec

-----------------------------------------------------------------------------
(* The steps that change the local variables of a request that goes on.    *)
Others(w) == \A v \in Worker \ {w} : pc'[v] = pc[v] /\ job'[v] = job[v]

LEMMA OthersStay ==
    ASSUME TypeOK, NEW w \in Worker, Continue(w) \/ Crash(w)
    PROVE  Others(w)
<1> USE DEF Goto, Respond, Others
<1>1. pc \in [Worker -> Step] /\ job \in [Worker -> {NoJob} \cup Job]
  BY DEF TypeOK
<1>2. CASE BeginVerification(w) \/ WriteEvent(w) \/ Update(w)
  BY <1>1, <1>2 DEF BeginVerification, WriteEvent, Update
<1>3. CASE CommitVerification(w) \/ VerificationFails(w) \/ LogVerification(w) \/ Answer(w)
  BY <1>1, <1>3 DEF CommitVerification, VerificationFails, LogVerification, Answer
<1>4. CASE LockRow(w) \/ CommitRows(w) \/ RowsFail(w) \/ BulkLog(w) \/ Crash(w)
  BY <1>1, <1>4 DEF LockRow, CommitRows, RowsFail, BulkLog, Crash
<1> QED
  BY <1>2, <1>3, <1>4 DEF Continue, Verifying, UpdatingRows

LEMMA BeginVerificationStep ==
    ASSUME TypeOK, NEW w \in Worker, BeginVerification(w)
    PROVE  /\ pc[w] = "next" /\ job[w] \in Job /\ clock' = clock + 1
           /\ UNCHANGED <<tables, events, logs, lock, history>>
           /\ job'[w].kind = job[w].kind /\ job'[w].began = job[w].began
           /\ job'[w].passed = job[w].passed
           /\ \/ /\ pc'[w] = "event" /\ job'[w].id = nextId /\ nextId' = nextId + 1
                 /\ job'[w].ts = clock + 1
              \/ /\ pc'[w] = "update" /\ job'[w].id = 0 /\ nextId' = nextId
                 /\ job'[w].ts = clock + 1
              \/ pc'[w] = "next" /\ nextId' = nextId /\ job'[w].ts = job[w].ts
<1> USE DEF Goto, Tick
<1>1. /\ pc[w] = "next" /\ job[w] \in Job /\ DOMAIN job = Worker /\ clock' = clock + 1
      /\ UNCHANGED <<tables, events, logs, lock, history>> /\ pc \in [Worker -> Step]
  BY DEF BeginVerification, TypeOK
<1>2. PICK e \in Evidence :
         \/ /\ job'[w] = [job[w] EXCEPT !.todo = @ \ {e}, !.ev = e,
                                        !.id = nextId, !.ts = clock + 1]
            /\ nextId' = nextId + 1
            /\ pc'[w] = "event"
         \/ /\ job'[w] = [job[w] EXCEPT !.todo = @ \ {e}, !.ev = e, !.id = 0, !.ts = clock + 1]
            /\ pc'[w] = "update" /\ UNCHANGED nextId
         \/ /\ job'[w] = [job[w] EXCEPT !.todo = @ \ {e}]
            /\ pc'[w] = "next" /\ UNCHANGED nextId
  BY <1>1 DEF BeginVerification
<1> QED
  BY <1>1, <1>2 DEF Job

LEMMA LogVerificationStep ==
    ASSUME TypeOK, NEW w \in Worker, LogVerification(w)
    PROVE  /\ pc[w] = "log" /\ pc'[w] = "next" /\ job[w] \in Job
           /\ UNCHANGED <<clock, tables, nextId, events, lock, history>>
           /\ job'[w].kind = job[w].kind /\ job'[w].began = job[w].began
           /\ job'[w].id = job[w].id /\ job'[w].ts = job[w].ts
           /\ job'[w].passed \subseteq job[w].passed \cup {job[w].ev}
<1>1. pc[w] = "log" /\ job[w] \in Job /\ DOMAIN job = Worker /\ pc \in [Worker -> Step]
  BY DEF LogVerification, TypeOK
<1>2. job'[w] = job[w] \/ job'[w] = [job[w] EXCEPT !.passed = @ \cup {job[w].ev}]
  BY <1>1 DEF LogVerification
<1> QED
  BY <1>1, <1>2 DEF LogVerification, Job, Goto

LEMMA LockRowStep ==
    ASSUME TypeOK, NEW w \in Worker, LockRow(w)
    PROVE  /\ pc[w] = "row" /\ job[w] \in Job /\ lock[job[w].ev] = None /\ job[w].ev \in Evidence
           /\ UNCHANGED <<clock, tables, nextId, events, logs, history>>
           /\ job'[w].kind = job[w].kind /\ job'[w].began = job[w].began
           /\ job'[w].id = job[w].id /\ job'[w].ts = job[w].ts
           /\ job'[w].passed = job[w].passed \cup {job[w].ev}
           /\ \A e \in Evidence : lock'[e] = lock[e] \/ (e = job[w].ev /\ lock'[e] = w)
           /\ \/ pc'[w] = "commitRows"
              \/ /\ pc'[w] = "row" /\ job'[w].todo = job[w].todo \ {job[w].ev}
                 /\ job'[w].ev \in Evidence
                 /\ ComesNext(job[w].kind, job'[w].ev, job[w].todo \ {job[w].ev})
<1>1. /\ pc[w] = "row" /\ job[w] \in Job /\ job[w].ev \in Evidence /\ lock[job[w].ev] = None
      /\ DOMAIN job = Worker /\ pc \in [Worker -> Step]
      /\ lock \in [Evidence -> Worker \cup {None}]
      /\ UNCHANGED <<clock, tables, nextId, events, logs, history>>
  BY DEF LockRow, TypeOK
<1>2. \A e \in Evidence : lock'[e] = lock[e] \/ (e = job[w].ev /\ lock'[e] = w)
  BY <1>1 DEF LockRow
<1> DEFINE rest == job[w].todo \ {job[w].ev}
           passed == job[w].passed \cup {job[w].ev}
<1>3. \/ /\ pc'[w] = "commitRows"
         /\ job'[w] = [job[w] EXCEPT !.todo = {}, !.passed = passed]
      \/ \E e \in Evidence : /\ pc'[w] = "row" /\ ComesNext(job[w].kind, e, rest)
                             /\ job'[w] = [job[w] EXCEPT !.todo = rest, !.ev = e, !.passed = passed]
  BY <1>1 DEF LockRow, Goto
<1> HIDE DEF rest, passed
<1>4. /\ job'[w].kind = job[w].kind /\ job'[w].began = job[w].began
      /\ job'[w].id = job[w].id /\ job'[w].ts = job[w].ts
      /\ job'[w].passed = passed
      /\ \/ pc'[w] = "commitRows"
         \/ /\ pc'[w] = "row" /\ job'[w].todo = rest /\ job'[w].ev \in Evidence
            /\ ComesNext(job[w].kind, job'[w].ev, rest)
  BY <1>1, <1>3 DEF Job
<1> QED
  BY <1>1, <1>2, <1>4 DEF rest, passed

-----------------------------------------------------------------------------
(* The rows a transaction has updated: one at a time, or those it has come *)
(* to; and a bulk verification has come to its rows in their order.        *)
LocksOf(w) ==
    \A e \in Evidence : lock[e] = w =>
        \/ pc[w] = "commit"
        \/ pc[w] \in {"row", "commitRows"} /\ e \in job[w].passed

InOrder(w) ==
    pc[w] = "row" =>
        /\ job[w].kind \in {"bulk", "seal"}
        /\ job[w].kind = "bulk" =>
              /\ job[w].ev \in job[w].todo /\ \A f \in job[w].todo : job[w].ev =< f
              /\ \A e \in job[w].passed : e < job[w].ev

LockInv == \A w \in Worker : LocksOf(w) /\ InOrder(w)

LEMMA LocksPassOn ==
    ASSUME LockInv, NEW w \in Worker, Others(w), LocksOf(w)', InOrder(w)',
           \A e \in Evidence : lock'[e] \in {lock[e], w, None}
    PROVE  LockInv'
<1>1. ASSUME NEW v \in Worker \ {w} PROVE LocksOf(v)' /\ InOrder(v)'
  <2>1. \A e \in Evidence : lock'[e] = v => lock[e] = v
    BY VerificationAssumption
  <2>2. LocksOf(v)'
    BY <2>1 DEF LockInv, LocksOf, Others
  <2>3. InOrder(v)'
    BY DEF LockInv, InOrder, Others
  <2> QED
    BY <2>2, <2>3
<1> QED
  BY <1>1 DEF LockInv

(* A step at whose end the request holds nothing. *)
LEMMA LocksDropped ==
    ASSUME TypeOK, LockInv, NEW w \in Worker, Others(w), pc'[w] # "row",
           Unlock(w) \/ (pc[w] \notin {"commit", "row", "commitRows"} /\ lock' = lock)
    PROVE  LockInv'
<1>1. lock \in [Evidence -> Worker \cup {None}]
  BY DEF TypeOK
<1>2. \A e \in Evidence : lock'[e] \in {lock[e], None} /\ lock'[e] # w
  BY <1>1, VerificationAssumption DEF Unlock, LockInv, LocksOf
<1>3. LocksOf(w)' /\ InOrder(w)'
  BY <1>2 DEF LocksOf, InOrder
<1> QED
  BY <1>2, <1>3, LocksPassOn

LEMMA LocksInductive == TypeOK /\ LockInv /\ [Next]_vars => LockInv'
<1> SUFFICES ASSUME TypeOK, LockInv, [Next]_vars PROVE LockInv'
  OBVIOUS
<1> USE DEF Goto
<1>1. pc \in [Worker -> Step] /\ job \in [Worker -> {NoJob} \cup Job]
  BY DEF TypeOK
<1>2. ASSUME NEW w \in Worker, Request(w) PROVE LockInv'
  <2>1. PICK s \in Step, kind \in Kind, S \in SUBSET Evidence, e \in Evidence \cup {0} :
           Begins(w, s, kind, S, e)
    BY <1>2, RequestStep
  <2>2. clock \in Nat
    BY DEF TypeOK
  <2>3. /\ pc[w] = "idle" /\ pc'[w] = s /\ job'[w] = NewJob(kind, S, e) /\ lock' = lock
        /\ Others(w)
    BY <1>1, <2>1 DEF Begins, Moves, Others
  <2>4. /\ job'[w].kind = kind /\ job'[w].todo = S /\ job'[w].ev = e /\ job'[w].passed = {}
    BY <2>2, <2>3, NewJobs
  <2>5. s = "row" => kind \in {"bulk", "seal"} /\ e \in Evidence /\ ComesNext(kind, e, S)
    BY <2>1 DEF Begins
  <2>6. InOrder(w)'
    BY <2>3, <2>4, <2>5 DEF InOrder, ComesNext
  <2>7. LocksOf(w)'
    BY <2>3 DEF LockInv, LocksOf
  <2> QED
    BY <2>3, <2>6, <2>7, LocksPassOn
<1>3. ASSUME NEW w \in Worker, Continue(w) \/ Crash(w) PROVE Others(w)
  BY <1>3, OthersStay
<1>4. ASSUME NEW w \in Worker,
             BeginVerification(w) \/ WriteEvent(w) \/ LogVerification(w) \/ Answer(w) \/ BulkLog(w)
      PROVE  LockInv'
  <2>1. Others(w)
    BY <1>3, <1>4 DEF Continue, Verifying, UpdatingRows
  <2>2. pc[w] \notin {"commit", "row", "commitRows"} /\ lock' = lock /\ pc'[w] # "row"
    <3>1. CASE BeginVerification(w)
      BY <3>1, BeginVerificationStep
    <3>2. CASE WriteEvent(w) \/ LogVerification(w) \/ Answer(w) \/ BulkLog(w)
      BY <1>1, <3>2 DEF WriteEvent, LogVerification, Answer, BulkLog, Respond
    <3> QED
      BY <1>4, <3>1, <3>2
  <2> QED
    BY <2>1, <2>2, LocksDropped
<1>5. ASSUME NEW w \in Worker,
             CommitVerification(w) \/ VerificationFails(w) \/ CommitRows(w) \/ RowsFail(w) \/ Crash(w)
      PROVE  LockInv'
  <2>1. Others(w)
    BY <1>3, <1>5 DEF Continue, Verifying, UpdatingRows
  <2>2. Unlock(w) /\ pc'[w] # "row"
    BY <1>1, <1>5 DEF CommitVerification, VerificationFails, CommitRows, RowsFail, Crash, Respond
  <2> QED
    BY <2>1, <2>2, LocksDropped
<1>6. ASSUME NEW w \in Worker, Update(w) PROVE LockInv'
  <2>1. Others(w)
    BY <1>3, <1>6 DEF Continue, Verifying
  <2>2. pc'[w] = "commit" /\ \A e \in Evidence : lock'[e] \in {lock[e], w}
    BY <1>1, <1>6 DEF Update, TypeOK
  <2> QED
    BY <2>1, <2>2, LocksPassOn DEF LocksOf, InOrder
<1>7. ASSUME NEW w \in Worker, LockRow(w) PROVE LockInv'
  <2>1. Others(w)
    BY <1>3, <1>7 DEF Continue, UpdatingRows
  <2>2. /\ pc[w] = "row" /\ job[w] \in Job /\ job[w].ev \in Evidence
        /\ job'[w].kind = job[w].kind
        /\ job'[w].passed = job[w].passed \cup {job[w].ev}
        /\ \A e \in Evidence : lock'[e] = lock[e] \/ (e = job[w].ev /\ lock'[e] = w)
        /\ \/ pc'[w] = "commitRows"
           \/ /\ pc'[w] = "row" /\ job'[w].todo = job[w].todo \ {job[w].ev}
              /\ job'[w].ev \in Evidence
              /\ ComesNext(job[w].kind, job'[w].ev, job[w].todo \ {job[w].ev})
    BY <1>7, LockRowStep
  <2>3. LocksOf(w)'
    BY <2>2 DEF LockInv, LocksOf
  <2>4. InOrder(w)'
    <3> SUFFICES ASSUME pc'[w] = "row" PROVE InOrder(w)'
      BY DEF InOrder
    <3>1. InOrder(w) /\ job[w].todo \subseteq Nat /\ job[w].passed \subseteq Nat /\ job[w].ev \in Nat
      BY <2>2, VerificationAssumption DEF LockInv, Job
    <3>2. /\ job'[w].todo = job[w].todo \ {job[w].ev} /\ job'[w].ev \in Nat
          /\ ComesNext(job[w].kind, job'[w].ev, job[w].todo \ {job[w].ev})
      BY <2>2, VerificationAssumption
    <3>3. CASE job[w].kind = "bulk"
      <4>1. /\ \A f \in job[w].todo : job[w].ev =< f
            /\ \A e \in job[w].passed : e < job[w].ev
        BY <2>2, <3>1, <3>3 DEF InOrder
      <4>2. job'[w].ev \in job'[w].todo /\ \A f \in job'[w].todo : job'[w].ev =< f
        BY <3>2, <3>3 DEF ComesNext
      <4>3. job[w].ev < job'[w].ev
        BY <3>1, <3>2, <4>1, <4>2
      <4>4. \A e \in job'[w].passed : e < job'[w].ev
        BY <2>2, <3>1, <3>2, <4>1, <4>3
      <4> QED
        BY <2>2, <3>3, <4>2, <4>4 DEF InOrder
    <3>4. CASE job[w].kind # "bulk"
      BY <2>2, <3>1, <3>4 DEF InOrder
    <3> QED
      BY <3>3, <3>4
  <2> QED
    BY <2>1, <2>2, <2>3, <2>4, LocksPassOn
<1>8. CASE Quiet \/ UNCHANGED vars
  BY <1>8 DEF Quiet, vars, LockInv, LocksOf, InOrder
<1> QED
  BY <1>2, <1>4, <1>5, <1>6, <1>7, <1>8 DEF Next, Continue, Verifying, UpdatingRows

(* Verifications never wait for each other in a cycle: wherever requests   *)
(* do, one of them is the auto-seal of a case.                             *)
THEOREM DeadlocksCorrect == Spec => []OnlySealsDeadlock
<1>1. Init => LockInv
  BY VerificationAssumption DEF Init, LockInv, LocksOf, InOrder
<1>2. TypeOK /\ LockInv => OnlySealsDeadlock
  <2> SUFFICES ASSUME TypeOK, LockInv, NEW w \in Worker, Deadlocked(w),
                      \A u \in Worker : ~(pc[u] = "row" /\ job[u].kind = "seal")
               PROVE  FALSE
    BY DEF OnlySealsDeadlock
  <2>1. PICK S \in SUBSET Worker : w \in S /\ \A v \in S : \E u \in S : WaitsFor(v, u)
    BY DEF Deadlocked
  <2>2. \A v \in S : pc[v] \in {"update", "row"} /\ job[v].ev \in Evidence
    BY <2>1 DEF WaitsFor, TypeOK, Step
  <2>3. ASSUME NEW v \in S PROVE \E u \in S : job[v].ev < job[u].ev
    <3>1. PICK u \in S : lock[job[v].ev] = u
      BY <2>1 DEF WaitsFor
    <3>2. pc[u] = "row" /\ job[v].ev \in job[u].passed
      BY <2>2, <3>1 DEF LockInv, LocksOf
    <3>3. job[u].kind = "bulk"
      BY <3>2 DEF LockInv, InOrder
    <3> QED
      BY <3>2, <3>3 DEF LockInv, InOrder
  <2> DEFINE M == {job[v].ev : v \in S}
  <2>4. M \subseteq Evidence /\ M # {} /\ M \in SUBSET Nat
    BY <2>1, <2>2, VerificationAssumption
  <2>5. \A m \in M : \E x \in M : m < x
    BY <2>3
  <2> HIDE DEF M
  <2>6. IsFiniteSet(M)
    BY <2>4, VerificationAssumption, FS_Subset
  <2>7. PICK m \in M : \A x \in M : x =< m
    BY <2>4, <2>6, Greatest
  <2> QED
    BY <2>4, <2>5, <2>7
<1> QED
  BY <1>1, <1>2, LocksInductive, TypeCorrect, PTL DEF Spec

-----------------------------------------------------------------------------
(* The time of a transaction is not in the future, and not before its      *)
(* request began; what has passed is committed once the transaction is,    *)
(* which for an engine's request is item by item.                          *)
DoneSince(e, t) == \E v \in done : v.ev = e /\ t =< v.ts

EngineSteps == {"next", "event", "update", "commit", "log"}

PassesOf(w) ==
    pc[w] # "idle" =>
        /\ job[w].began =< job[w].ts /\ job[w].ts =< clock
        /\ pc[w] \in EngineSteps \cup {"bulkLog"} =>
              \A e \in job[w].passed : DoneSince(e, job[w].began)
        /\ pc[w] = "log" => DoneSince(job[w].ev, job[w].began)

PassedInv == (\A w \in Worker : PassesOf(w)) /\ PassedIsCommitted

LEMMA PassesKept ==
    ASSUME TypeOK, PassedInv, NEW w \in Worker, Others(w), PassesOf(w)',
           clock' \in {clock, clock + 1}, done \subseteq done',
           \/ reports' = reports
           \/ /\ reports' = reports \cup {ReportOf(w)}
              /\ pc[w] \in EngineSteps \cup {"bulkLog"}
    PROVE  PassedInv'
<1>1. \A e, t : DoneSince(e, t) => DoneSince(e, t)'
  BY DEF DoneSince
<1>2. ASSUME NEW v \in Worker \ {w} PROVE PassesOf(v)'
  <2> SUFFICES ASSUME pc[v] # "idle" PROVE PassesOf(v)'
    BY DEF PassesOf, Others
  <2>1. job[v] \in Job /\ clock \in Nat /\ job[v].ts \in Nat
    BY DEF TypeOK, Job
  <2>2. job[v].ts =< clock'
    BY <2>1 DEF PassedInv, PassesOf
  <2> QED
    BY <1>1, <2>2 DEF PassedInv, PassesOf, Others
<1>3. PassedIsCommitted'
  <2>1. \A e \in ReportOf(w).passed :
           pc[w] \in EngineSteps \cup {"bulkLog"} => DoneSince(e, ReportOf(w).began)
    BY DEF PassedInv, PassesOf, ReportOf, EngineSteps
  <2>2. \A r \in reports : \A e \in r.passed : DoneSince(e, r.began)
    BY DEF PassedInv, PassedIsCommitted, DoneSince
  <2>3. \A r \in reports' : \A e \in r.passed : DoneSince(e, r.began)'
    BY <1>1, <2>1, <2>2
  <2> QED
    BY <2>3 DEF PassedIsCommitted, DoneSince
<1> QED
  BY <1>2, <1>3 DEF PassedInv

LEMMA PassedInductive == TypeOK /\ PassedInv /\ [Next]_vars => PassedInv'
<1> SUFFICES ASSUME TypeOK, PassedInv, [Next]_vars PROVE PassedInv'
  OBVIOUS
<1> USE DEF Goto, history, Tick
<1>1. pc \in [Worker -> Step] /\ job \in [Worker -> {NoJob} \cup Job] /\ clock \in Nat
  BY DEF TypeOK
<1>2. ASSUME NEW w \in Worker, Request(w) PROVE PassedInv'
  <2>1. PICK s \in Step, kind \in Kind, S \in SUBSET Evidence, e \in Evidence \cup {0} :
           Begins(w, s, kind, S, e)
    BY <1>2, RequestStep
  <2>2. /\ clock' = clock + 1 /\ UNCHANGED <<done, reports>> /\ Others(w)
        /\ pc'[w] = s /\ s # "log" /\ job'[w] = NewJob(kind, S, e)
    BY <1>1, <2>1 DEF Begins, Moves, Others
  <2>3. PassesOf(w)'
    BY <1>1, <2>2, NewJobs DEF PassesOf
  <2> QED
    BY <2>2, <2>3, PassesKept
<1>3. ASSUME NEW w \in Worker, Continue(w) \/ Crash(w) PROVE Others(w)
  BY <1>3, OthersStay
<1>4. ASSUME NEW w \in Worker, pc[w] # "idle"
      PROVE  /\ job[w] \in Job /\ job[w].began \in Nat /\ job[w].ts \in Nat
             /\ job[w].began =< job[w].ts /\ job[w].ts =< clock /\ job[w].passed \subseteq Evidence
  BY <1>4 DEF PassedInv, PassesOf, TypeOK, Job
<1>5. ASSUME NEW w \in Worker, BeginVerification(w) PROVE PassedInv'
  <2>1. /\ pc[w] = "next" /\ clock' = clock + 1 /\ UNCHANGED <<done, reports>>
        /\ job'[w].began = job[w].began /\ job'[w].passed = job[w].passed
        /\ pc'[w] \in {"event", "update", "next"} /\ job'[w].ts \in {clock + 1, job[w].ts}
    BY <1>5, BeginVerificationStep
  <2>2. job'[w].began =< job'[w].ts /\ job'[w].ts =< clock'
    BY <1>1, <1>4, <2>1
  <2>3. PassesOf(w)'
    BY <2>1, <2>2 DEF PassedInv, PassesOf, EngineSteps, DoneSince
  <2> QED
    BY <1>3, <1>5, <2>1, <2>3, PassesKept DEF Continue, Verifying
<1>6. ASSUME NEW w \in Worker, WriteEvent(w) \/ Update(w) \/ VerificationFails(w) PROVE PassedInv'
  <2>1. /\ UNCHANGED <<done, reports, clock, job>> /\ pc[w] \in EngineSteps
        /\ pc'[w] \in {"update", "commit", "next"}
    BY <1>1, <1>6 DEF WriteEvent, Update, VerificationFails, EngineSteps
  <2>2. PassesOf(w)'
    BY <2>1 DEF PassedInv, PassesOf, EngineSteps, DoneSince
  <2> QED
    BY <1>3, <1>6, <2>1, <2>2, PassesKept DEF Continue, Verifying
<1>7. ASSUME NEW w \in Worker, CommitVerification(w) PROVE PassedInv'
  <2>1. /\ UNCHANGED <<reports, job>> /\ pc[w] = "commit" /\ clock' = clock + 1
        /\ pc'[w] \in {"log", "next"} /\ done' = done \cup {Done(w, job[w].ev)}
        /\ lastVerified' = [lastVerified EXCEPT ![job[w].ev] = job[w].ts]
    BY <1>1, <1>7 DEF CommitVerification
  <2>2. job[w].ev \in Evidence /\ lastVerified \in [Evidence -> Nat]
    BY <2>1 DEF TypeOK, Step
  <2>3. Done(w, job[w].ev).ev = job[w].ev /\ Done(w, job[w].ev).ts = job[w].ts
    BY <2>1, <2>2 DEF Done
  <2>4. DoneSince(job[w].ev, job[w].began)'
    BY <1>4, <2>1, <2>3 DEF DoneSince
  <2>5. job[w].ts =< clock'
    BY <1>1, <1>4, <2>1
  <2>6. \A e \in job[w].passed : DoneSince(e, job[w].began)'
    BY <2>1 DEF PassedInv, PassesOf, EngineSteps, DoneSince
  <2>7. PassesOf(w)'
    BY <1>4, <2>1, <2>4, <2>5, <2>6 DEF PassesOf, DoneSince
  <2> QED
    BY <1>3, <1>7, <2>1, <2>7, PassesKept DEF Continue, Verifying
<1>8. ASSUME NEW w \in Worker, LogVerification(w) PROVE PassedInv'
  <2>1. /\ UNCHANGED <<done, reports, clock>> /\ pc[w] = "log" /\ pc'[w] = "next"
        /\ job'[w].began = job[w].began /\ job'[w].ts = job[w].ts
        /\ job'[w].passed \subseteq job[w].passed \cup {job[w].ev}
    BY <1>8, LogVerificationStep
  <2>2. PassesOf(w)'
    BY <2>1 DEF PassedInv, PassesOf, EngineSteps, DoneSince
  <2> QED
    BY <1>3, <1>8, <2>1, <2>2, PassesKept DEF Continue, Verifying
<1>9. ASSUME NEW w \in Worker, Answer(w) \/ BulkLog(w) PROVE PassedInv'
  <2>1. /\ UNCHANGED <<done, clock>> /\ pc[w] \in EngineSteps \cup {"bulkLog"} /\ pc'[w] = "idle"
        /\ reports' = reports \cup {ReportOf(w)}
    BY <1>1, <1>9 DEF Answer, BulkLog, Respond, EngineSteps
  <2>2. PassesOf(w)'
    BY <2>1 DEF PassesOf
  <2> QED
    BY <1>3, <1>9, <2>1, <2>2, PassesKept DEF Continue, Verifying, UpdatingRows
<1>10. ASSUME NEW w \in Worker, LockRow(w) PROVE PassedInv'
  <2>1. /\ UNCHANGED <<done, reports, clock>> /\ pc[w] = "row" /\ pc'[w] \in {"row", "commitRows"}
        /\ job'[w].began = job[w].began /\ job'[w].ts = job[w].ts
    BY <1>10, LockRowStep
  <2>2. PassesOf(w)'
    BY <2>1 DEF PassedInv, PassesOf, EngineSteps
  <2> QED
    BY <1>3, <1>10, <2>1, <2>2, PassesKept DEF Continue, UpdatingRows
<1>11. ASSUME NEW w \in Worker, CommitRows(w) PROVE PassedInv'
  <2>1. pc[w] = "commitRows" /\ clock' = clock + 1 /\ reports' = reports
    BY <1>11 DEF CommitRows
  <2>2. CASE pc'[w] = "idle" /\ done \subseteq done'
    <3>1. PassesOf(w)'
      BY <2>2 DEF PassesOf
    <3> QED
      BY <1>3, <1>11, <2>1, <2>2, <3>1, PassesKept DEF Continue, UpdatingRows
  <2>3. CASE /\ lastVerified' = [e \in Evidence |->
                                   IF e \in job[w].passed THEN job[w].ts ELSE lastVerified[e]]
             /\ done' = done \cup {Done(w, e) : e \in job[w].passed}
             /\ Goto(w, "bulkLog") /\ UNCHANGED job
    <3>1. \A e \in job[w].passed : Done(w, e).ev = e /\ Done(w, e).ts = job[w].ts
      BY <1>4, <2>1, <2>3 DEF Done
    <3>2. \A e \in job[w].passed : DoneSince(e, job[w].began)'
      BY <1>4, <2>1, <2>3, <3>1 DEF DoneSince
    <3>3. job[w].ts =< clock'
      BY <1>1, <1>4, <2>1
    <3>4. pc'[w] = "bulkLog"
      BY <1>1, <2>3
    <3>5. PassesOf(w)'
      BY <1>4, <2>1, <2>3, <3>2, <3>3, <3>4 DEF PassesOf, DoneSince
    <3> QED
      BY <1>3, <1>11, <2>1, <2>3, <3>5, PassesKept DEF Continue, UpdatingRows
  <2> QED
    BY <1>1, <1>11, <2>2, <2>3 DEF CommitRows, Respond
<1>12. ASSUME NEW w \in Worker, RowsFail(w) \/ Crash(w) PROVE PassedInv'
  <2>1. UNCHANGED <<done, reports, clock>> /\ pc'[w] = "idle"
    BY <1>1, <1>12 DEF RowsFail, Crash, Respond
  <2>2. PassesOf(w)'
    BY <2>1 DEF PassesOf
  <2> QED
    BY <1>3, <1>12, <2>1, <2>2, PassesKept DEF Continue, UpdatingRows
<1>13. CASE Quiet \/ UNCHANGED vars
  BY <1>13 DEF Quiet, vars, PassedInv, PassesOf, DoneSince, PassedIsCommitted
<1> QED
  BY <1>2, <1>5, <1>6, <1>7, <1>8, <1>9, <1>10, <1>11, <1>12, <1>13
     DEF Next, Continue, Verifying, UpdatingRows

LEMMA PassedHolds == Spec => []PassedInv
<1>1. Init => PassedInv
  BY DEF Init, PassedInv, PassesOf, PassedIsCommitted
<1> QED
  BY <1>1, PassedInductive, TypeCorrect, PTL DEF Spec

(* What a client is told has passed was verified since it asked, whatever  *)
(* failed in between.                                                      *)
THEOREM PassedCorrect == Spec => []PassedIsCommitted
<1>1. PassedInv => PassedIsCommitted
  BY DEF PassedInv
<1> QED
  BY <1>1, PassedHolds, PTL

-----------------------------------------------------------------------------
(* What is committed is not later than the commit, which is not in the     *)
(* future.                                                                 *)
BackInv ==
    /\ GoesBackOnlyByOverlap
    /\ \A v \in done : v.ts =< v.at /\ v.at =< clock

(* It is kept by a commit, now, that writes one time to some of the rows,  *)
(* the time at which its transaction was opened.                           *)
LEMMA BackCommits ==
    ASSUME TypeOK, BackInv, NEW ts \in Nat, ts =< clock, NEW S \in SUBSET Evidence,
           clock' = clock + 1,
           lastVerified' = [e \in Evidence |-> IF e \in S THEN ts ELSE lastVerified[e]],
           done' = done \cup {[ev |-> e, ts |-> ts, opened |-> ts, at |-> clock + 1] : e \in S}
    PROVE  BackInv'
<1>1. /\ clock \in Nat /\ lastVerified \in [Evidence -> Nat]
      /\ done \subseteq [ev: Evidence, ts: Nat, opened: Nat, at: Nat]
  BY DEF TypeOK
<1> DEFINE new(e) == [ev |-> e, ts |-> ts, opened |-> ts, at |-> clock + 1]
<1>2. \A e \in S : /\ new(e).ev = e /\ new(e).ts = ts /\ new(e).opened = ts
                   /\ new(e).at = clock + 1 /\ new(e) \in done'
  OBVIOUS
<1>3. \A v \in done' : v \in done \/ \E e \in S : v = new(e)
  OBVIOUS
<1>4. \A v \in done : v.ev \in Evidence /\ v.ts \in Nat /\ v.at \in Nat /\ v \in done'
  BY <1>1
<1>5. \A v \in done : v.ts =< v.at /\ v.at =< clock
  BY DEF BackInv
<1> HIDE DEF new
<1>6. ASSUME NEW v \in done'
      PROVE  /\ \/ v.ts =< lastVerified'[v.ev]
                \/ \E u \in done' : /\ u.ev = v.ev /\ u.ts = lastVerified'[v.ev]
                                    /\ u.opened < v.at /\ v.at < u.at
             /\ v.ts =< v.at /\ v.at =< clock'
  <2>1. CASE v \in done /\ v.ev \notin S
    <3>1. lastVerified'[v.ev] = lastVerified[v.ev]
      BY <1>4, <2>1
    <3> QED
      BY <1>1, <1>4, <1>5, <2>1, <3>1 DEF BackInv, GoesBackOnlyByOverlap
  <2>2. CASE v \in done /\ v.ev \in S
    <3>1. lastVerified'[v.ev] = ts
      BY <1>4, <2>2
    <3>2. v.ts \in Nat /\ v.at \in Nat /\ v.ts =< v.at /\ v.at =< clock
      BY <1>4, <1>5, <2>2
    <3>3. v.at < clock + 1 /\ v.at =< clock' /\ (v.ts =< ts \/ ts < v.at)
      BY <1>1, <3>2
    <3> QED
      BY <1>2, <2>2, <3>1, <3>2, <3>3
  <2>3. ASSUME NEW e \in S, v = new(e)
        PROVE  v.ts =< lastVerified'[v.ev] /\ v.ts =< v.at /\ v.at =< clock'
    <3>1. v.ts = ts /\ v.at = clock + 1 /\ lastVerified'[v.ev] = ts
      BY <1>2, <2>3
    <3> QED
      BY <1>1, <3>1
  <2> QED
    BY <1>3, <2>1, <2>2, <2>3
<1> QED
  BY <1>6 DEF BackInv, GoesBackOnlyByOverlap

LEMMA BackInductive == TypeOK /\ PassedInv /\ BackInv /\ [Next]_vars => BackInv'
<1> SUFFICES ASSUME TypeOK, PassedInv, BackInv, [Next]_vars PROVE BackInv'
  OBVIOUS
<1> USE DEF history, Tick, tables
<1>1. clock \in Nat /\ done \subseteq [ev: Evidence, ts: Nat, opened: Nat, at: Nat]
  BY DEF TypeOK
<1>2. ASSUME UNCHANGED <<lastVerified, done>>, clock' \in {clock, clock + 1} PROVE BackInv'
  <2>1. \A v \in done : v.at \in Nat
    BY <1>1
  <2>2. \A v \in done : v.ts =< v.at /\ v.at =< clock'
    BY <1>1, <1>2, <2>1 DEF BackInv
  <2> QED
    BY <1>2, <2>2 DEF BackInv, GoesBackOnlyByOverlap
<1>3. ASSUME NEW w \in Worker, Request(w) PROVE BackInv'
  BY <1>2, <1>3, RequestStep, ZenonT(30) DEF Begins
<1>4. ASSUME NEW w \in Worker, Verifying(w), ~CommitVerification(w) PROVE BackInv'
  BY <1>2, <1>4 DEF Verifying, BeginVerification, WriteEvent, Update, VerificationFails,
                    LogVerification, Answer
<1>5. ASSUME NEW w \in Worker, CommitVerification(w) PROVE BackInv'
  <2>1. pc[w] = "commit" /\ job[w] \in Job /\ job[w].ev \in Evidence
        /\ lastVerified \in [Evidence -> Nat] /\ clock' = clock + 1
        /\ lastVerified' = [lastVerified EXCEPT ![job[w].ev] = job[w].ts]
        /\ done' = done \cup {Done(w, job[w].ev)}
    BY <1>5 DEF CommitVerification, TypeOK, Step
  <2>2. job[w].ts \in Nat /\ job[w].ts =< clock
    BY <2>1 DEF PassedInv, PassesOf, Job
  <2>3. lastVerified' = [e \in Evidence |-> IF e \in {job[w].ev} THEN job[w].ts ELSE lastVerified[e]]
    BY <2>1
  <2>4. Done(w, job[w].ev) =
           [ev |-> job[w].ev, ts |-> job[w].ts, opened |-> job[w].ts, at |-> clock + 1]
    BY <2>1 DEF Done
  <2>5. done' = done \cup {[ev |-> e, ts |-> job[w].ts, opened |-> job[w].ts, at |-> clock + 1] :
                              e \in {job[w].ev}}
    BY <2>1, <2>4
  <2>6. {job[w].ev} \in SUBSET Evidence
    BY <2>1
  <2> QED
    BY <2>1, <2>2, <2>3, <2>5, <2>6, BackCommits
<1>6. ASSUME NEW w \in Worker, CommitRows(w) PROVE BackInv'
  <2>1. pc[w] = "commitRows" /\ job[w] \in Job /\ clock' = clock + 1
    BY <1>6 DEF CommitRows, TypeOK
  <2>2. job[w].ts \in Nat /\ job[w].ts =< clock /\ job[w].passed \in SUBSET Evidence
    BY <2>1 DEF PassedInv, PassesOf, Job
  <2>3. CASE /\ lastVerified' = [e \in Evidence |->
                                   IF e \in job[w].passed THEN job[w].ts ELSE lastVerified[e]]
             /\ done' = done \cup {Done(w, e) : e \in job[w].passed}
    <3>1. \A e \in job[w].passed :
             Done(w, e) = [ev |-> e, ts |-> job[w].ts, opened |-> job[w].ts, at |-> clock + 1]
      BY <2>1, <2>2, <2>3 DEF Done
    <3>2. done' = done \cup {[ev |-> e, ts |-> job[w].ts, opened |-> job[w].ts, at |-> clock + 1] :
                                e \in job[w].passed}
      BY <2>3, <3>1
    <3> QED
      BY <2>1, <2>2, <2>3, <3>2, BackCommits
  <2>4. CASE UNCHANGED <<lastVerified, done>>
    BY <1>2, <2>1, <2>4
  <2> QED
    BY <1>6, <2>3, <2>4 DEF CommitRows
<1>7. ASSUME NEW w \in Worker, LockRow(w) \/ RowsFail(w) \/ BulkLog(w) \/ Crash(w) PROVE BackInv'
  BY <1>2, <1>7 DEF LockRow, RowsFail, BulkLog, Crash
<1>8. CASE Quiet \/ UNCHANGED vars
  BY <1>2, <1>8 DEF Quiet, vars
<1> QED
  BY <1>3, <1>4, <1>5, <1>6, <1>7, <1>8 DEF Next, Continue, UpdatingRows

(* last_verified_at goes back behind a verification only when another one  *)
(* began before that was committed, and was committed after it.            *)
THEOREM BackCorrect == Spec => []GoesBackOnlyByOverlap
<1>1. Init => BackInv
  BY DEF Init, BackInv, GoesBackOnlyByOverlap
<1>2. BackInv => GoesBackOnlyByOverlap
  BY DEF BackInv
<1> QED
  BY <1>1, <1>2, BackInductive, PassedHolds, TypeCorrect, PTL DEF Spec

-----------------------------------------------------------------------------
(* The verify_id of an open transaction is its own: it is not yet, and     *)
(* will not be, that of another row or of a row that was rolled back.      *)
InFlight(w) == pc[w] \in {"event", "update", "commit"}

IdOf(w) ==
    InFlight(w) =>
        /\ job[w].id < nextId /\ (pc[w] = "event" => job[w].id # 0)
        /\ job[w].id # 0 => /\ job[w].id \notin rolledBack
                            /\ \A r \in rows : r.id # job[w].id

HistoryInv ==
    /\ nextId > 0
    /\ \A v, w \in Worker : (v # w /\ InFlight(v) /\ InFlight(w) /\ job[v].id # 0)
                               => job[v].id # job[w].id
    /\ \A w \in Worker : IdOf(w)
    /\ \A r \in rows : r.id < nextId /\ r.id \notin rolledBack
    /\ \A n \in rolledBack : n < nextId
    /\ \A x \in events : x.id # 0
    /\ EventsHaveHistory

(* A step of a request that leaves its verify_id to the row, to the rolled *)
(* back ones or to the request itself keeps them apart.                    *)
LEMMA HistoryKept ==
    ASSUME TypeOK, HistoryInv, NEW w \in Worker, Others(w),
           events' = events, nextId' = nextId,
           rows \subseteq rows', rolledBack \subseteq rolledBack',
           \/ ~InFlight(w) /\ ~InFlight(w)' /\ rows' = rows /\ rolledBack' = rolledBack
           \/ /\ pc[w] = "update" /\ pc'[w] = "commit" /\ job'[w] = job[w]
              /\ rows' = rows /\ rolledBack' = rolledBack
           \/ /\ InFlight(w) /\ ~InFlight(w)' /\ rolledBack' = rolledBack
              /\ \A r \in rows' \ rows : r.id = job[w].id /\ r.id # 0
              /\ job[w].id # 0 => \E r \in rows' : r.id = job[w].id /\ r.ev = job[w].ev
           \/ /\ InFlight(w) /\ ~InFlight(w)' /\ rows' = rows
              /\ rolledBack' = rolledBack \cup ({job[w].id} \ {0})
    PROVE  HistoryInv'
<1>1. /\ nextId \in Nat /\ rolledBack \subseteq Nat /\ rows \subseteq HistoryRow
      /\ \A v \in Worker : InFlight(v) => job[v] \in Job
  BY DEF TypeOK, InFlight
<1>2. \A v \in Worker : InFlight(v)' => /\ InFlight(v) /\ job'[v] = job[v]
                                        /\ (pc'[v] = "event" => pc[v] = "event")
  BY DEF Others, InFlight
<1>3. \A v, u \in Worker : (v # u /\ InFlight(v)' /\ InFlight(u)' /\ job'[v].id # 0)
                              => job'[v].id # job'[u].id
  BY <1>2 DEF HistoryInv
<1>4. InFlight(w) => /\ job[w].id < nextId
                     /\ job[w].id # 0 => /\ job[w].id \notin rolledBack
                                         /\ \A r \in rows : r.id # job[w].id
  BY DEF HistoryInv, IdOf
<1>5. /\ \A n \in rolledBack' : n \in rolledBack \/ (InFlight(w) /\ ~InFlight(w)' /\ n = job[w].id /\ n # 0)
      /\ \A r \in rows' : r \in rows \/ (InFlight(w) /\ ~InFlight(w)' /\ r.id = job[w].id /\ r.id # 0)
      /\ rolledBack' = rolledBack \/ rows' = rows
  OBVIOUS
<1>6. ASSUME NEW v \in Worker PROVE IdOf(v)'
  <2> SUFFICES ASSUME InFlight(v)' PROVE IdOf(v)'
    BY DEF IdOf
  <2>1. IdOf(v) /\ InFlight(v) /\ job'[v] = job[v]
    BY <1>2 DEF HistoryInv
  <2>2. (InFlight(w) /\ ~InFlight(w)' /\ job[w].id # 0) => job[v].id # job[w].id
    BY <2>1 DEF HistoryInv
  <2> QED
    BY <1>2, <1>5, <2>1, <2>2 DEF IdOf
<1>7. \A r \in rows' : r.id < nextId /\ r.id \notin rolledBack'
  <2> SUFFICES ASSUME NEW r \in rows' PROVE r.id < nextId /\ r.id \notin rolledBack'
    OBVIOUS
  <2>1. CASE r \in rows
    BY <1>4, <1>5, <2>1 DEF HistoryInv
  <2>2. CASE r \notin rows
    BY <1>4, <1>5, <2>2 DEF HistoryInv
  <2> QED
    BY <2>1, <2>2
<1>8. \A n \in rolledBack' : n < nextId
  BY <1>4, <1>5 DEF HistoryInv
<1>9. EventsHaveHistory'
  <2> SUFFICES ASSUME NEW x \in events
               PROVE  \/ \E r \in rows' : r.id = x.id /\ r.ev = x.ev
                      \/ \E v \in Worker : /\ pc'[v] \in {"update", "commit"}
                                           /\ job'[v].id = x.id /\ job'[v].ev = x.ev
                      \/ x.id \in rolledBack' /\ \A r \in rows' : r.id # x.id
    BY DEF EventsHaveHistory
  <2>1. x.id # 0
    BY DEF HistoryInv
  <2>2. CASE \E r \in rows : r.id = x.id /\ r.ev = x.ev
    BY <2>2
  <2>3. ASSUME NEW v \in Worker, pc[v] \in {"update", "commit"}, job[v].id = x.id, job[v].ev = x.ev,
               ~ (pc'[v] \in {"update", "commit"} /\ job'[v] = job[v])
        PROVE  \/ \E r \in rows' : r.id = x.id /\ r.ev = x.ev
               \/ x.id \in rolledBack'
    BY <2>1, <2>3 DEF Others, InFlight
  <2>4. CASE x.id \in rolledBack
    BY <1>7, <2>4
  <2> QED
    BY <1>7, <2>2, <2>3, <2>4 DEF HistoryInv, EventsHaveHistory
<1> QED
  BY <1>3, <1>6, <1>7, <1>8, <1>9 DEF HistoryInv

(* A request that is not in flight draws a fresh verify_id, goes on        *)
(* without one, or stays out of flight.                                    *)
LEMMA HistoryBegins ==
    ASSUME TypeOK, HistoryInv, NEW w \in Worker, Others(w), ~InFlight(w),
           events' = events, rows' = rows, rolledBack' = rolledBack,
           \/ pc'[w] = "event" /\ job'[w].id = nextId /\ nextId' = nextId + 1
           \/ pc'[w] = "update" /\ job'[w].id = 0 /\ nextId' = nextId
           \/ ~InFlight(w)' /\ nextId' = nextId
    PROVE  HistoryInv'
<1>1. /\ nextId \in Nat /\ rolledBack \subseteq Nat /\ rows \subseteq HistoryRow
      /\ \A v \in Worker : InFlight(v) => job[v].id \in Nat
  BY DEF TypeOK, InFlight, Job
<1>2. \A r \in rows : r.id \in Nat
  BY <1>1 DEF HistoryRow
<1>3. \A v \in Worker \ {w} : InFlight(v)' => /\ InFlight(v) /\ job'[v] = job[v]
                                              /\ (pc'[v] = "event" => pc[v] = "event")
  BY DEF Others, InFlight
<1>4. nextId' \in {nextId, nextId + 1} /\ nextId > 0
  BY DEF HistoryInv
<1>5. InFlight(w)' => \/ job'[w].id = nextId /\ nextId' = nextId + 1
                      \/ pc'[w] = "update" /\ job'[w].id = 0
  OBVIOUS
<1>6. \A v \in Worker : InFlight(v) => job[v].id < nextId
  BY DEF HistoryInv, IdOf
<1>7. ASSUME NEW v \in Worker, NEW u \in Worker, v # u, InFlight(v)', InFlight(u)', job'[v].id # 0
      PROVE  job'[v].id # job'[u].id
  <2>1. CASE v = w
    BY <1>1, <1>3, <1>5, <1>6, <1>7, <2>1
  <2>2. CASE u = w
    BY <1>1, <1>3, <1>5, <1>6, <1>7, <2>2
  <2>3. CASE v # w /\ u # w
    BY <1>3, <1>7, <2>3 DEF HistoryInv
  <2> QED
    BY <2>1, <2>2, <2>3
<1>8. ASSUME NEW v \in Worker PROVE IdOf(v)'
  <2>1. CASE v = w
    BY <1>1, <1>2, <1>4, <1>5, <2>1 DEF IdOf, HistoryInv
  <2>2. CASE v # w
    <3>1. IdOf(v)
      BY DEF HistoryInv
    <3> QED
      BY <1>1, <1>3, <1>4, <2>2, <3>1 DEF IdOf
  <2> QED
    BY <2>1, <2>2
<1>9. \A r \in rows : r.id < nextId' /\ r.id \notin rolledBack
  BY <1>1, <1>2, <1>4 DEF HistoryInv
<1>10. \A n \in rolledBack : n < nextId'
  BY <1>1, <1>4 DEF HistoryInv
<1>11. EventsHaveHistory'
  BY DEF HistoryInv, EventsHaveHistory, Others, InFlight
<1> QED
  BY <1>1, <1>4, <1>7, <1>8, <1>9, <1>10, <1>11 DEF HistoryInv

(* The event carries the verify_id of a request in flight. *)
LEMMA HistoryWrites ==
    ASSUME TypeOK, HistoryInv, NEW w \in Worker, Others(w), WriteEvent(w)
    PROVE  HistoryInv'
<1>1. /\ pc[w] = "event" /\ pc'[w] = "update" /\ job' = job
      /\ UNCHANGED <<rows, nextId, rolledBack>>
      /\ \A x \in events' : x \in events \/ (x.id = job[w].id /\ x.ev = job[w].ev)
  BY DEF WriteEvent, Goto, TypeOK, tables, history
<1>2. \A v \in Worker : InFlight(v)' => InFlight(v) /\ (pc'[v] = "event" => pc[v] = "event")
  BY <1>1 DEF InFlight, Others
<1>3. job[w].id # 0
  BY <1>1 DEF HistoryInv, IdOf, InFlight
<1>4. \A v \in Worker : IdOf(v)'
  BY <1>1, <1>2 DEF HistoryInv, IdOf
<1>5. \A v, u \in Worker : (v # u /\ InFlight(v)' /\ InFlight(u)' /\ job'[v].id # 0)
                              => job'[v].id # job'[u].id
  BY <1>1, <1>2 DEF HistoryInv
<1>6. \A v \in Worker : pc[v] \in {"update", "commit"} => pc'[v] \in {"update", "commit"}
  BY <1>1 DEF Others
<1>7. EventsHaveHistory'
  BY <1>1, <1>6 DEF HistoryInv, EventsHaveHistory
<1>8. \A x \in events' : x.id # 0
  BY <1>1, <1>3 DEF HistoryInv
<1> QED
  BY <1>1, <1>4, <1>5, <1>7, <1>8 DEF HistoryInv

LEMMA HistoryInductive == TypeOK /\ HistoryInv /\ [Next]_vars => HistoryInv'
<1> SUFFICES ASSUME TypeOK, HistoryInv, [Next]_vars PROVE HistoryInv'
  OBVIOUS
<1> USE DEF Goto, tables, history
<1>1. /\ pc \in [Worker -> Step] /\ job \in [Worker -> {NoJob} \cup Job]
      /\ clock \in Nat
  BY DEF TypeOK
<1>2. ASSUME NEW w \in Worker, Continue(w) \/ Crash(w) PROVE Others(w)
  BY <1>2, OthersStay
<1>3. ASSUME NEW w \in Worker, Request(w) PROVE HistoryInv'
  <2>1. PICK s \in Step, kind \in Kind, S \in SUBSET Evidence, e \in Evidence \cup {0} :
           Begins(w, s, kind, S, e)
    BY <1>3, RequestStep
  <2>2. pc[w] = "idle" /\ pc'[w] = s /\ job'[w] = NewJob(kind, S, e) /\ Others(w)
    BY <1>1, <2>1 DEF Begins, Moves, Others
  <2>3. NewJob(kind, S, e).id = 0
    BY <1>1, NewJobs
  <2>4. s \in {"next", "update", "row", "commitRows"}
    BY <2>1 DEF Begins
  <2>5. events' = events /\ rows' = rows /\ rolledBack' = rolledBack /\ nextId' = nextId
    BY <2>1 DEF Begins
  <2> QED
    BY <2>2, <2>3, <2>4, <2>5, HistoryBegins DEF InFlight
<1>4. ASSUME NEW w \in Worker, BeginVerification(w) PROVE HistoryInv'
  <2>1. pc[w] = "next" /\ job[w] \in Job /\ events' = events /\ rows' = rows
        /\ rolledBack' = rolledBack /\ Others(w)
    BY <1>2, <1>4 DEF BeginVerification, Continue, Verifying, TypeOK
  <2>2. \/ pc'[w] = "event" /\ job'[w].id = nextId /\ nextId' = nextId + 1
        \/ pc'[w] = "update" /\ job'[w].id = 0 /\ nextId' = nextId
        \/ pc' = pc /\ nextId' = nextId
    BY <1>1, <1>4, <2>1 DEF BeginVerification, Job
  <2> QED
    BY <2>1, <2>2, HistoryBegins DEF InFlight
<1>5. ASSUME NEW w \in Worker, WriteEvent(w) PROVE HistoryInv'
  BY <1>2, <1>5, HistoryWrites DEF Continue, Verifying
<1>6. ASSUME NEW w \in Worker,
             LogVerification(w) \/ Answer(w) \/ LockRow(w) \/ CommitRows(w) \/ RowsFail(w) \/ BulkLog(w)
      PROVE  HistoryInv'
  <2>1. Others(w)
    BY <1>2, <1>6 DEF Continue, Verifying, UpdatingRows
  <2>2. ~InFlight(w) /\ events' = events /\ rows' = rows /\ rolledBack' = rolledBack
        /\ nextId' = nextId
    BY <1>6 DEF LogVerification, Answer, LockRow, CommitRows, RowsFail, BulkLog, InFlight
  <2>3. ~InFlight(w)'
    BY <1>1, <1>6
       DEF LogVerification, Answer, LockRow, CommitRows, RowsFail, BulkLog, InFlight, Respond
  <2> QED
    BY <2>1, <2>2, <2>3, HistoryBegins
<1>7. ASSUME NEW w \in Worker, Update(w) PROVE HistoryInv'
  BY <1>1, <1>2, <1>7, HistoryKept DEF Update, Continue, Verifying
<1>8. ASSUME NEW w \in Worker, CommitVerification(w) PROVE HistoryInv'
  <2>1. /\ InFlight(w) /\ ~InFlight(w)' /\ rolledBack' = rolledBack
        /\ events' = events /\ nextId' = nextId /\ rows \subseteq rows'
    BY <1>1, <1>8 DEF CommitVerification, InFlight
  <2>2. \A r \in rows' \ rows : r.id = job[w].id /\ r.id # 0
    BY <1>8 DEF CommitVerification
  <2>3. ASSUME job[w].id # 0
        PROVE  \E r \in rows' : r.id = job[w].id /\ r.ev = job[w].ev
    <3>1. [id |-> job[w].id, ev |-> job[w].ev, ts |-> job[w].ts] \in rows'
      BY <1>8, <2>3 DEF CommitVerification
    <3> QED
      BY <3>1
  <2>4. Others(w)
    BY <1>2, <1>8 DEF Continue, Verifying
  <2> QED
    BY <2>1, <2>2, <2>3, <2>4, HistoryKept
<1>9. ASSUME NEW w \in Worker, VerificationFails(w) \/ Crash(w) PROVE HistoryInv'
  <2>1. Others(w)
    BY <1>2, <1>9 DEF Continue, Verifying
  <2>2. ~InFlight(w)' /\ rows' = rows /\ events' = events /\ nextId' = nextId
    BY <1>1, <1>9 DEF VerificationFails, Crash, InFlight, Respond
  <2>3. \/ InFlight(w) /\ rolledBack' = rolledBack \cup ({job[w].id} \ {0})
        \/ ~InFlight(w) /\ rolledBack' = rolledBack
    BY <1>9 DEF VerificationFails, Crash, InFlight
  <2> QED
    BY <2>1, <2>2, <2>3, HistoryKept
<1>10. CASE Quiet \/ UNCHANGED vars
  BY <1>10 DEF Quiet, vars, HistoryInv, IdOf, InFlight, EventsHaveHistory
<1> QED
  BY <1>3, <1>4, <1>5, <1>6, <1>7, <1>8, <1>9, <1>10 DEF Next, Continue, Verifying, UpdatingRows

(* An event that was written to the graph before the commit has its row,   *)
(* for the same evidence, is still running, or was rolled back.            *)
THEOREM EventsCorrect == Spec => []EventsHaveHistory
<1>1. Init => HistoryInv
  BY DEF Init, HistoryInv, IdOf, InFlight, EventsHaveHistory
<1>2. HistoryInv => EventsHaveHistory
  BY DEF HistoryInv
<1> QED
  BY <1>1, <1>2, HistoryInductive, TypeCorrect, PTL DEF Spec

=============================================================================
