------------------------ MODULE EvidenceUploadProofs ------------------------
(***************************************************************************)
(* Proofs about EvidenceUpload, for any number of uploads at the same      *)
(* time, any file names and contents and any faults.                       *)
(***************************************************************************)
EXTENDS EvidenceUpload, FiniteSetTheorems, WellFoundedInduction, TLAPS

(* A finite set of numbers has a greatest one.  An induction would show    *)
(* it; here it follows from the strict subset ordering of the finite       *)
(* subsets of a set, which has minimal elements.                           *)
LEMMA Greatest ==
    ASSUME NEW S \in SUBSET Nat, S # {}, IsFiniteSet(S)
    PROVE  \E m \in S : \A x \in S : x =< m
<1> DEFINE Above(m) == {x \in S : m =< x}
           Family == {Above(m) : m \in S}
<1>1. Family \subseteq FiniteSubsetsOf(S)
  <2> SUFFICES ASSUME NEW m \in S PROVE Above(m) \in FiniteSubsetsOf(S)
    OBVIOUS
  <2>1. Above(m) \in SUBSET S
    OBVIOUS
  <2> HIDE DEF Above
  <2> QED
    BY <2>1, FS_Subset DEF FiniteSubsetsOf
<1>2. \E X \in Family : \A Y \in Family : <<Y, X>> \notin StrictSubsetOrdering(S)
  <2>1. Family # {}
    OBVIOUS
  <2> HIDE DEF Family
  <2> QED
    BY <1>1, <2>1, FS_StrictSubsetOrderingWellFounded, WFMin
<1>3. PICK m \in S : \A x \in S : <<Above(x), Above(m)>> \notin StrictSubsetOrdering(S)
  BY <1>2
<1>4. ASSUME NEW x \in S, m < x PROVE FALSE
  <2>1. m \in Nat /\ x \in Nat /\ \A y \in S : y \in Nat
    OBVIOUS
  <2>2. m \in Above(m) /\ m \notin Above(x)
    BY <1>4, <2>1
  <2>3. Above(x) \subseteq Above(m)
    <3>1. \A y \in S : x =< y => m =< y
      BY <1>4, <2>1
    <3> QED
      BY <3>1
  <2>4. Above(x) \in SUBSET S /\ Above(m) \in SUBSET S
    OBVIOUS
  <2> HIDE DEF Above
  <2>5. <<Above(x), Above(m)>> \in StrictSubsetOrdering(S)
    BY <2>2, <2>3, <2>4 DEF StrictSubsetOrdering
  <2> QED
    BY <1>3, <2>5
<1> QED
  BY <1>4

UploadStep == {"idle"} \cup Reading \cup Storing \cup MirrorStep

JobsOK ==
    /\ pc \in [Worker -> UploadStep] /\ job \in [Worker -> {NoJob} \cup Job]
    /\ \A w \in Worker : pc[w] # "idle" => job[w] \in Job

(* What a step of one upload makes of the uploads. *)
Moves(w, s, j) ==
    /\ pc' = [pc EXCEPT ![w] = s]
    /\ job' = [job EXCEPT ![w] = j]

(* The uploads keep their types when one of them goes on to a step with    *)
(* its local variables, or ends.                                           *)
LEMMA JobsKept ==
    ASSUME JobsOK, NEW w \in Worker, NEW s \in UploadStep, NEW j, Moves(w, s, j),
           (s = "idle" /\ j = NoJob) \/ j \in Job
    PROVE  /\ JobsOK' /\ pc'[w] = s /\ job'[w] = j
           /\ \A v \in Worker \ {w} : pc'[v] = pc[v] /\ job'[v] = job[v]
<1>1. pc' \in [Worker -> UploadStep] /\ job' \in [Worker -> {NoJob} \cup Job]
  BY DEF JobsOK, Moves
<1>2. pc'[w] = s /\ job'[w] = j
  BY DEF JobsOK, Moves
<1>3. \A v \in Worker \ {w} : pc'[v] = pc[v] /\ job'[v] = job[v]
  BY DEF JobsOK, Moves
<1>4. \A v \in Worker : pc'[v] # "idle" => job'[v] \in Job
  BY <1>2, <1>3 DEF JobsOK
<1> QED
  BY <1>1, <1>2, <1>3, <1>4 DEF JobsOK

(* The rows that have something in common are finitely many, and so are    *)
(* their versions; the next version is above all of them.                  *)
LEMMA NextVersions ==
    ASSUME evidence \subseteq Row, IsFiniteSet(evidence), NEW n
    PROVE  /\ NextVersion(n) \in Nat
           /\ \A r \in evidence : r.name = n => r.version < NextVersion(n)
<1> DEFINE Named == {x \in evidence : x.name = n}
           f == [r \in Named |-> r.version]
<1>1. IsFiniteSet(Named)
  BY FS_Subset
<1>2. f \in Surjection(Named, VersionsOf(n))
  BY DEF Surjection, VersionsOf
<1>3. IsFiniteSet(VersionsOf(n))
  <2> HIDE DEF f, Named
  <2> QED
    BY <1>1, <1>2, FS_Surjection
<1>4. VersionsOf(n) \subseteq Nat
  BY DEF VersionsOf, Row
<1>5. \A r \in evidence : r.name = n => r.version \in VersionsOf(n)
  BY DEF VersionsOf
<1> HIDE DEF f, Named
<1>6. CASE VersionsOf(n) = {}
  BY <1>5, <1>6 DEF NextVersion
<1>7. CASE VersionsOf(n) # {}
  <2> DEFINE m == CHOOSE v \in VersionsOf(n) : \A u \in VersionsOf(n) : u =< v
  <2>1. \E v \in VersionsOf(n) : \A u \in VersionsOf(n) : u =< v
    BY <1>3, <1>4, <1>7, Greatest
  <2>2. m \in VersionsOf(n) /\ \A u \in VersionsOf(n) : u =< m
    BY <2>1
  <2>3. NextVersion(n) = 1 + m
    BY <1>7 DEF NextVersion
  <2> HIDE DEF m
  <2> QED
    BY <1>4, <1>5, <2>2, <2>3
<1> QED
  BY <1>6, <1>7

(* The rows of one type: their number is what generate_evidence_code reads. *)
OfType(t) == {r \in evidence : r.type = t}

LEMMA CountType ==
    ASSUME IsFiniteSet(evidence), NEW t
    PROVE  IsFiniteSet(OfType(t)) /\ Cardinality(OfType(t)) \in Nat
BY FS_Subset, FS_CardinalityType DEF OfType

Sealed(r) == [r EXCEPT !.sealed = TRUE]

(* What a step does to the rows: nothing, or one is committed, or all are  *)
(* sealed.                                                                 *)
Commits(w) ==
    /\ pc[w] = "commit" /\ ~job[w].aborted
    /\ clock' = clock + 1
    /\ evidence' = evidence \cup {RowToCommit(w)}

Seals ==
    /\ closing
    /\ clock' = clock + 1
    /\ evidence' = {Sealed(r) : r \in evidence}

LEMMA SealedRow ==
    ASSUME NEW r \in Row
    PROVE  /\ Sealed(r) \in Row /\ Sealed(r).sealed = TRUE
           /\ Sealed(r).id = r.id /\ Sealed(r).type = r.type /\ Sealed(r).seq = r.seq
           /\ Sealed(r).version = r.version /\ Sealed(r).name = r.name /\ Sealed(r).body = r.body
           /\ Sealed(r).iv = r.iv /\ Sealed(r).began = r.began /\ Sealed(r).at = r.at
           /\ PathOf(Sealed(r)) = PathOf(r) /\ Code(Sealed(r)) = Code(r)
<1>1. /\ Sealed(r) \in Row /\ Sealed(r).sealed = TRUE
      /\ Sealed(r).id = r.id /\ Sealed(r).type = r.type /\ Sealed(r).seq = r.seq
      /\ Sealed(r).version = r.version /\ Sealed(r).name = r.name /\ Sealed(r).body = r.body
      /\ Sealed(r).iv = r.iv /\ Sealed(r).began = r.began /\ Sealed(r).at = r.at
  BY DEF Sealed, Row
<1> QED
  BY <1>1 DEF PathOf, Code

LEMMA CommittedRow ==
    ASSUME clock \in Nat, NEW w, job[w] \in Job
    PROVE  RowToCommit(w) \in Row
BY DEF RowToCommit, Row, Job

LEMMA RowsStayFinite ==
    ASSUME IsFiniteSet(evidence), evidence \subseteq Row, NEW w, Commits(w) \/ Seals
    PROVE  IsFiniteSet(evidence')
<1>1. CASE Commits(w)
  BY <1>1, FS_AddElement DEF Commits
<1>2. CASE Seals
  <2> DEFINE f == [r \in evidence |-> Sealed(r)]
  <2>1. f \in Surjection(evidence, evidence')
    BY <1>2 DEF Seals, Surjection
  <2> HIDE DEF f
  <2> QED
    BY <2>1, FS_Surjection
<1> QED
  BY <1>1, <1>2

-----------------------------------------------------------------------------
TypeInv == TypeOK /\ IsFiniteSet(evidence)

LEMMA JobsTyped ==
    ASSUME TypeInv
    PROVE  /\ JobsOK /\ clock \in Nat /\ nextId \in Nat /\ evidence \subseteq Row
           /\ \A w \in Worker : pc[w] # "idle" => job[w] \in Job
BY DEF TypeInv, TypeOK, JobsOK, UploadStep

(* What a new upload has before it reads anything. *)
NewUpload(n, b, t, stamp) ==
    [type |-> t, seq |-> 0, version |-> 0, name |-> n, body |-> b,
     id |-> 0, iv |-> 0, aborted |-> FALSE, began |-> stamp]

LEMMA NewUploadType ==
    ASSUME NEW n \in FileName, NEW b \in Content, NEW t \in EvidenceType, NEW stamp \in Nat
    PROVE  NewUpload(n, b, t, stamp) \in Job
BY DEF NewUpload, Job

(* The steps of an upload, as what they make of the upload itself: it goes *)
(* from a step to another with one variable set, or it ends.               *)
Sets(w, j) ==
    \/ j = job[w] /\ pc[w] \notin {"idle", "readVersion", "readCode", "insertRow"}
    \/ pc[w] = "readVersion" /\ j = [job[w] EXCEPT !.version = NextVersion(job[w].name)]
    \/ pc[w] = "readCode" /\ j = [job[w] EXCEPT !.seq = Cardinality(OfType(job[w].type)) + 1]
    \/ pc[w] = "insertRow" /\ j = [job[w] EXCEPT !.id = nextId]
    \/ pc[w] = "storeIv" /\ j = [job[w] EXCEPT !.iv = job[w].id]
    \/ pc[w] = "clearIv" /\ ~job[w].aborted /\ j = [job[w] EXCEPT !.iv = 0]
    \/ pc[w] \in {"storeIv", "clearIv"} /\ "sql" \in faults /\ j = [job[w] EXCEPT !.aborted = TRUE]

GoesOn(w, s, j) ==
    /\ Moves(w, s, j) /\ Sets(w, j) /\ s \in UploadStep \ {"idle"}
    /\ \/ pc[w] = "readVersion" /\ s = "readCode"
       \/ pc[w] = "readCode" /\ s = "checkDuplicate"
       \/ pc[w] = "checkDuplicate" /\ s = "putBlob"
       \/ pc[w] = "putBlob" /\ s = "insertRow"
       \/ pc[w] = "insertRow" /\ s = "encrypt"
       \/ pc[w] = "encrypt" /\ s = "storeIv"
       \/ pc[w] = "encrypt" /\ s = "removeBlob" /\ "storage" \in faults
       \/ pc[w] = "removeBlob" /\ s = "reupload"
       \/ pc[w] = "reupload" /\ s \in {"storeIv", "clearIv"}
       \/ pc[w] = "encrypt" /\ s = "clearIv" /\ "network" \in faults
       \/ pc[w] = "storeIv" /\ s = "commit" /\ j = [job[w] EXCEPT !.iv = job[w].id]
       \/ pc[w] = "storeIv" /\ s = "clearIv" /\ j = [job[w] EXCEPT !.aborted = TRUE]
       \/ pc[w] = "clearIv" /\ s = "commit" /\ ~job[w].aborted /\ j = [job[w] EXCEPT !.iv = 0]
       \/ pc[w] = "clearIv" /\ s = "commit" /\ j = [job[w] EXCEPT !.aborted = TRUE]
       \/ pc[w] = "commit" /\ s = "caseLog"
       \/ pc[w] \in MirrorStep /\ s \in MirrorStep

Ends(w) == pc[w] # "idle" /\ Moves(w, "idle", NoJob)

LEMMA UploadMoves ==
    ASSUME TypeInv, NEW w \in Worker, Upload(w) \/ Crash(w)
    PROVE  Ends(w) \/ \E s \in UploadStep, j \in Job : GoesOn(w, s, j)
<1> USE DEF Goto, Respond, Moves, GoesOn, Ends, Sets, MayFail, UploadStep, Reading, Storing, MirrorStep
<1>1. JobsOK /\ pc \in [Worker -> UploadStep] /\ DOMAIN job = Worker
      /\ (pc[w] # "idle" => job[w] \in Job) /\ nextId \in Nat
  BY JobsTyped DEF JobsOK
<1>2. job = [job EXCEPT ![w] = job[w]]
  BY JobsTyped DEF JobsOK
<1>3. ASSUME ReadVersion(w) PROVE \E s \in UploadStep, j \in Job : GoesOn(w, s, j)
  <2>1. NextVersion(job[w].name) \in Nat
    BY NextVersions, JobsTyped DEF TypeInv
  <2>2. [job[w] EXCEPT !.version = NextVersion(job[w].name)] \in Job
    BY <1>1, <1>3, <2>1 DEF ReadVersion, Job
  <2>3. GoesOn(w, "readCode", [job[w] EXCEPT !.version = NextVersion(job[w].name)])
    BY <1>1, <1>3 DEF ReadVersion
  <2> QED
    BY <2>2, <2>3
<1>4. ASSUME ReadCode(w) PROVE \E s \in UploadStep, j \in Job : GoesOn(w, s, j)
  <2> DEFINE j == [job[w] EXCEPT !.seq = Cardinality(OfType(job[w].type)) + 1]
  <2>1. Cardinality(OfType(job[w].type)) \in Nat
    BY CountType DEF TypeInv
  <2>2. j \in Job
    BY <1>1, <1>4, <2>1 DEF ReadCode, Job
  <2>3. job' = [job EXCEPT ![w] = j]
    BY <1>1, <1>4 DEF ReadCode, OfType
  <2>4. GoesOn(w, "checkDuplicate", j)
    BY <1>1, <1>4, <2>3 DEF ReadCode
  <2> QED
    BY <2>2, <2>4
<1>5. ASSUME NEW s \in UploadStep, GoesOn(w, s, job[w])
      PROVE  \E u \in UploadStep, j \in Job : GoesOn(w, u, j)
  <2>1. job[w] \in Job
    BY <1>1, <1>5
  <2> HIDE DEF GoesOn, UploadStep
  <2> QED
    BY <1>5, <2>1
<1>6. CASE CheckDuplicate(w)
  <2>1. Ends(w) \/ GoesOn(w, "putBlob", job[w])
    BY <1>1, <1>2, <1>6 DEF CheckDuplicate
  <2> HIDE DEF GoesOn, Ends
  <2> QED
    BY <1>5, <2>1
<1>7. CASE PutBlob(w)
  <2>1. Ends(w) \/ GoesOn(w, "insertRow", job[w])
    BY <1>1, <1>2, <1>7 DEF PutBlob
  <2> HIDE DEF GoesOn, Ends
  <2> QED
    BY <1>5, <2>1
<1>8. CASE InsertRow(w)
  <2> DEFINE j == [job[w] EXCEPT !.id = nextId]
  <2>1. j \in Job
    BY <1>1, <1>8 DEF InsertRow, Job
  <2>2. GoesOn(w, "encrypt", j)
    BY <1>1, <1>8 DEF InsertRow
  <2> QED
    BY <2>1, <2>2
<1>9. CASE Encrypt(w)
  <2>1. \E s \in {"storeIv", "clearIv", "removeBlob"} : GoesOn(w, s, job[w])
    BY <1>1, <1>2, <1>9 DEF Encrypt
  <2> HIDE DEF GoesOn, Ends
  <2> QED
    BY <1>5, <2>1
<1>10. CASE RemoveBlob(w)
  <2>1. GoesOn(w, "reupload", job[w])
    BY <1>1, <1>2, <1>10 DEF RemoveBlob
  <2> HIDE DEF GoesOn, Ends
  <2> QED
    BY <1>5, <2>1
<1>11. CASE Reupload(w)
  <2>1. \E s \in {"storeIv", "clearIv"} : GoesOn(w, s, job[w])
    BY <1>1, <1>2, <1>11 DEF Reupload
  <2> HIDE DEF GoesOn, Ends
  <2> QED
    BY <1>5, <2>1
<1>12. CASE StoreIv(w)
  <2>1. pc[w] = "storeIv" /\ job[w] \in Job
    BY <1>1, <1>12 DEF StoreIv
  <2>2. [job[w] EXCEPT !.iv = job[w].id] \in Job /\ [job[w] EXCEPT !.aborted = TRUE] \in Job
    BY <2>1 DEF Job
  <2>3. \/ GoesOn(w, "commit", [job[w] EXCEPT !.iv = job[w].id])
        \/ GoesOn(w, "clearIv", [job[w] EXCEPT !.aborted = TRUE])
    BY <1>1, <1>12 DEF StoreIv
  <2> QED
    BY <2>2, <2>3
<1>13. CASE ClearIv(w)
  <2>1. pc[w] = "clearIv" /\ job[w] \in Job
    BY <1>1, <1>13 DEF ClearIv
  <2>2. [job[w] EXCEPT !.iv = 0] \in Job /\ [job[w] EXCEPT !.aborted = TRUE] \in Job
    BY <2>1 DEF Job
  <2>3. \/ GoesOn(w, "commit", [job[w] EXCEPT !.iv = 0])
        \/ GoesOn(w, "commit", [job[w] EXCEPT !.aborted = TRUE])
    BY <1>1, <1>13 DEF ClearIv
  <2> QED
    BY <2>2, <2>3
<1>14. CASE CommitUpload(w)
  <2>1. Ends(w) \/ GoesOn(w, "caseLog", job[w])
    BY <1>1, <1>2, <1>14 DEF CommitUpload
  <2> HIDE DEF GoesOn, Ends
  <2> QED
    BY <1>5, <2>1
<1>15. CASE UploadFails(w) \/ Crash(w)
  BY <1>15 DEF UploadFails, Crash
<1>16. ASSUME NEW m \in MirrorStep, Mirror(w, m)
       PROVE  Ends(w) \/ \E s \in UploadStep, j \in Job : GoesOn(w, s, j)
  <2>1. CASE m = "auditLog"
    BY <1>16, <2>1 DEF Mirror
  <2>2. CASE m # "auditLog"
    <3>1. After(m) \in MirrorStep
      BY <2>2 DEF After
    <3>2. pc[w] = m /\ Goto(w, After(m)) /\ job' = job
      BY <1>16, <2>2 DEF Mirror
    <3>3. GoesOn(w, After(m), job[w])
      BY <1>1, <1>2, <3>1, <3>2
    <3> HIDE DEF GoesOn
    <3> QED
      BY <1>5, <3>1, <3>3
  <2> QED
    BY <2>1, <2>2
<1> QED
  BY <1>3, <1>4, <1>6, <1>7, <1>8, <1>9, <1>10, <1>11, <1>12, <1>13, <1>14, <1>15, <1>16 DEF Upload

(* What a step of an upload does to everything else. *)
LEMMA UploadEffects ==
    ASSUME TypeInv, NEW w \in Worker, Upload(w) \/ Crash(w)
    PROVE  /\ UNCHANGED <<case, faults>>
           /\ clock' \in {clock, clock + 1} /\ nextId' \in {nextId, nextId + 1}
           /\ \/ evidence' = evidence
              \/ Commits(w)
           /\ pc[w] = "insertRow" \/ nextId' = nextId
           /\ reported' \subseteq reported \cup {job[w].id} /\ (reported' # reported => pc[w] \in MirrorStep)
           /\ mirrors' = mirrors \/ \E m \in MirrorStep :
                 pc[w] = m /\ mirrors' = [mirrors EXCEPT ![m] = @ \cup {job[w].id}]
<1> USE DEF history, case, Tick
<1>1. CASE ReadVersion(w) \/ ReadCode(w) \/ CheckDuplicate(w) \/ PutBlob(w) \/ InsertRow(w)
  BY <1>1 DEF ReadVersion, ReadCode, CheckDuplicate, PutBlob, InsertRow
<1>2. CASE Encrypt(w) \/ RemoveBlob(w) \/ Reupload(w) \/ StoreIv(w) \/ ClearIv(w)
  BY <1>2 DEF Encrypt, RemoveBlob, Reupload, StoreIv, ClearIv
<1>3. CASE CommitUpload(w)
  BY <1>3 DEF CommitUpload, Commits
<1>4. CASE UploadFails(w) \/ Crash(w)
  BY <1>4 DEF UploadFails, Crash
<1>5. ASSUME NEW m \in MirrorStep, Mirror(w, m)
      PROVE  /\ UNCHANGED <<case, faults, clock, nextId, evidence>>
             /\ pc[w] = m /\ reported' \subseteq reported \cup {job[w].id}
             /\ mirrors' = mirrors \/ mirrors' = [mirrors EXCEPT ![m] = @ \cup {job[w].id}]
  BY <1>5 DEF Mirror
<1> QED
  BY <1>1, <1>2, <1>3, <1>4, <1>5 DEF Upload

LEMMA BlobsTyped ==
    ASSUME TypeInv, NEW w \in Worker, Upload(w) \/ Crash(w)
    PROVE  blobs' \subseteq Blob
<1>1. blobs \subseteq Blob /\ (pc[w] # "idle" => job[w] \in Job)
  BY DEF TypeInv, TypeOK
<1>2. Without(PathOf(job[w])) \subseteq Blob
  BY <1>1 DEF Without
<1>3. job[w] \in Job => Plain(w) \in Blob /\ Encrypted(w) \in Blob
  BY DEF Job, Plain, Encrypted, Blob, Path, PathOf
<1>4. CASE PutBlob(w)
  BY <1>1, <1>3, <1>4 DEF PutBlob
<1>5. CASE Encrypt(w)
  BY <1>1, <1>2, <1>3, <1>5 DEF Encrypt
<1>6. CASE RemoveBlob(w) \/ Reupload(w)
  BY <1>1, <1>2, <1>3, <1>6 DEF RemoveBlob, Reupload
<1>7. CASE UNCHANGED blobs
  BY <1>1, <1>7
<1>8. Upload(w) \/ Crash(w) => PutBlob(w) \/ Encrypt(w) \/ RemoveBlob(w) \/ Reupload(w) \/ UNCHANGED blobs
  BY DEF Upload, Crash, ReadVersion, ReadCode, CheckDuplicate, InsertRow, StoreIv, ClearIv,
         CommitUpload, UploadFails, Mirror
<1> QED
  BY <1>4, <1>5, <1>6, <1>7, <1>8

LEMMA BeginMoves ==
    ASSUME TypeInv, NEW w \in Worker, NEW n \in FileName, NEW b \in Content, NEW t \in EvidenceType,
           BeginUpload(w, n, b, t)
    PROVE  /\ pc[w] = "idle" /\ clock' = clock + 1
           /\ Moves(w, "readVersion", NewUpload(n, b, t, clock + 1))
           /\ JobsOK' /\ pc'[w] = "readVersion" /\ job'[w] = NewUpload(n, b, t, clock + 1)
           /\ \A v \in Worker \ {w} : pc'[v] = pc[v] /\ job'[v] = job[v]
<1>1. pc[w] = "idle" /\ clock' = clock + 1
  BY DEF BeginUpload, Tick
<1>2. Moves(w, "readVersion", NewUpload(n, b, t, clock + 1))
  BY DEF BeginUpload, Tick, Goto, Moves, NewUpload
<1>3. NewUpload(n, b, t, clock + 1) \in Job
  BY JobsTyped, NewUploadType
<1>4. "readVersion" \in UploadStep
  BY DEF UploadStep, Reading
<1> QED
  BY <1>1, <1>2, <1>3, <1>4, JobsTyped, JobsKept

LEMMA TypeInductive == TypeInv /\ [Next]_vars => TypeInv'
<1> SUFFICES ASSUME TypeInv, [Next]_vars PROVE TypeInv'
  OBVIOUS
<1>1. /\ JobsOK /\ clock \in Nat /\ nextId \in Nat /\ evidence \subseteq Row
      /\ clock + 1 \in Nat /\ nextId + 1 \in Nat /\ IsFiniteSet(evidence)
  BY JobsTyped DEF TypeInv
<1>2. ASSUME NEW w \in Worker, NEW n \in FileName, NEW b \in Content, NEW t \in EvidenceType,
             BeginUpload(w, n, b, t)
      PROVE  TypeInv'
  <2>1. JobsOK' /\ clock' \in Nat
    BY <1>1, <1>2, BeginMoves
  <2> QED
    BY <1>2, <2>1 DEF BeginUpload, TypeInv, TypeOK, JobsOK, UploadStep, case, history
<1>3. ASSUME NEW w \in Worker, Upload(w) \/ Crash(w) PROVE TypeInv'
  <2>1. JobsOK'
    <3>1. CASE Ends(w)
      BY <1>1, <3>1, JobsKept DEF Ends, UploadStep
    <3>2. ASSUME NEW s \in UploadStep, NEW j \in Job, GoesOn(w, s, j) PROVE JobsOK'
      BY <1>1, <3>2, JobsKept DEF GoesOn
    <3> QED
      BY <1>3, <3>1, <3>2, UploadMoves
  <2>2. clock' \in Nat /\ nextId' \in Nat /\ UNCHANGED <<case, faults>>
    BY <1>1, <1>3, UploadEffects
  <2>3. evidence' \subseteq Row /\ IsFiniteSet(evidence')
    <3>1. CASE Commits(w)
      <4>1. job[w] \in Job
        BY <1>1, <3>1, JobsTyped DEF Commits
      <4>2. RowToCommit(w) \in Row
        BY <1>1, <4>1, CommittedRow
      <4>3. evidence' \subseteq Row
        BY <1>1, <3>1, <4>2 DEF Commits
      <4> QED
        BY <1>1, <3>1, <4>3, RowsStayFinite
    <3> QED
      BY <1>1, <1>3, <3>1, UploadEffects
  <2>4. pc[w] \in MirrorStep => job[w].id \in Nat
    BY JobsTyped DEF MirrorStep, Job
  <2>5. reported' \subseteq Nat
    BY <1>3, <2>4, UploadEffects, ZenonT(30) DEF TypeInv, TypeOK
  <2>6. mirrors' \in [MirrorStep -> SUBSET Nat]
    <3>1. mirrors \in [MirrorStep -> SUBSET Nat]
      BY DEF TypeInv, TypeOK
    <3>2. ASSUME NEW m \in MirrorStep, pc[w] = m,
                 mirrors' = [mirrors EXCEPT ![m] = @ \cup {job[w].id}]
          PROVE  mirrors' \in [MirrorStep -> SUBSET Nat]
      BY <2>4, <3>1, <3>2
    <3> QED
      BY <1>3, <3>1, <3>2, UploadEffects
  <2>7. blobs' \subseteq Blob
    BY <1>3, BlobsTyped
  <2> QED
    BY <2>1, <2>2, <2>3, <2>5, <2>6, <2>7 DEF TypeInv, TypeOK, JobsOK, UploadStep, case
<1>4. ASSUME NEW s \in Status, EditStatus(s) PROVE TypeInv'
  BY <1>1, <1>4 DEF EditStatus, TypeInv, TypeOK, Tick, history
<1>5. CASE AutoSeal
  <2>1. evidence' \subseteq Row /\ IsFiniteSet(evidence')
    <3>1. CASE evidence' = {Sealed(r) : r \in evidence}
      <4>1. evidence' \subseteq Row
        BY <1>1, <3>1, SealedRow
      <4>2. Seals
        BY <1>5, <3>1 DEF Seals, AutoSeal, Tick
      <4> QED
        BY <1>1, <4>1, <4>2, RowsStayFinite
    <3> QED
      BY <1>1, <1>5, <3>1 DEF AutoSeal, Sealed
  <2> QED
    BY <1>1, <1>5, <2>1 DEF AutoSeal, TypeInv, TypeOK, Tick, history
<1>6. CASE Quiet \/ UNCHANGED vars
  BY <1>6 DEF Quiet, vars, TypeInv, TypeOK, case, history
<1> QED
  BY <1>2, <1>3, <1>4, <1>5, <1>6 DEF Next

LEMMA TypeHolds == Spec => []TypeInv
<1>1. ASSUME Init PROVE TypeInv
  <2>1. faults \subseteq FaultKind
    BY <1>1, UploadAssumption DEF Init
  <2>2. evidence = {} /\ IsFiniteSet(evidence)
    BY <1>1, FS_EmptySet DEF Init
  <2>3. mirrors \in [MirrorStep -> SUBSET Nat]
    BY <1>1 DEF Init
  <2> QED
    BY <1>1, <2>1, <2>2, <2>3 DEF Init, TypeInv, TypeOK, Status, Reading, Storing
<1> QED
  BY <1>1, TypeInductive, PTL DEF Spec

(* Every variable keeps its type: versions and sequence numbers are        *)
(* numbers because there are only finitely many rows.                      *)
THEOREM TypeCorrect == Spec => []TypeOK
<1>1. TypeInv => TypeOK
  BY DEF TypeInv
<1> QED
  BY <1>1, TypeHolds, PTL

-----------------------------------------------------------------------------
(* What an upload keeps while it goes on. *)
LEMMA JobGoesOn ==
    ASSUME TypeInv, NEW w \in Worker, Upload(w) \/ Crash(w)
    PROVE  /\ \A v \in Worker \ {w} : pc'[v] = pc[v] /\ job'[v] = job[v]
           /\ pc[w] # "idle"
           /\ pc'[w] = "idle" \/ GoesOn(w, pc'[w], job'[w])
           /\ pc'[w] # "idle" =>
                 /\ job[w] \in Job /\ job'[w] \in Job
                 /\ job'[w].began = job[w].began /\ job'[w].name = job[w].name
                 /\ job'[w].body = job[w].body /\ job'[w].type = job[w].type
                 /\ pc[w] # "readVersion" => job'[w].version = job[w].version
                 /\ pc[w] # "readCode" => job'[w].seq = job[w].seq
                 /\ pc[w] # "insertRow" => job'[w].id = job[w].id
                 /\ pc[w] \notin {"storeIv", "clearIv"} =>
                       job'[w].iv = job[w].iv /\ job'[w].aborted = job[w].aborted
<1>1. JobsOK /\ (pc[w] # "idle" => job[w] \in Job)
  BY JobsTyped
<1>2. CASE Ends(w)
  <2>1. pc'[w] = "idle" /\ \A v \in Worker \ {w} : pc'[v] = pc[v] /\ job'[v] = job[v]
    BY <1>1, <1>2, JobsKept DEF Ends, UploadStep
  <2> QED
    BY <1>2, <2>1 DEF Ends
<1>3. ASSUME NEW s \in UploadStep, NEW j \in Job, GoesOn(w, s, j)
      PROVE  /\ \A v \in Worker \ {w} : pc'[v] = pc[v] /\ job'[v] = job[v]
             /\ pc'[w] = s /\ job'[w] = j /\ s # "idle" /\ pc[w] # "idle"
             /\ j.began = job[w].began /\ j.name = job[w].name
             /\ j.body = job[w].body /\ j.type = job[w].type
             /\ pc[w] # "readVersion" => j.version = job[w].version
             /\ pc[w] # "readCode" => j.seq = job[w].seq
             /\ pc[w] # "insertRow" => j.id = job[w].id
             /\ pc[w] \notin {"storeIv", "clearIv"} =>
                   j.iv = job[w].iv /\ j.aborted = job[w].aborted
  <2>1. /\ \A v \in Worker \ {w} : pc'[v] = pc[v] /\ job'[v] = job[v]
        /\ pc'[w] = s /\ job'[w] = j /\ s # "idle"
    BY <1>1, <1>3, JobsKept DEF GoesOn
  <2>2. pc[w] # "idle" /\ Sets(w, j)
    BY <1>3 DEF GoesOn, MirrorStep
  <2>3. job[w] \in Job
    BY <1>1, <2>2
  <2>4. /\ j.began = job[w].began /\ j.name = job[w].name
        /\ j.body = job[w].body /\ j.type = job[w].type
    BY <2>2, <2>3 DEF Sets, Job
  <2>5. /\ pc[w] # "readVersion" => j.version = job[w].version
        /\ pc[w] # "readCode" => j.seq = job[w].seq
        /\ pc[w] # "insertRow" => j.id = job[w].id
    BY <2>2, <2>3 DEF Sets, Job
  <2>6. pc[w] \notin {"storeIv", "clearIv"} => j.iv = job[w].iv /\ j.aborted = job[w].aborted
    BY <2>2, <2>3 DEF Sets, Job
  <2> QED
    BY <2>1, <2>2, <2>4, <2>5, <2>6
<1>4. PICK j : Ends(w) \/ (j \in Job /\ \E s \in UploadStep : GoesOn(w, s, j))
  BY UploadMoves
<1> QED
  BY <1>1, <1>2, <1>3, <1>4

(* The commits have stamps of their own, after those of their requests. *)
StampInv ==
    /\ \A r \in evidence : r.began < r.at /\ r.at =< clock
    /\ \A w \in Worker : pc[w] # "idle" => job[w].began =< clock
    /\ \A q, r \in evidence : q.at = r.at => q = r

LEMMA CommittedStamps ==
    ASSUME TypeInv, StampInv, NEW w \in Worker, Commits(w)
    PROVE  /\ job[w] \in Job /\ RowToCommit(w) \in Row
           /\ RowToCommit(w).began = job[w].began /\ RowToCommit(w).at = clock + 1
           /\ job[w].began =< clock /\ RowToCommit(w).sealed = FALSE
           /\ RowToCommit(w).id = job[w].id /\ RowToCommit(w).iv = job[w].iv
           /\ RowToCommit(w).type = job[w].type /\ RowToCommit(w).seq = job[w].seq
           /\ RowToCommit(w).version = job[w].version /\ RowToCommit(w).name = job[w].name
           /\ RowToCommit(w).body = job[w].body
           /\ PathOf(RowToCommit(w)) = PathOf(job[w])
           /\ \A r \in evidence : r.at < clock + 1
<1>1. pc[w] = "commit" /\ job[w] \in Job /\ clock \in Nat /\ evidence \subseteq Row
  BY JobsTyped DEF Commits
<1>2. RowToCommit(w) \in Row
  BY <1>1, CommittedRow
<1>3. \A r \in evidence : r.at \in Nat
  BY <1>1 DEF Row
<1>4. \A r \in evidence : r.at < clock + 1
  BY <1>1, <1>3 DEF StampInv
<1> QED
  BY <1>1, <1>2, <1>4 DEF StampInv, RowToCommit, PathOf

LEMMA StampsInductive == TypeInv /\ StampInv /\ [Next]_vars => StampInv'
<1> SUFFICES ASSUME TypeInv, StampInv, [Next]_vars PROVE StampInv'
  OBVIOUS
<1>1. /\ clock \in Nat /\ evidence \subseteq Row
      /\ \A r \in evidence : r.at \in Nat /\ r.began \in Nat
      /\ \A v \in Worker : pc[v] # "idle" => job[v].began \in Nat
  <2>1. clock \in Nat /\ evidence \subseteq Row /\ \A v \in Worker : pc[v] # "idle" => job[v] \in Job
    BY JobsTyped
  <2> QED
    BY <2>1 DEF Row, Job
<1>2. ASSUME NEW w \in Worker, NEW n \in FileName, NEW b \in Content, NEW t \in EvidenceType,
             BeginUpload(w, n, b, t)
      PROVE  StampInv'
  <2>1. evidence' = evidence
    BY <1>2 DEF BeginUpload
  <2>2. clock' = clock + 1 /\ job'[w].began = clock + 1
        /\ \A v \in Worker \ {w} : pc'[v] = pc[v] /\ job'[v] = job[v]
    <3>1. NewUpload(n, b, t, clock + 1).began = clock + 1
      BY DEF NewUpload
    <3> QED
      BY <1>2, <3>1, BeginMoves
  <2> QED
    BY <1>1, <2>1, <2>2 DEF StampInv
<1>3. ASSUME NEW w \in Worker, Upload(w) \/ Crash(w) PROVE StampInv'
  <2>1. \A v \in Worker : pc'[v] # "idle" => pc[v] # "idle" /\ job'[v].began = job[v].began
    BY <1>3, JobGoesOn
  <2>2. clock' \in {clock, clock + 1}
    BY <1>3, UploadEffects
  <2>3. \A v \in Worker : pc'[v] # "idle" => job'[v].began =< clock'
    BY <1>1, <2>1, <2>2 DEF StampInv
  <2>4. CASE Commits(w)
    <3>1. evidence' = evidence \cup {RowToCommit(w)} /\ clock' = clock + 1
      BY <2>4 DEF Commits
    <3>2. /\ RowToCommit(w).began = job[w].began /\ RowToCommit(w).at = clock + 1
          /\ job[w].began =< clock /\ job[w].began \in Nat
          /\ \A r \in evidence : r.at < clock + 1
      BY <2>4, CommittedStamps DEF Job
    <3>3. \A r \in evidence' : r.began < r.at /\ r.at =< clock'
      BY <1>1, <3>1, <3>2 DEF StampInv
    <3>4. \A q, r \in evidence' : q.at = r.at => q = r
      BY <1>1, <3>1, <3>2 DEF StampInv
    <3> QED
      BY <2>3, <3>3, <3>4 DEF StampInv
  <2>5. CASE evidence' = evidence
    BY <1>1, <2>2, <2>3, <2>5 DEF StampInv
  <2> QED
    BY <1>3, <2>4, <2>5, UploadEffects
<1>4. ASSUME NEW s \in Status, EditStatus(s) PROVE StampInv'
  BY <1>1, <1>4 DEF EditStatus, StampInv, Tick
<1>5. CASE AutoSeal
  <2>1. clock' = clock + 1 /\ pc' = pc /\ job' = job
    BY <1>5 DEF AutoSeal, Tick
  <2>2. evidence' = evidence \/ evidence' = {Sealed(r) : r \in evidence}
    BY <1>5 DEF AutoSeal, Sealed
  <2>3. \A r \in evidence : Sealed(r).began = r.began /\ Sealed(r).at = r.at
    BY <1>1, SealedRow
  <2>4. \A r \in evidence' : r.began < r.at /\ r.at =< clock'
    BY <1>1, <2>1, <2>2, <2>3 DEF StampInv
  <2>5. \A q, r \in evidence' : q.at = r.at => q = r
    BY <2>2, <2>3 DEF StampInv
  <2> QED
    BY <1>1, <2>1, <2>4, <2>5 DEF StampInv
<1>6. CASE Quiet \/ UNCHANGED vars
  BY <1>6 DEF Quiet, vars, StampInv
<1> QED
  BY <1>2, <1>3, <1>4, <1>5, <1>6 DEF Next

LEMMA StampsHold == Spec => []StampInv
<1>1. Init => StampInv
  BY DEF Init, StampInv
<1> QED
  BY <1>1, StampsInductive, TypeHolds, PTL DEF Spec

-----------------------------------------------------------------------------
(* While the case is closed, every upload that runs began before it was. *)
LateInv ==
    "sql" \notin faults =>
        /\ closedAt =< clock
        /\ caseStatus = "closed" => \A w \in Worker : pc[w] # "idle" => job[w].began < closedAt
        /\ LateUploadsOverlapClosing

LEMMA LateInductive == TypeInv /\ StampInv /\ LateInv /\ [Next]_vars => LateInv'
<1> SUFFICES ASSUME TypeInv, StampInv, LateInv, [Next]_vars, "sql" \notin faults' PROVE LateInv'
  BY DEF LateInv
<1>1. /\ clock \in Nat /\ closedAt \in Nat /\ evidence \subseteq Row
      /\ \A r \in evidence : r.at \in Nat /\ r.began \in Nat
      /\ \A v \in Worker : pc[v] # "idle" => job[v].began \in Nat
  <2>1. clock \in Nat /\ evidence \subseteq Row /\ \A v \in Worker : pc[v] # "idle" => job[v] \in Job
    BY JobsTyped
  <2>2. closedAt \in Nat
    BY DEF TypeInv, TypeOK
  <2> QED
    BY <2>1, <2>2 DEF Row, Job
<1>2. ASSUME NEW w \in Worker, NEW n \in FileName, NEW b \in Content, NEW t \in EvidenceType,
             BeginUpload(w, n, b, t)
      PROVE  LateInv'
  <2>1. "sql" \notin faults /\ caseStatus # "closed" /\ caseStatus' = caseStatus
        /\ closedAt' = closedAt /\ clock' = clock + 1
    BY <1>2 DEF BeginUpload, MayFail, case, history, Tick
  <2> QED
    BY <1>1, <2>1 DEF LateInv, LateUploadsOverlapClosing
<1>3. ASSUME NEW w \in Worker, Upload(w) \/ Crash(w) PROVE LateInv'
  <2>1. \A v \in Worker : pc'[v] # "idle" => pc[v] # "idle" /\ job'[v].began = job[v].began
    BY <1>3, JobGoesOn
  <2>2. clock' \in {clock, clock + 1} /\ UNCHANGED case /\ faults' = faults
    BY <1>3, UploadEffects
  <2>3. caseStatus' = "closed" => \A v \in Worker : pc'[v] # "idle" => job'[v].began < closedAt'
    BY <2>1, <2>2 DEF LateInv, case
  <2>4. closedAt' =< clock'
    BY <1>1, <2>2 DEF LateInv, case
  <2>5. LateUploadsOverlapClosing'
    <3> SUFFICES ASSUME caseStatus = "closed", ~closing, NEW r \in evidence', ~r.sealed
                 PROVE  r.began < closedAt /\ closedAt < r.at
      BY <2>2 DEF LateUploadsOverlapClosing, case
    <3>1. CASE r \in evidence
      BY <2>2, <3>1 DEF LateInv, LateUploadsOverlapClosing
    <3>2. CASE r \notin evidence
      <4>1. Commits(w) /\ r = RowToCommit(w)
        BY <1>3, <3>2, UploadEffects DEF Commits
      <4>2. pc[w] # "idle" /\ r.began = job[w].began /\ r.at = clock + 1
        BY <4>1, CommittedStamps DEF Commits
      <4>3. job[w].began < closedAt /\ closedAt =< clock
        BY <2>2, <4>2 DEF LateInv
      <4> QED
        BY <1>1, <4>2, <4>3
    <3> QED
      BY <3>1, <3>2
  <2> QED
    BY <2>3, <2>4, <2>5 DEF LateInv
<1>4. ASSUME NEW s \in Status, EditStatus(s) PROVE LateInv'
  <2>1. /\ clock' = clock + 1 /\ caseStatus' = s /\ closing' = (s = "closed")
        /\ closedAt' = IF s = "closed" THEN clock + 1 ELSE closedAt
        /\ pc' = pc /\ job' = job /\ evidence' = evidence /\ faults' = faults
    BY <1>4 DEF EditStatus, Tick, history
  <2>2. closedAt' =< clock'
    BY <1>1, <2>1 DEF LateInv
  <2>3. s = "closed" => \A w \in Worker : pc[w] # "idle" => job[w].began < closedAt'
    BY <1>1, <2>1 DEF StampInv
  <2>4. LateUploadsOverlapClosing'
    BY <2>1 DEF LateUploadsOverlapClosing
  <2> QED
    BY <2>1, <2>2, <2>3, <2>4 DEF LateInv
<1>5. CASE AutoSeal
  <2>1. /\ clock' = clock + 1 /\ pc' = pc /\ job' = job /\ faults' = faults
        /\ UNCHANGED <<caseStatus, closedAt>>
        /\ evidence' = {Sealed(r) : r \in evidence}
    BY <1>5 DEF AutoSeal, Tick, history, MayFail, Sealed
  <2>2. \A r \in evidence' : r.sealed = TRUE
    BY <1>1, <2>1, SealedRow
  <2>3. LateUploadsOverlapClosing'
    BY <2>2 DEF LateUploadsOverlapClosing
  <2> QED
    BY <1>1, <2>1, <2>3 DEF LateInv
<1>6. CASE Quiet \/ UNCHANGED vars
  BY <1>6 DEF Quiet, vars, LateInv, LateUploadsOverlapClosing, case, history
<1> QED
  BY <1>2, <1>3, <1>4, <1>5, <1>6 DEF Next

(* When PostgreSQL raises nothing, the unsealed evidence of a closed case  *)
(* is that of uploads which began before the case was closed and committed *)
(* after it.                                                               *)
THEOREM LateCorrect == Spec => []LateUploadsOverlapClosing
<1>1. Init => LateInv
  BY DEF Init, LateInv, LateUploadsOverlapClosing
<1>2. LateInv => LateUploadsOverlapClosing
  BY DEF LateInv, LateUploadsOverlapClosing
<1> QED
  BY <1>1, <1>2, LateInductive, StampsHold, TypeHolds, PTL DEF Spec

-----------------------------------------------------------------------------
HasRow(E, n) == \E r \in E : r.id = n

(* No row is ever deleted, so what has its row keeps it. *)
LEMMA RowsStay ==
    ASSUME TypeInv, StampInv, [Next]_vars, NEW n, HasRow(evidence, n)
    PROVE  HasRow(evidence', n)
<1>1. evidence \subseteq Row
  BY JobsTyped
<1>2. ASSUME NEW w \in Worker, Upload(w) \/ Crash(w) PROVE HasRow(evidence', n)
  BY <1>2, UploadEffects DEF HasRow, Commits
<1>3. CASE AutoSeal
  <2>1. evidence' = evidence \/ evidence' = {Sealed(r) : r \in evidence}
    BY <1>3 DEF AutoSeal, Sealed
  <2>2. \A r \in evidence : Sealed(r).id = r.id
    BY <1>1, SealedRow
  <2> QED
    BY <2>1, <2>2 DEF HasRow
<1>4. CASE UNCHANGED evidence
  BY <1>4 DEF HasRow
<1> QED
  BY <1>2, <1>3, <1>4 DEF Next, BeginUpload, EditStatus, Quiet, vars

(* While PostgreSQL raises nothing, no transaction is aborted, and what is *)
(* past its commit has its row.                                            *)
StoredInv ==
    "sql" \notin faults =>
        /\ \A w \in Worker : pc[w] # "idle" => ~job[w].aborted
        /\ \A w \in Worker : pc[w] \in MirrorStep => HasRow(evidence, job[w].id)
        /\ \A n \in reported \cup UNION {mirrors[m] : m \in MirrorStep} : HasRow(evidence, n)

LEMMA StoredInductive == TypeInv /\ StampInv /\ StoredInv /\ [Next]_vars => StoredInv'
<1> SUFFICES ASSUME TypeInv, StampInv, StoredInv, [Next]_vars, "sql" \notin faults' PROVE StoredInv'
  BY DEF StoredInv
<1>1. mirrors \in [MirrorStep -> SUBSET Nat]
  BY DEF TypeInv, TypeOK
<1>2. \A n : HasRow(evidence, n) => HasRow(evidence', n)
  BY RowsStay
<1>3. ASSUME NEW w \in Worker, NEW n \in FileName, NEW b \in Content, NEW t \in EvidenceType,
             BeginUpload(w, n, b, t)
      PROVE  StoredInv'
  <2>1. mirrors' = mirrors /\ reported' = reported /\ faults' = faults
    BY <1>3 DEF BeginUpload, history
  <2>2. NewUpload(n, b, t, clock + 1).aborted = FALSE
    BY DEF NewUpload
  <2>3. /\ pc'[w] = "readVersion" /\ job'[w] = NewUpload(n, b, t, clock + 1)
        /\ \A v \in Worker \ {w} : pc'[v] = pc[v] /\ job'[v] = job[v]
    BY <1>3, BeginMoves
  <2>4. \A v \in Worker : pc'[v] # "idle" => ~job'[v].aborted
    BY <2>1, <2>2, <2>3 DEF StoredInv
  <2>5. \A v \in Worker : pc'[v] \in MirrorStep => HasRow(evidence', job'[v].id)
    BY <1>2, <2>1, <2>3 DEF StoredInv, MirrorStep
  <2> QED
    BY <1>2, <2>1, <2>4, <2>5 DEF StoredInv
<1>4. ASSUME NEW w \in Worker, Upload(w) \/ Crash(w) PROVE StoredInv'
  <2>1. faults' = faults /\ "sql" \notin faults
    BY <1>4, UploadEffects
  <2>2. \A v \in Worker \ {w} : pc'[v] = pc[v] /\ job'[v] = job[v]
    BY <1>4, JobGoesOn
  <2>3. pc'[w] # "idle" => ~job'[w].aborted
    <3> SUFFICES ASSUME pc'[w] # "idle" PROVE ~job'[w].aborted
      OBVIOUS
    <3>1. job[w] \in Job /\ GoesOn(w, pc'[w], job'[w])
      BY <1>4, JobGoesOn
    <3>2. pc[w] # "idle" /\ ~job[w].aborted
      BY <1>4, <2>1, JobGoesOn DEF StoredInv
    <3>3. Sets(w, job'[w])
      BY <3>1 DEF GoesOn
    <3> QED
      BY <2>1, <3>1, <3>2, <3>3 DEF Sets, Job
  <2>4. pc'[w] \in MirrorStep => HasRow(evidence', job'[w].id)
    <3> SUFFICES ASSUME pc'[w] \in MirrorStep PROVE HasRow(evidence', job'[w].id)
      OBVIOUS
    <3>1. GoesOn(w, pc'[w], job'[w])
      BY <1>4, JobGoesOn DEF MirrorStep
    <3>2. pc[w] = "commit" \/ pc[w] \in MirrorStep
      BY <3>1 DEF GoesOn, MirrorStep
    <3>3. job'[w].id = job[w].id
      BY <1>4, <3>2, JobGoesOn DEF MirrorStep
    <3>4. CASE pc[w] \in MirrorStep
      BY <1>2, <2>1, <3>3, <3>4 DEF StoredInv
    <3>5. CASE pc[w] = "commit"
      <4>1. ~job[w].aborted
        BY <2>1, <3>5 DEF StoredInv
      <4>2. CommitUpload(w) \/ Crash(w) \/ UploadFails(w)
        BY <1>4, <3>5
           DEF Upload, ReadVersion, ReadCode, CheckDuplicate, PutBlob, InsertRow, Encrypt,
               RemoveBlob, Reupload, StoreIv, ClearIv, Mirror, MirrorStep
      <4>3. pc'[w] # "idle" /\ DOMAIN pc = Worker
        BY JobsTyped DEF MirrorStep, JobsOK
      <4>4. CommitUpload(w)
        BY <4>2, <4>3 DEF Crash, UploadFails, Respond
      <4>5. RowToCommit(w) \in evidence' /\ RowToCommit(w).id = job[w].id
        BY <4>1, <4>4 DEF CommitUpload, RowToCommit
      <4> QED
        BY <3>3, <4>5 DEF HasRow
    <3> QED
      BY <3>2, <3>4, <3>5
  <2>5. pc[w] \in MirrorStep => HasRow(evidence', job[w].id)
    BY <1>2, <2>1 DEF StoredInv
  <2>6. \A n \in reported' : HasRow(evidence', n)
    BY <1>2, <1>4, <2>1, <2>5, UploadEffects DEF StoredInv
  <2>7. \A m \in MirrorStep : \A n \in mirrors'[m] : HasRow(evidence', n)
    BY <1>1, <1>2, <1>4, <2>1, <2>5, UploadEffects DEF StoredInv
  <2> QED
    BY <1>2, <2>1, <2>2, <2>3, <2>4, <2>6, <2>7 DEF StoredInv
<1>5. CASE UNCHANGED <<pc, job, mirrors, reported, faults>>
  BY <1>2, <1>5 DEF StoredInv
<1> QED
  BY <1>3, <1>4, <1>5 DEF Next, EditStatus, AutoSeal, Quiet, vars, history

(* MongoDB, Neo4j and the clients are told only of evidence that has its   *)
(* row in PostgreSQL, as long as no statement raises.                      *)
THEOREM ReportedCorrect == Spec => []ReportedIsStored
<1>1. Init => StoredInv
  BY DEF Init, StoredInv, MirrorStep
<1>2. StoredInv => ReportedIsStored
  BY DEF StoredInv, ReportedIsStored, HasRow
<1> QED
  BY <1>1, <1>2, StoredInductive, StampsHold, TypeHolds, PTL DEF Spec

-----------------------------------------------------------------------------
(* What a step of an upload does to the bucket. *)
LEMMA BlobSteps ==
    ASSUME TypeInv, NEW w \in Worker, Upload(w) \/ Crash(w)
    PROVE  \/ /\ blobs' = blobs
              /\ pc[w] = "putBlob" => pc'[w] = "idle"
              /\ pc[w] = "encrypt" =>
                    pc'[w] = "idle" \/ "storage" \in faults \/ "network" \in faults
           \/ /\ pc[w] = "putBlob" /\ ~IsStored(PathOf(job[w]))
              /\ blobs' = blobs \cup {Plain(w)}
              /\ pc'[w] = "insertRow" \/ (pc'[w] = "idle" /\ "network" \in faults)
           \/ /\ pc[w] = "encrypt"
              /\ blobs' = Without(PathOf(job[w])) \cup {Encrypted(w)}
              /\ pc'[w] = "storeIv" \/ (pc'[w] = "clearIv" /\ "network" \in faults)
           \/ pc[w] \in {"removeBlob", "reupload"}
<1> USE DEF Goto, Respond, MayFail
<1>1. pc \in [Worker -> UploadStep]
  BY JobsTyped DEF JobsOK
<1>2. CASE PutBlob(w)
  BY <1>1, <1>2 DEF PutBlob
<1>3. CASE Encrypt(w)
  BY <1>1, <1>3 DEF Encrypt
<1>4. CASE RemoveBlob(w) \/ Reupload(w)
  BY <1>4 DEF RemoveBlob, Reupload
<1>5. CASE ReadVersion(w) \/ ReadCode(w) \/ CheckDuplicate(w) \/ InsertRow(w) \/ StoreIv(w)
           \/ ClearIv(w) \/ CommitUpload(w)
  BY <1>5 DEF ReadVersion, ReadCode, CheckDuplicate, InsertRow, StoreIv, ClearIv, CommitUpload
<1>6. CASE UploadFails(w) \/ Crash(w)
  BY <1>1, <1>6 DEF UploadFails, Crash
<1>7. CASE \E m \in MirrorStep : Mirror(w, m)
  BY <1>7 DEF Mirror, MirrorStep
<1> QED
  BY <1>2, <1>3, <1>4, <1>5, <1>6, <1>7 DEF Upload

(* An upload that is past the first write to the bucket. *)
PastPut == {"insertRow", "encrypt", "removeBlob", "reupload", "storeIv", "clearIv", "commit"}

LEMMA PathsKept ==
    ASSUME TypeInv, NEW w \in Worker, Upload(w) \/ Crash(w), pc'[w] # "idle",
           pc[w] \notin {"readVersion", "readCode"}
    PROVE  PathOf(job'[w]) = PathOf(job[w])
BY JobGoesOn DEF PathOf

LEMMA PastPutSteps ==
    ASSUME TypeInv, NEW w \in Worker, Upload(w) \/ Crash(w)
    PROVE  /\ pc'[w] \in PastPut => pc[w] \in PastPut \cup {"putBlob"}
           /\ pc'[w] = "putBlob" => pc[w] = "checkDuplicate"
           /\ pc'[w] = "insertRow" => pc[w] = "putBlob"
           /\ pc'[w] = "encrypt" => pc[w] = "insertRow"
           /\ pc'[w] = "storeIv" => pc[w] \in {"encrypt", "reupload"}
           /\ pc'[w] = "commit" => pc[w] \in {"storeIv", "clearIv"}
           /\ pc'[w] = "clearIv" => pc[w] \in {"encrypt", "reupload", "storeIv"}
           /\ pc'[w] = "removeBlob" => pc[w] = "encrypt" /\ "storage" \in faults
           /\ pc'[w] = "reupload" => pc[w] = "removeBlob"
           /\ pc'[w] = "clearIv" /\ pc[w] = "encrypt" => "network" \in faults
           /\ pc[w] = "putBlob" => pc'[w] \in {"insertRow", "idle"}
<1>1. pc'[w] = "idle" \/ GoesOn(w, pc'[w], job'[w])
  BY JobGoesOn
<1>2. CASE pc'[w] = "idle"
  BY <1>2 DEF PastPut
<1>3. CASE GoesOn(w, pc'[w], job'[w])
  BY <1>3 DEF GoesOn, PastPut, MirrorStep
<1> QED
  BY <1>1, <1>2, <1>3

(* While the bucket refuses nothing, paths that were stored once stay, and *)
(* those of the rows and of the uploads past their first write differ.     *)
PathInv ==
    "storage" \notin faults =>
        /\ \A w \in Worker : pc[w] \notin {"removeBlob", "reupload"}
        /\ \A w \in Worker : pc[w] \in PastPut =>
              /\ IsStored(PathOf(job[w]))
              /\ \A r \in evidence : PathOf(r) # PathOf(job[w])
        /\ \A v, w \in Worker : (v # w /\ pc[v] \in PastPut /\ pc[w] \in PastPut)
                                   => PathOf(job[v]) # PathOf(job[w])
        /\ \A r \in evidence : IsStored(PathOf(r))
        /\ \A q, r \in evidence : PathOf(q) = PathOf(r) => q = r

StoredIn(B, p) == \E b \in B : b.path = p

LEMMA StoredStays ==
    ASSUME TypeInv, NEW w \in Worker, Upload(w) \/ Crash(w), pc[w] \notin {"removeBlob", "reupload"},
           NEW p, StoredIn(blobs, p)
    PROVE  StoredIn(blobs', p)
<1>1. CASE blobs' = blobs \/ blobs' = blobs \cup {Plain(w)}
  BY <1>1 DEF StoredIn
<1>2. CASE blobs' = Without(PathOf(job[w])) \cup {Encrypted(w)}
  <2>1. CASE p = PathOf(job[w])
    <3>1. Encrypted(w) \in blobs' /\ Encrypted(w).path = p
      BY <1>2, <2>1 DEF Encrypted
    <3> QED
      BY <3>1 DEF StoredIn
  <2>2. CASE p # PathOf(job[w])
    BY <1>2, <2>2 DEF StoredIn, Without
  <2> QED
    BY <2>1, <2>2
<1> QED
  BY <1>1, <1>2, BlobSteps

LEMMA PathsInductive == TypeInv /\ StampInv /\ PathInv /\ [Next]_vars => PathInv'
<1> SUFFICES ASSUME TypeInv, StampInv, PathInv, [Next]_vars, "storage" \notin faults' PROVE PathInv'
  BY DEF PathInv
<1>1. evidence \subseteq Row /\ \A r \in evidence : PathOf(Sealed(r)) = PathOf(r)
  BY JobsTyped, SealedRow
<1>2. ASSUME NEW w \in Worker, NEW n \in FileName, NEW b \in Content, NEW t \in EvidenceType,
             BeginUpload(w, n, b, t)
      PROVE  PathInv'
  <2>1. blobs' = blobs /\ evidence' = evidence /\ faults' = faults
    BY <1>2 DEF BeginUpload, history
  <2>2. \A v \in Worker : pc'[v] \in PastPut => pc'[v] = pc[v] /\ job'[v] = job[v]
    <3>1. "readVersion" \notin PastPut
      BY DEF PastPut
    <3>2. pc'[w] = "readVersion" /\ \A v \in Worker \ {w} : pc'[v] = pc[v] /\ job'[v] = job[v]
      BY <1>2, BeginMoves
    <3> QED
      BY <3>1, <3>2
  <2>3. \A v \in Worker : pc'[v] \notin {"removeBlob", "reupload"}
    BY <2>1, <2>2 DEF PathInv, PastPut
  <2> QED
    BY <2>1, <2>2, <2>3 DEF PathInv, IsStored
<1>3. ASSUME NEW w \in Worker, Upload(w) \/ Crash(w) PROVE PathInv'
  <2>1. faults' = faults /\ "storage" \notin faults
    BY <1>3, UploadEffects
  <2>2. \A v \in Worker \ {w} : pc'[v] = pc[v] /\ job'[v] = job[v]
    BY <1>3, JobGoesOn
  <2>3. pc[w] \notin {"removeBlob", "reupload"}
    BY <2>1 DEF PathInv
  <2>4. \A v \in Worker : pc'[v] \notin {"removeBlob", "reupload"}
    BY <1>3, <2>1, <2>2, <2>3, PastPutSteps DEF PathInv
  <2>5. \A p : StoredIn(blobs, p) => StoredIn(blobs', p)
    BY <1>3, <2>3, StoredStays
  <2>6. pc'[w] \in PastPut => /\ pc[w] \in PastPut \cup {"putBlob"}
                              /\ PathOf(job'[w]) = PathOf(job[w])
    BY <1>3, PastPutSteps, PathsKept DEF PastPut
  <2>7. (pc'[w] \in PastPut /\ pc[w] = "putBlob") => /\ ~StoredIn(blobs, PathOf(job[w]))
                                                     /\ blobs' = blobs \cup {Plain(w)}
    BY <1>3, BlobSteps DEF PastPut, IsStored, StoredIn
  <2>8. pc'[w] \in PastPut => StoredIn(blobs', PathOf(job[w]))
    <3>1. Plain(w).path = PathOf(job[w])
      BY DEF Plain
    <3> QED
      BY <2>1, <2>5, <2>6, <2>7, <3>1 DEF PathInv, IsStored, StoredIn
  <2>9. (pc'[w] \in PastPut /\ pc[w] = "putBlob") =>
           /\ \A r \in evidence : PathOf(r) # PathOf(job[w])
           /\ \A v \in Worker : pc[v] \in PastPut => PathOf(job[v]) # PathOf(job[w])
    BY <2>1, <2>7 DEF PathInv, IsStored, StoredIn
  <2>10. /\ \A v \in Worker : pc'[v] \in PastPut => StoredIn(blobs', PathOf(job'[v]))
         /\ \A v \in Worker : pc'[v] \in PastPut =>
               \A r \in evidence : PathOf(r) # PathOf(job'[v])
    BY <2>1, <2>2, <2>5, <2>6, <2>8, <2>9 DEF PathInv, IsStored, StoredIn
  <2>11. \A v, u \in Worker : (v # u /\ pc'[v] \in PastPut /\ pc'[u] \in PastPut)
                                 => PathOf(job'[v]) # PathOf(job'[u])
    BY <2>1, <2>2, <2>6, <2>9 DEF PathInv
  <2>12. \A r \in evidence : StoredIn(blobs', PathOf(r))
    BY <2>1, <2>5 DEF PathInv, IsStored, StoredIn
  <2>13. CASE evidence' = evidence
    BY <2>1, <2>4, <2>10, <2>11, <2>12, <2>13 DEF PathInv, IsStored, StoredIn
  <2>14. CASE Commits(w)
    <3>1. /\ evidence' = evidence \cup {RowToCommit(w)} /\ pc[w] = "commit" /\ pc[w] \in PastPut
          /\ PathOf(RowToCommit(w)) = PathOf(job[w])
      BY <2>14, CommittedStamps DEF Commits, PastPut
    <3>2. pc'[w] \notin PastPut
      BY <1>3, <3>1, PastPutSteps, JobGoesOn DEF GoesOn, PastPut, MirrorStep
    <3>3. \A q, r \in evidence' : PathOf(q) = PathOf(r) => q = r
      BY <2>1, <3>1 DEF PathInv
    <3>4. \A r \in evidence' : StoredIn(blobs', PathOf(r))
      BY <2>1, <2>5, <2>12, <3>1 DEF PathInv, IsStored, StoredIn
    <3>5. \A v \in Worker : pc'[v] \in PastPut => \A r \in evidence' : PathOf(r) # PathOf(job'[v])
      BY <2>1, <2>2, <2>10, <3>1, <3>2 DEF PathInv
    <3> QED
      BY <2>4, <2>10, <2>11, <3>3, <3>4, <3>5 DEF PathInv, IsStored, StoredIn
  <2> QED
    BY <1>3, <2>13, <2>14, UploadEffects
<1>4. CASE AutoSeal
  <2>1. UNCHANGED <<pc, job, blobs, faults>>
    BY <1>4 DEF AutoSeal, history
  <2>2. evidence' = evidence \/ evidence' = {Sealed(r) : r \in evidence}
    BY <1>4 DEF AutoSeal, Sealed
  <2>3. \A q, r \in evidence' : PathOf(q) = PathOf(r) => q = r
    BY <1>1, <2>1, <2>2 DEF PathInv
  <2>4. \A r \in evidence' : \E q \in evidence : PathOf(q) = PathOf(r)
    BY <1>1, <2>2
  <2> QED
    BY <2>1, <2>3, <2>4 DEF PathInv, IsStored
<1>5. CASE UNCHANGED <<pc, job, blobs, faults, evidence>>
  BY <1>5 DEF PathInv, IsStored
<1> QED
  BY <1>2, <1>3, <1>4, <1>5 DEF Next, EditStatus, Quiet, vars, history

LEMMA PathsHold == Spec => []PathInv
<1>1. Init => PathInv
  BY DEF Init, PathInv, PastPut
<1> QED
  BY <1>1, PathsInductive, StampsHold, TypeHolds, PTL DEF Spec

(* No two rows point to the same object of the bucket, although two        *)
(* uploads may read the same version and the same count.                   *)
THEOREM PathsCorrect == Spec => []OneRowPerPath
<1>1. PathInv => OneRowPerPath
  BY DEF PathInv, OneRowPerPath
<1> QED
  BY <1>1, PathsHold, PTL

-----------------------------------------------------------------------------
(* When only mirrors fail, an object belongs to a row or to an upload that *)
(* has written it and is not yet committed.                                *)
OrphanInv ==
    faults \subseteq {"mongo", "neo4j"} =>
        /\ \A w \in Worker : pc[w] # "idle" =>
              ~job[w].aborted /\ pc[w] \notin {"removeBlob", "reupload", "clearIv"}
        /\ \A b \in blobs :
              \/ \E r \in evidence : PathOf(r) = b.path
              \/ \E w \in Worker : pc[w] \in PastPut /\ PathOf(job[w]) = b.path

LEMMA OrphansInductive == TypeInv /\ StampInv /\ OrphanInv /\ [Next]_vars => OrphanInv'
<1> SUFFICES ASSUME TypeInv, StampInv, OrphanInv, [Next]_vars, faults' \subseteq {"mongo", "neo4j"}
             PROVE  OrphanInv'
  BY DEF OrphanInv
<1>1. evidence \subseteq Row /\ \A r \in evidence : PathOf(Sealed(r)) = PathOf(r)
  BY JobsTyped, SealedRow
<1>2. ASSUME NEW w \in Worker, NEW n \in FileName, NEW b \in Content, NEW t \in EvidenceType,
             BeginUpload(w, n, b, t)
      PROVE  OrphanInv'
  <2>1. blobs' = blobs /\ evidence' = evidence /\ faults' = faults
    BY <1>2 DEF BeginUpload, history
  <2>2. /\ pc[w] = "idle" /\ pc'[w] = "readVersion" /\ job'[w] = NewUpload(n, b, t, clock + 1)
        /\ \A v \in Worker \ {w} : pc'[v] = pc[v] /\ job'[v] = job[v]
    BY <1>2, BeginMoves
  <2>3. NewUpload(n, b, t, clock + 1).aborted = FALSE
    BY DEF NewUpload
  <2>4. \A v \in Worker : pc[v] \in PastPut => pc'[v] \in PastPut /\ job'[v] = job[v]
    BY <2>2 DEF PastPut
  <2> QED
    BY <2>1, <2>2, <2>3, <2>4 DEF OrphanInv
<1>3. ASSUME NEW w \in Worker, Upload(w) \/ Crash(w) PROVE OrphanInv'
  <2>1. faults' = faults /\ faults \subseteq {"mongo", "neo4j"}
    BY <1>3, UploadEffects
  <2>2. \A v \in Worker \ {w} : pc'[v] = pc[v] /\ job'[v] = job[v]
    BY <1>3, JobGoesOn
  <2>3. /\ ~job[w].aborted /\ pc[w] \notin {"idle", "removeBlob", "reupload", "clearIv"}
    BY <1>3, <2>1, JobGoesOn DEF OrphanInv
  <2>4. pc'[w] # "idle" => ~job'[w].aborted /\ pc'[w] \notin {"removeBlob", "reupload", "clearIv"}
    <3> SUFFICES ASSUME pc'[w] # "idle"
                 PROVE  ~job'[w].aborted /\ pc'[w] \notin {"removeBlob", "reupload", "clearIv"}
      OBVIOUS
    <3>1. job[w] \in Job /\ GoesOn(w, pc'[w], job'[w])
      BY <1>3, JobGoesOn
    <3>2. Sets(w, job'[w]) /\ "sql" \notin faults /\ "storage" \notin faults /\ "network" \notin faults
      BY <2>1, <3>1 DEF GoesOn
    <3>3. ~job'[w].aborted
      BY <2>3, <3>1, <3>2 DEF Sets, Job
    <3>4. pc'[w] = "clearIv" => pc[w] \in {"encrypt", "reupload", "storeIv"}
                                /\ (pc[w] = "encrypt" => "network" \in faults)
      BY <1>3, PastPutSteps
    <3>5. ~(pc[w] = "storeIv" /\ pc'[w] = "clearIv")
      <4>1. (pc[w] = "storeIv" /\ pc'[w] = "clearIv") => job'[w] = [job[w] EXCEPT !.aborted = TRUE]
        BY <3>1 DEF GoesOn, MirrorStep
      <4> QED
        BY <3>1, <3>3, <4>1 DEF Job
    <3>6. pc'[w] \notin {"removeBlob", "reupload"}
      BY <1>3, <2>3, <3>2, PastPutSteps
    <3> QED
      BY <2>3, <3>2, <3>3, <3>4, <3>5, <3>6
  <2>5. pc[w] \in PastPut => \/ pc'[w] \in PastPut /\ PathOf(job'[w]) = PathOf(job[w])
                             \/ \E r \in evidence' : PathOf(r) = PathOf(job[w])
    <3> SUFFICES ASSUME pc[w] \in PastPut, pc'[w] \notin PastPut
                 PROVE  \E r \in evidence' : PathOf(r) = PathOf(job[w])
      BY <1>3, PathsKept DEF PastPut
    <3>1. CommitUpload(w)
      BY <1>3, <2>1, <2>3, JobsTyped
         DEF Upload, Crash, ReadVersion, ReadCode, CheckDuplicate, PutBlob, InsertRow, Encrypt,
             StoreIv, UploadFails, Mirror, MirrorStep, MayFail, PastPut, Goto, JobsOK, Storing,
             RemoveBlob, Reupload, ClearIv
    <3>2. RowToCommit(w) \in evidence' /\ PathOf(RowToCommit(w)) = PathOf(job[w])
      BY <2>3, <3>1 DEF CommitUpload, RowToCommit, PathOf
    <3> QED
      BY <3>2
  <2>6. evidence \subseteq evidence'
    BY <1>3, UploadEffects DEF Commits
  <2>7. \A b \in blobs' : b \in blobs \/ (b.path = PathOf(job[w]) /\ pc[w] \in {"putBlob", "encrypt"}
                                          /\ pc'[w] \in {"insertRow", "storeIv"})
    BY <1>3, <2>1, <2>3, BlobSteps DEF Plain, Encrypted, Without
  <2>8. ASSUME NEW b \in blobs'
        PROVE  \/ \E r \in evidence' : PathOf(r) = b.path
               \/ \E v \in Worker : pc'[v] \in PastPut /\ PathOf(job'[v]) = b.path
    <3>1. CASE b \in blobs
      BY <2>1, <2>2, <2>5, <2>6, <3>1 DEF OrphanInv
    <3>2. CASE b \notin blobs
      BY <1>3, <2>7, <3>2, PathsKept DEF PastPut
    <3> QED
      BY <3>1, <3>2
  <2> QED
    BY <2>1, <2>2, <2>4, <2>8 DEF OrphanInv
<1>4. CASE AutoSeal
  <2>1. UNCHANGED <<pc, job, blobs, faults>>
    BY <1>4 DEF AutoSeal, history
  <2>2. evidence' = evidence \/ evidence' = {Sealed(r) : r \in evidence}
    BY <1>4 DEF AutoSeal, Sealed
  <2>3. \A r \in evidence : \E q \in evidence' : PathOf(q) = PathOf(r)
    BY <1>1, <2>2
  <2> QED
    BY <2>1, <2>3 DEF OrphanInv
<1>5. CASE UNCHANGED <<pc, job, blobs, faults, evidence>>
  BY <1>5 DEF OrphanInv
<1> QED
  BY <1>2, <1>3, <1>4, <1>5 DEF Next, EditStatus, Quiet, vars, history

(* When PostgreSQL, the bucket and the process do not fail, a refused      *)
(* upload leaves no object behind.                                         *)
THEOREM OrphansCorrect == Spec => []NoOrphans
<1>1. Init => OrphanInv
  BY DEF Init, OrphanInv
<1>2. OrphanInv => NoOrphans
  BY DEF OrphanInv, NoOrphans, PastPut, Storing
<1> QED
  BY <1>1, <1>2, OrphansInductive, StampsHold, TypeHolds, PTL DEF Spec

-----------------------------------------------------------------------------
(* The object of an upload holds its file: the plaintext until it is       *)
(* encrypted, and then what the IV it is about to store decrypts.          *)
Holds(B, p, body, key) == \E b \in B : b.path = p /\ b.body = body /\ b.key = key

ReadableInv ==
    faults \cap {"storage", "network"} = {} =>
        /\ \A w \in Worker :
              /\ pc[w] \in {"storeIv", "clearIv", "commit"} =>
                    Holds(blobs, PathOf(job[w]), job[w].body, job[w].id)
              /\ pc[w] = "clearIv" => job[w].aborted
              /\ pc[w] = "commit" => job[w].aborted \/ job[w].iv = job[w].id
        /\ \A r \in evidence : Holds(blobs, PathOf(r), r.body, r.iv)

(* Only the object of the upload itself is overwritten. *)
LEMMA HoldsStays ==
    ASSUME TypeInv, NEW w \in Worker, Upload(w) \/ Crash(w), pc[w] \notin {"removeBlob", "reupload"},
           NEW p, NEW body, NEW key, Holds(blobs, p, body, key),
           pc[w] = "encrypt" => p # PathOf(job[w])
    PROVE  Holds(blobs', p, body, key)
BY BlobSteps DEF Holds, Without

LEMMA ReadableInductive ==
    TypeInv /\ StampInv /\ PathInv /\ ReadableInv /\ [Next]_vars => ReadableInv'
<1> SUFFICES ASSUME TypeInv, StampInv, PathInv, ReadableInv, [Next]_vars,
                    faults' \cap {"storage", "network"} = {}
             PROVE  ReadableInv'
  BY DEF ReadableInv
<1>1. evidence \subseteq Row
  BY JobsTyped
<1>2. ASSUME NEW w \in Worker, NEW n \in FileName, NEW b \in Content, NEW t \in EvidenceType,
             BeginUpload(w, n, b, t)
      PROVE  ReadableInv'
  <2>1. blobs' = blobs /\ evidence' = evidence /\ faults' = faults
    BY <1>2 DEF BeginUpload, history
  <2>2. /\ pc'[w] = "readVersion"
        /\ \A v \in Worker \ {w} : pc'[v] = pc[v] /\ job'[v] = job[v]
    BY <1>2, BeginMoves
  <2>3. \A v \in Worker : pc'[v] \in {"storeIv", "clearIv", "commit"} => pc'[v] = pc[v] /\ job'[v] = job[v]
    BY <2>2
  <2> QED
    BY <2>1, <2>3 DEF ReadableInv
<1>3. ASSUME NEW w \in Worker, Upload(w) \/ Crash(w) PROVE ReadableInv'
  <2>1. faults' = faults /\ "storage" \notin faults /\ "network" \notin faults
    BY <1>3, UploadEffects
  <2>2. \A v \in Worker \ {w} : pc'[v] = pc[v] /\ job'[v] = job[v]
    BY <1>3, JobGoesOn
  <2>3. pc[w] \notin {"removeBlob", "reupload"}
    BY <2>1 DEF PathInv
  <2>4. \A v \in Worker \ {w} : pc'[v] \in {"storeIv", "clearIv", "commit"} =>
           Holds(blobs', PathOf(job'[v]), job'[v].body, job'[v].id)
    <3> SUFFICES ASSUME NEW v \in Worker \ {w}, pc[v] \in {"storeIv", "clearIv", "commit"}
                 PROVE  Holds(blobs', PathOf(job[v]), job[v].body, job[v].id)
      BY <2>2
    <3>1. pc[w] = "encrypt" => PathOf(job[v]) # PathOf(job[w])
      BY <2>1 DEF PathInv, PastPut
    <3>2. Holds(blobs, PathOf(job[v]), job[v].body, job[v].id)
      BY <2>1 DEF ReadableInv
    <3> QED
      BY <1>3, <2>3, <3>1, <3>2, HoldsStays
  <2>5. \A r \in evidence : Holds(blobs', PathOf(r), r.body, r.iv)
    <3> SUFFICES ASSUME NEW r \in evidence PROVE Holds(blobs', PathOf(r), r.body, r.iv)
      OBVIOUS
    <3>1. pc[w] = "encrypt" => PathOf(r) # PathOf(job[w])
      BY <2>1 DEF PathInv, PastPut
    <3>2. Holds(blobs, PathOf(r), r.body, r.iv)
      BY <2>1 DEF ReadableInv
    <3> QED
      BY <1>3, <2>3, <3>1, <3>2, HoldsStays
  <2>6. pc'[w] \in {"storeIv", "clearIv", "commit"} =>
           Holds(blobs', PathOf(job'[w]), job'[w].body, job'[w].id)
    <3> SUFFICES ASSUME pc'[w] \in {"storeIv", "clearIv", "commit"}
                 PROVE  Holds(blobs', PathOf(job'[w]), job'[w].body, job'[w].id)
      OBVIOUS
    <3>1. pc[w] \in {"encrypt", "storeIv", "clearIv"}
      BY <1>3, <2>1, <2>3, PastPutSteps
    <3>2. PathOf(job'[w]) = PathOf(job[w]) /\ job'[w].body = job[w].body /\ job'[w].id = job[w].id
      BY <1>3, <3>1, PathsKept, JobGoesOn
    <3>3. CASE pc[w] = "encrypt"
      <4>1. Encrypted(w) \in blobs'
        BY <1>3, <2>1, <3>3, BlobSteps
      <4>2. /\ Encrypted(w).path = PathOf(job[w]) /\ Encrypted(w).body = job[w].body
            /\ Encrypted(w).key = job[w].id
        BY DEF Encrypted
      <4> QED
        BY <3>2, <4>1, <4>2 DEF Holds
    <3>4. CASE pc[w] # "encrypt"
      BY <1>3, <2>1, <2>3, <3>1, <3>2, <3>4, HoldsStays DEF ReadableInv
    <3> QED
      BY <3>3, <3>4
  <2>7. /\ pc'[w] = "clearIv" => job'[w].aborted
        /\ pc'[w] = "commit" => job'[w].aborted \/ job'[w].iv = job'[w].id
    <3> SUFFICES ASSUME pc'[w] \in {"clearIv", "commit"}
                 PROVE  /\ pc'[w] = "clearIv" => job'[w].aborted
                        /\ pc'[w] = "commit" => job'[w].aborted \/ job'[w].iv = job'[w].id
      OBVIOUS
    <3>1. job[w] \in Job /\ GoesOn(w, pc'[w], job'[w])
      BY <1>3, JobGoesOn
    <3>2. pc[w] \in {"storeIv", "clearIv"}
      BY <1>3, <2>1, <2>3, PastPutSteps
    <3>3. pc[w] = "clearIv" => job[w].aborted
      BY <2>1 DEF ReadableInv
    <3> QED
      BY <3>1, <3>2, <3>3 DEF GoesOn, Job, MirrorStep
  <2>8. \A r \in evidence' : Holds(blobs', PathOf(r), r.body, r.iv)
    <3>1. CASE evidence' = evidence
      BY <2>5, <3>1
    <3>2. CASE Commits(w)
      <4>1. evidence' = evidence \cup {RowToCommit(w)} /\ pc[w] = "commit" /\ job[w].iv = job[w].id
        BY <2>1, <3>2 DEF Commits, ReadableInv
      <4>2. /\ PathOf(RowToCommit(w)) = PathOf(job[w]) /\ RowToCommit(w).body = job[w].body
            /\ RowToCommit(w).iv = job[w].iv
        BY <3>2, CommittedStamps
      <4>3. Holds(blobs, PathOf(job[w]), job[w].body, job[w].id)
        BY <2>1, <4>1 DEF ReadableInv
      <4>4. Holds(blobs', PathOf(job[w]), job[w].body, job[w].id)
        BY <1>3, <2>3, <4>1, <4>3, HoldsStays
      <4> QED
        BY <2>5, <4>1, <4>2, <4>4
    <3> QED
      BY <1>3, <3>1, <3>2, UploadEffects
  <2> QED
    BY <2>1, <2>2, <2>4, <2>6, <2>7, <2>8 DEF ReadableInv
<1>4. CASE AutoSeal
  <2>1. UNCHANGED <<pc, job, blobs, faults>>
    BY <1>4 DEF AutoSeal, history
  <2>2. evidence' = evidence \/ evidence' = {Sealed(r) : r \in evidence}
    BY <1>4 DEF AutoSeal, Sealed
  <2>3. \A r \in evidence :
           PathOf(Sealed(r)) = PathOf(r) /\ Sealed(r).body = r.body /\ Sealed(r).iv = r.iv
    BY <1>1, SealedRow
  <2>4. \A r \in evidence' : \E q \in evidence :
           PathOf(q) = PathOf(r) /\ q.body = r.body /\ q.iv = r.iv
    BY <2>2, <2>3
  <2>5. \A r \in evidence' : faults \cap {"storage", "network"} = {} => Holds(blobs, PathOf(r), r.body, r.iv)
    BY <2>4 DEF ReadableInv
  <2> QED
    BY <2>1, <2>5 DEF ReadableInv
<1>5. CASE UNCHANGED <<pc, job, blobs, faults, evidence>>
  BY <1>5 DEF ReadableInv
<1> QED
  BY <1>2, <1>3, <1>4, <1>5 DEF Next, EditStatus, Quiet, vars, history

(* What a download serves for a row is the file that was uploaded, as long *)
(* as the bucket does what it is asked: its object holds the body,         *)
(* encrypted under the IV of the row, or in plaintext when it has none.    *)
THEOREM ReadableCorrect == Spec => []RowsAreReadable
<1>1. Init => ReadableInv
  BY DEF Init, ReadableInv
<1>2. ReadableInv => RowsAreReadable
  BY DEF ReadableInv, RowsAreReadable, Holds
<1> QED
  BY <1>1, <1>2, ReadableInductive, PathsHold, StampsHold, TypeHolds, PTL DEF Spec

-----------------------------------------------------------------------------
(* How many rows of a type a SELECT COUNT finds. *)
RowsOf(E, t) == {r \in E : r.type = t}
Count(E, t)  == Cardinality(RowsOf(E, t))

LEMMA CountIsNumber ==
    ASSUME NEW E, IsFiniteSet(E), NEW t
    PROVE  IsFiniteSet(RowsOf(E, t)) /\ Count(E, t) \in Nat
<1>1. IsFiniteSet(RowsOf(E, t))
  BY FS_Subset DEF RowsOf
<1> QED
  BY <1>1, FS_CardinalityType DEF Count

(* A commit adds one to the number of its type, the seals to none. *)
LEMMA CountCommits ==
    ASSUME TypeInv, StampInv, NEW w \in Worker, Commits(w), NEW t
    PROVE  Count(evidence', t) = IF t = job[w].type THEN Count(evidence, t) + 1 ELSE Count(evidence, t)
<1>1. /\ evidence' = evidence \cup {RowToCommit(w)} /\ RowToCommit(w).type = job[w].type
      /\ RowToCommit(w) \notin evidence
  <2>1. RowToCommit(w).at = clock + 1 /\ clock \in Nat /\ \A r \in evidence : r.at < clock + 1
    BY CommittedStamps, JobsTyped
  <2>2. RowToCommit(w) \notin evidence
    BY <2>1
  <2> QED
    BY <2>2, CommittedStamps DEF Commits
<1>2. IsFiniteSet(RowsOf(evidence, t)) /\ RowToCommit(w) \notin RowsOf(evidence, t)
  BY <1>1, CountIsNumber DEF TypeInv, RowsOf
<1>3. CASE t = job[w].type
  <2>1. RowsOf(evidence', t) = RowsOf(evidence, t) \cup {RowToCommit(w)}
    BY <1>1, <1>3 DEF RowsOf
  <2> QED
    BY <1>2, <1>3, <2>1, FS_AddElement DEF Count
<1>4. CASE t # job[w].type
  BY <1>1, <1>4 DEF RowsOf, Count
<1> QED
  BY <1>3, <1>4

LEMMA CountSealed ==
    ASSUME TypeInv, StampInv, Seals, NEW t
    PROVE  Count(evidence', t) = Count(evidence, t)
<1> DEFINE S == RowsOf(evidence, t)
           T == RowsOf(evidence', t)
           f == [r \in S |-> Sealed(r)]
<1>1. evidence \subseteq Row /\ \A r \in evidence : Sealed(r).type = r.type /\ Sealed(r).at = r.at
  BY JobsTyped, SealedRow
<1>2. f \in [S -> T]
  BY <1>1 DEF RowsOf, Seals
<1>3. \A a, b \in S : f[a] = f[b] => a = b
  BY <1>1 DEF StampInv, RowsOf
<1>4. \A y \in T : \E x \in S : f[x] = y
  BY <1>1 DEF RowsOf, Seals
<1>5. f \in Bijection(S, T)
  <2> HIDE DEF S, T, f
  <2> QED
    BY <1>2, <1>3, <1>4 DEF Bijection, Injection, Surjection, IsInjective
<1>6. IsFiniteSet(S)
  BY CountIsNumber DEF TypeInv
<1> HIDE DEF S, T, f
<1>7. Cardinality(T) = Cardinality(S)
  BY <1>5, <1>6, FS_Bijection DEF ExistsBijection
<1> QED
  BY <1>7 DEF Count, S, T

(* What was committed before an upload began has a smaller version and a   *)
(* smaller sequence number, once the upload has read its own.              *)
Precedes(r, x) ==
    /\ r.name = x.name => r.version < x.version
    /\ r.type = x.type => r.seq < x.seq

PastCode == Storing \cup {"checkDuplicate"}

TwinInv ==
    /\ \A r \in evidence : r.seq =< Count(evidence, r.type)
    /\ \A w \in Worker : pc[w] \in PastCode \cup {"readCode"} =>
          \A r \in evidence : (r.at =< job[w].began /\ r.name = job[w].name)
                                 => r.version < job[w].version
    /\ \A w \in Worker : pc[w] \in PastCode =>
          /\ job[w].seq =< Count(evidence, job[w].type) + 1
          /\ \A r \in evidence : (r.at =< job[w].began /\ r.type = job[w].type)
                                    => r.seq < job[w].seq
    /\ \A q, r \in evidence : r.at =< q.began => Precedes(r, q)

LEMMA TwinsStep ==
    ASSUME TypeInv, StampInv, TwinInv, NEW w \in Worker, Upload(w) \/ Crash(w), evidence' = evidence
    PROVE  TwinInv'
<1>1. \A v \in Worker \ {w} : pc'[v] = pc[v] /\ job'[v] = job[v]
  BY JobGoesOn
<1>2. ASSUME pc'[w] \in PastCode \cup {"readCode"}
      PROVE  /\ job'[w].name = job[w].name /\ job'[w].began = job[w].began
             /\ \A r \in evidence : (r.at =< job[w].began /\ r.name = job[w].name)
                                       => r.version < job'[w].version
  <2>1. job[w] \in Job /\ GoesOn(w, pc'[w], job'[w])
    BY <1>2, JobGoesOn DEF PastCode, Storing
  <2>2. job'[w].name = job[w].name /\ job'[w].began = job[w].began
    BY <1>2, JobGoesOn DEF PastCode, Storing
  <2>3. CASE pc[w] = "readVersion"
    <3>1. job'[w] = [job[w] EXCEPT !.version = NextVersion(job[w].name)]
      BY <2>1, <2>3 DEF GoesOn, Sets
    <3>2. job'[w].version = NextVersion(job[w].name)
      BY <2>1, <3>1 DEF Job
    <3>3. \A r \in evidence : r.name = job[w].name => r.version < NextVersion(job[w].name)
      BY NextVersions, JobsTyped DEF TypeInv
    <3> QED
      BY <2>2, <3>2, <3>3
  <2>4. CASE pc[w] # "readVersion"
    <3>1. pc[w] \in PastCode \cup {"readCode"}
      BY <1>2, <2>1, <2>4 DEF GoesOn, PastCode, Storing, MirrorStep
    <3>2. job'[w].version = job[w].version
      BY <1>2, <2>4, JobGoesOn DEF PastCode, Storing
    <3> QED
      BY <2>2, <3>1, <3>2 DEF TwinInv
  <2> QED
    BY <2>3, <2>4
<1>3. ASSUME pc'[w] \in PastCode
      PROVE  /\ job'[w].type = job[w].type /\ job'[w].began = job[w].began
             /\ job'[w].seq =< Count(evidence, job[w].type) + 1
             /\ \A r \in evidence : (r.at =< job[w].began /\ r.type = job[w].type)
                                       => r.seq < job'[w].seq
  <2>1. job[w] \in Job /\ GoesOn(w, pc'[w], job'[w])
    BY <1>3, JobGoesOn DEF PastCode, Storing
  <2>2. job'[w].type = job[w].type /\ job'[w].began = job[w].began
    BY <1>3, JobGoesOn DEF PastCode, Storing
  <2>3. CASE pc[w] = "readCode"
    <3>1. job'[w] = [job[w] EXCEPT !.seq = Cardinality(OfType(job[w].type)) + 1]
      BY <2>1, <2>3 DEF GoesOn, Sets
    <3>2. job'[w].seq = Count(evidence, job[w].type) + 1
      BY <2>1, <3>1 DEF Job, OfType, Count, RowsOf
    <3>3. Count(evidence, job[w].type) \in Nat
      BY CountIsNumber DEF TypeInv
    <3>4. \A r \in evidence : r.type = job[w].type => r.seq < Count(evidence, job[w].type) + 1
      <4>1. evidence \subseteq Row /\ \A r \in evidence : r.seq \in Nat
        BY JobsTyped DEF Row
      <4> QED
        BY <3>3, <4>1 DEF TwinInv
    <3> QED
      BY <2>2, <3>2, <3>3, <3>4
  <2>4. CASE pc[w] # "readCode"
    <3>1. pc[w] \in PastCode
      BY <1>3, <2>1, <2>4 DEF GoesOn, PastCode, Storing, MirrorStep
    <3>2. job'[w].seq = job[w].seq
      BY <1>3, <2>4, JobGoesOn DEF PastCode, Storing
    <3> QED
      BY <2>2, <3>1, <3>2 DEF TwinInv
  <2> QED
    BY <2>3, <2>4
<1> QED
  BY <1>1, <1>2, <1>3 DEF TwinInv

LEMMA TwinsCommit ==
    ASSUME TypeInv, StampInv, TwinInv, NEW w \in Worker, Upload(w) \/ Crash(w), Commits(w)
    PROVE  TwinInv'
<1> DEFINE x == RowToCommit(w)
<1>1. /\ evidence' = evidence \cup {x} /\ pc[w] = "commit" /\ pc[w] \in PastCode
      /\ job[w] \in Job /\ clock \in Nat
      /\ x.began = job[w].began /\ x.at = clock + 1 /\ job[w].began =< clock
      /\ x.type = job[w].type /\ x.seq = job[w].seq
      /\ x.version = job[w].version /\ x.name = job[w].name
      /\ \A r \in evidence : r.at < clock + 1
  BY CommittedStamps, JobsTyped DEF Commits, PastCode, Storing
<1>2. \A v \in Worker \ {w} : pc'[v] = pc[v] /\ job'[v] = job[v]
  BY JobGoesOn
<1>3. pc'[w] \notin PastCode \cup {"readCode"}
  BY <1>1, JobGoesOn DEF GoesOn, PastCode, Storing, MirrorStep
<1>4. /\ \A r \in evidence : r.at \in Nat /\ r.began \in Nat /\ r.seq \in Nat /\ r.version \in Nat
      /\ \A v \in Worker : pc[v] # "idle" => job[v].began \in Nat /\ job[v].seq \in Nat
  <2>1. evidence \subseteq Row /\ \A v \in Worker : pc[v] # "idle" => job[v] \in Job
    BY JobsTyped
  <2> QED
    BY <2>1 DEF Row, Job
<1>5. \A t : /\ Count(evidence', t) \in {Count(evidence, t), Count(evidence, t) + 1}
             /\ t = job[w].type => Count(evidence', t) = Count(evidence, t) + 1
             /\ Count(evidence, t) \in Nat
  BY CountCommits, CountIsNumber DEF TypeInv
<1>6. \A v \in Worker : pc[v] # "idle" => job[v].began =< clock
  BY DEF StampInv
<1> HIDE DEF x
<1>7. \A r \in evidence' : r.seq =< Count(evidence', r.type)
  <2>1. x.seq =< Count(evidence', x.type)
    BY <1>1, <1>5 DEF TwinInv
  <2>2. ASSUME NEW r \in evidence PROVE r.seq =< Count(evidence', r.type)
    <3>1. r.seq =< Count(evidence, r.type) /\ r.seq \in Nat
      BY <1>4 DEF TwinInv
    <3> QED
      BY <1>5, <3>1
  <2> QED
    BY <1>1, <2>1, <2>2
<1>8. ASSUME NEW v \in Worker, pc'[v] \in PastCode \cup {"readCode"}
      PROVE  /\ v # w /\ pc'[v] = pc[v] /\ job'[v] = job[v]
             /\ job[v].began \in Nat /\ job[v].began < x.at
  <2>1. v # w /\ pc'[v] = pc[v] /\ job'[v] = job[v] /\ pc[v] # "idle"
    BY <1>2, <1>3, <1>8 DEF PastCode, Storing
  <2> QED
    BY <1>1, <1>4, <1>6, <2>1
<1>9. \A v \in Worker : pc'[v] \in PastCode \cup {"readCode"} =>
         \A r \in evidence' : (r.at =< job'[v].began /\ r.name = job'[v].name)
                                 => r.version < job'[v].version
  BY <1>1, <1>8 DEF TwinInv
<1>10. \A v \in Worker : pc'[v] \in PastCode =>
         /\ job'[v].seq =< Count(evidence', job'[v].type) + 1
         /\ \A r \in evidence' : (r.at =< job'[v].began /\ r.type = job'[v].type)
                                    => r.seq < job'[v].seq
  <2> SUFFICES ASSUME NEW v \in Worker, pc'[v] \in PastCode
               PROVE  /\ job[v].seq =< Count(evidence', job[v].type) + 1
                      /\ \A r \in evidence' : (r.at =< job[v].began /\ r.type = job[v].type)
                                                 => r.seq < job[v].seq
    BY <1>8
  <2>1. pc[v] \in PastCode /\ job[v].began < x.at /\ job[v].began \in Nat /\ pc[v] # "idle"
    BY <1>8 DEF PastCode, Storing
  <2>2. job[v].seq =< Count(evidence, job[v].type) + 1 /\ job[v].seq \in Nat
    BY <1>4, <2>1 DEF TwinInv
  <2>3. job[v].seq =< Count(evidence', job[v].type) + 1
    BY <1>5, <2>2
  <2>4. \A r \in evidence' : (r.at =< job[v].began /\ r.type = job[v].type) => r.seq < job[v].seq
    BY <1>1, <2>1 DEF TwinInv
  <2> QED
    BY <2>3, <2>4
<1>11. \A q, r \in evidence' : r.at =< q.began => Precedes(r, q)
  <2>1. \A r \in evidence : r.at =< x.began => Precedes(r, x)
    BY <1>1 DEF TwinInv, Precedes
  <2>2. \A q \in evidence : ~(x.at =< q.began)
    BY <1>1, <1>4 DEF StampInv
  <2>3. ~(x.at =< x.began)
    BY <1>1, <1>4
  <2> QED
    BY <1>1, <2>1, <2>2, <2>3 DEF TwinInv
<1> QED
  BY <1>7, <1>9, <1>10, <1>11 DEF TwinInv

LEMMA TwinsSeal ==
    ASSUME TypeInv, StampInv, TwinInv, Seals, pc' = pc, job' = job
    PROVE  TwinInv'
<1>1. \A r \in evidence : /\ Sealed(r).name = r.name /\ Sealed(r).version = r.version
                          /\ Sealed(r).type = r.type /\ Sealed(r).seq = r.seq
                          /\ Sealed(r).at = r.at /\ Sealed(r).began = r.began
  BY JobsTyped, SealedRow
<1>2. \A r \in evidence' : \E q \in evidence : /\ q.name = r.name /\ q.version = r.version
                                               /\ q.type = r.type /\ q.seq = r.seq
                                               /\ q.at = r.at /\ q.began = r.began
  BY <1>1 DEF Seals
<1>3. \A t : Count(evidence', t) = Count(evidence, t)
  BY CountSealed
<1>4. \A r \in evidence' : r.seq =< Count(evidence', r.type)
  BY <1>2, <1>3 DEF TwinInv
<1>5. \A w \in Worker : pc[w] \in PastCode \cup {"readCode"} =>
         \A r \in evidence' : (r.at =< job[w].began /\ r.name = job[w].name)
                                 => r.version < job[w].version
  BY <1>2 DEF TwinInv
<1>6. \A w \in Worker : pc[w] \in PastCode =>
         /\ job[w].seq =< Count(evidence', job[w].type) + 1
         /\ \A r \in evidence' : (r.at =< job[w].began /\ r.type = job[w].type)
                                    => r.seq < job[w].seq
  BY <1>2, <1>3 DEF TwinInv
<1>7. \A q, r \in evidence' : r.at =< q.began => Precedes(r, q)
  <2> SUFFICES ASSUME NEW q \in evidence', NEW r \in evidence', r.at =< q.began
               PROVE  Precedes(r, q)
    OBVIOUS
  <2>1. PICK p \in evidence : p.name = q.name /\ p.version = q.version
                              /\ p.type = q.type /\ p.seq = q.seq /\ p.began = q.began
    BY <1>2
  <2>2. PICK s \in evidence : s.name = r.name /\ s.version = r.version
                              /\ s.type = r.type /\ s.seq = r.seq /\ s.at = r.at
    BY <1>2
  <2>3. Precedes(s, p)
    BY <2>1, <2>2 DEF TwinInv
  <2> QED
    BY <2>1, <2>2, <2>3 DEF Precedes
<1> QED
  BY <1>4, <1>5, <1>6, <1>7 DEF TwinInv

LEMMA TwinsInductive == TypeInv /\ StampInv /\ TwinInv /\ [Next]_vars => TwinInv'
<1> SUFFICES ASSUME TypeInv, StampInv, TwinInv, [Next]_vars PROVE TwinInv'
  OBVIOUS
<1>1. ASSUME NEW w \in Worker, NEW n \in FileName, NEW b \in Content, NEW t \in EvidenceType,
             BeginUpload(w, n, b, t)
      PROVE  TwinInv'
  <2>1. evidence' = evidence
    BY <1>1 DEF BeginUpload
  <2>2. /\ pc'[w] = "readVersion"
        /\ \A v \in Worker \ {w} : pc'[v] = pc[v] /\ job'[v] = job[v]
    BY <1>1, BeginMoves
  <2>3. "readVersion" \notin PastCode \cup {"readCode"}
    BY DEF PastCode, Storing
  <2>4. \A v \in Worker : pc'[v] \in PastCode \cup {"readCode"} => pc'[v] = pc[v] /\ job'[v] = job[v]
    BY <2>2, <2>3
  <2> QED
    BY <2>1, <2>4 DEF TwinInv
<1>2. ASSUME NEW w \in Worker, Upload(w) \/ Crash(w) PROVE TwinInv'
  BY <1>2, UploadEffects, TwinsStep, TwinsCommit
<1>3. CASE AutoSeal
  <2>1. pc' = pc /\ job' = job /\ (evidence' = evidence \/ Seals)
    BY <1>3 DEF AutoSeal, Seals, Sealed, Tick
  <2>2. CASE evidence' = evidence
    BY <2>1, <2>2 DEF TwinInv
  <2> QED
    BY <2>1, <2>2, TwinsSeal
<1>4. CASE UNCHANGED <<pc, job, evidence>>
  BY <1>4 DEF TwinInv
<1> QED
  BY <1>1, <1>2, <1>3, <1>4 DEF Next, EditStatus, Quiet, vars

(* Rows of the same file name and version, or of the same code, come from  *)
(* uploads that overlapped, whatever failed between them.                  *)
THEOREM TwinsCorrect == Spec => []TwinsOverlap
<1>1. Init => TwinInv
  BY DEF Init, TwinInv, PastCode, Storing
<1>2. TypeInv /\ TwinInv => TwinsOverlap
  <2> SUFFICES ASSUME TypeInv, TwinInv, NEW q \in evidence, NEW r \in evidence,
                      (q.name = r.name /\ q.version = r.version) \/ Code(q) = Code(r)
               PROVE  q.began < r.at /\ r.began < q.at
    BY DEF TwinsOverlap, Overlap
  <2>1. /\ q.began \in Nat /\ q.at \in Nat /\ q.version \in Nat /\ q.seq \in Nat
        /\ r.began \in Nat /\ r.at \in Nat /\ r.version \in Nat /\ r.seq \in Nat
    BY JobsTyped DEF Row
  <2>2. (q.name = r.name /\ q.version = r.version) \/ (q.type = r.type /\ q.seq = r.seq)
    BY DEF Code
  <2>3. ~Precedes(q, r) /\ ~Precedes(r, q)
    BY <2>1, <2>2 DEF Precedes
  <2>4. ~(r.at =< q.began) /\ ~(q.at =< r.began)
    BY <2>3 DEF TwinInv
  <2> QED
    BY <2>1, <2>4
<1> QED
  BY <1>1, <1>2, TwinsInductive, StampsHold, TypeHolds, PTL DEF Spec

=============================================================================
