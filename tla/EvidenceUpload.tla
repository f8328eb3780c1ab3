-------------------------- MODULE EvidenceUpload --------------------------
(***************************************************************************)
(* POST /evidence/add (routes/evidence.py) on one case: the upload         *)
(* pipeline over PostgreSQL, the Supabase blob store, MongoDB and Neo4j,   *)
(* run by concurrent request workers while the case is edited.  Versions,  *)
(* evidence codes, the duplicate check and blob paths are all scoped to    *)
(* the case, so one case is enough.                                        *)
(*                                                                         *)
(* The PostgreSQL transaction stays open around the two calls to the blob  *)
(* store.  A blob is not part of any transaction.                          *)
(***************************************************************************)
EXTENDS Integers, FiniteSets

CONSTANTS
    Worker,     \* requests that may be served at the same time
    FileName,   \* original_filename
    Content,    \* what the SHA-256 of a file tells apart
    FaultSets,  \* what may go wrong: one of these sets of faults, in each behaviour
    MaxClock    \* bound: nothing starts once the clock has reached it

(* "sql": a statement or a commit raises.  "storage": the blob store       *)
(* refuses a call with StorageApiError.  "network": a call to the blob     *)
(* store raises something else, after the store did what it was asked or   *)
(* before.  "crash": the process that serves a request is killed.          *)
FaultKind == {"sql", "storage", "network", "mongo", "neo4j", "crash"}

ASSUME UploadAssumption ==
    /\ FaultSets \subseteq SUBSET FaultKind
    /\ MaxClock \in Nat

EvidenceType == {"digital", "physical"}
Status       == {"open", "closed", "archived"}

VARIABLES
    clock,      \* ticks when a request begins and at every commit
    caseStatus, \* cases.status
    closing,    \* an edit_case has closed the case and not auto-sealed yet
    closedAt,   \* history: when the case was last closed
    evidence,   \* committed rows of table evidence
    nextId,     \* the sequence behind evidence_id
    blobs,      \* objects in the bucket evidence-files
    mirrors,    \* what each mirror write has recorded, by evidence_id
    pc,         \* the statement each worker executes next
    job,        \* the local variables of the request each worker serves
    faults,     \* the faults of this behaviour
    reported    \* history: uploads whose client was told of success

history == <<faults, reported>>

vars == <<clock, caseStatus, closing, closedAt, evidence, nextId, blobs, mirrors,
          pc, job, history>>

(* The writes after the commit, in their order: the case activity log, the *)
(* version and metadata documents, the graph node, the audit log.          *)
MirrorStep == {"caseLog", "versionDoc", "metadataDoc", "graphNode", "auditLog"}

(* The evidence code is {case}{D|P}{seq}[-v{version}] and the path of the  *)
(* blob is case_{case}/{code}/v{version}_{filename}.                       *)
Code(x)   == [type |-> x.type, seq |-> x.seq, version |-> x.version]
PathOf(x) == [type |-> x.type, seq |-> x.seq, version |-> x.version, name |-> x.name]
Path      == [type: EvidenceType, seq: Nat, version: Nat, name: FileName]

(* key is the evidence_id whose derived key and random IV encrypted the    *)
(* body, 0 for plaintext; a row's iv is read the same way, 0 for NULL.     *)
Blob == [path: Path, body: Content, key: Nat]

Row == [id: Nat, type: EvidenceType, seq: Nat, version: Nat, name: FileName,
        body: Content, iv: Nat, sealed: BOOLEAN,
        began: Nat, at: Nat]            \* history: the request and its commit

(* version, seq and id are 0 until they are read; iv is what the open      *)
(* transaction holds; aborted is the state of that transaction.            *)
NoJob == <<>>
Job == [type: EvidenceType, seq: Nat, version: Nat, name: FileName, body: Content,
        id: Nat, iv: Nat, aborted: BOOLEAN, began: Nat]

Reading      == {"readVersion", "readCode", "checkDuplicate"}
Storing      == {"putBlob", "insertRow", "encrypt", "removeBlob", "reupload",
                 "storeIv", "clearIv", "commit"}

-----------------------------------------------------------------------------
Init ==
    /\ clock = 0
    /\ caseStatus = "open" /\ closing = FALSE /\ closedAt = 0
    /\ evidence = {} /\ nextId = 1
    /\ blobs = {}
    /\ mirrors = [m \in MirrorStep |-> {}]
    /\ pc = [w \in Worker |-> "idle"]
    /\ job = [w \in Worker |-> NoJob]
    /\ faults \in FaultSets
    /\ reported = {}

MayFail(fault) == fault \in faults
Tick == clock' = clock + 1
Goto(w, step) == pc' = [pc EXCEPT ![w] = step]
Respond(w) ==
    /\ pc' = [pc EXCEPT ![w] = "idle"]
    /\ job' = [job EXCEPT ![w] = NoJob]

case == <<caseStatus, closing, closedAt>>

-----------------------------------------------------------------------------
(* Mutant: only archived cases are checked for. *)
BeginUploadArchived(w, n, b, t) ==
    /\ pc[w] = "idle"
    /\ clock < MaxClock
    /\ caseStatus = "archived" => MayFail("sql")
    /\ Tick
    /\ Goto(w, "readVersion")
    /\ job' = [job EXCEPT ![w] =
                  [type |-> t, seq |-> 0, version |-> 0, name |-> n, body |-> b,
                   id |-> 0, iv |-> 0, aborted |-> FALSE, began |-> clock']]
    /\ UNCHANGED <<case, evidence, nextId, blobs, mirrors, history>>

(* The form is complete.  The status check has a connection of its own;    *)
(* when that raises, the handler passes and goes on.                       *)
BeginUpload(w, n, b, t) ==
    /\ pc[w] = "idle"
    /\ clock < MaxClock
    /\ caseStatus \in {"closed", "archived"} => MayFail("sql")
    /\ Tick
    /\ Goto(w, "readVersion")
    /\ job' = [job EXCEPT ![w] =
                  [type |-> t, seq |-> 0, version |-> 0, name |-> n, body |-> b,
                   id |-> 0, iv |-> 0, aborted |-> FALSE, began |-> clock']]
    /\ UNCHANGED <<case, evidence, nextId, blobs, mirrors, history>>

(* get_next_version_for_filename: MAX(version) + 1 of the file name, on a  *)
(* connection of its own.                                                  *)
VersionsOf(n) == {r.version : r \in {x \in evidence : x.name = n}}

(* Mutant: MAX(version), not + 1. *)
LastVersion(n) ==
    IF VersionsOf(n) = {} THEN 1
    ELSE CHOOSE v \in VersionsOf(n) : \A u \in VersionsOf(n) : u =< v

NextVersion(n) ==
    IF VersionsOf(n) = {} THEN 1
    ELSE 1 + CHOOSE v \in VersionsOf(n) : \A u \in VersionsOf(n) : u =< v

ReadVersion(w) ==
    /\ pc[w] = "readVersion"
    /\ job' = [job EXCEPT ![w].version = NextVersion(job[w].name)]
    /\ Goto(w, "readCode")
    /\ UNCHANGED <<clock, case, evidence, nextId, blobs, mirrors, history>>

(* generate_evidence_code: the rows of the type, + 1.  This SELECT opens   *)
(* the transaction in which the row will be inserted.                      *)
ReadCode(w) ==
    /\ pc[w] = "readCode"
    /\ job' = [job EXCEPT ![w].seq =
                  Cardinality({r \in evidence : r.type = job[w].type}) + 1]
    /\ Goto(w, "checkDuplicate")
    /\ UNCHANGED <<clock, case, evidence, nextId, blobs, mirrors, history>>

CheckDuplicate(w) ==
    /\ pc[w] = "checkDuplicate"
    /\ IF \E r \in evidence : r.name = job[w].name /\ r.body = job[w].body
       THEN Respond(w)
       ELSE Goto(w, "putBlob") /\ UNCHANGED job
    /\ UNCHANGED <<clock, case, evidence, nextId, blobs, mirrors, history>>

-----------------------------------------------------------------------------
IsStored(p)  == \E b \in blobs : b.path = p
Without(p)   == {b \in blobs : b.path # p}
Plain(w)     == [path |-> PathOf(job[w]), body |-> job[w].body, key |-> 0]
Encrypted(w) == [path |-> PathOf(job[w]), body |-> job[w].body, key |-> job[w].id]

(* Mutant: the first upload is an upsert too. *)
PutBlobUpsert(w) ==
    /\ pc[w] = "putBlob"
    /\ blobs' = Without(PathOf(job[w])) \cup {Plain(w)}
    /\ Goto(w, "insertRow")
    /\ UNCHANGED <<clock, case, evidence, nextId, mirrors, job, history>>

(* upload_file_to_supabase does not overwrite: a path that exists is a 409 *)
(* and ends the upload.                                                    *)
PutBlob(w) ==
    /\ pc[w] = "putBlob"
    /\ \/ /\ IsStored(PathOf(job[w])) \/ MayFail("storage") \/ MayFail("network")
          /\ Respond(w) /\ UNCHANGED blobs
       \/ /\ ~IsStored(PathOf(job[w]))
          /\ blobs' = blobs \cup {Plain(w)}
          /\ \/ Goto(w, "insertRow") /\ UNCHANGED job
             \/ MayFail("network") /\ Respond(w)
    /\ UNCHANGED <<clock, case, evidence, nextId, mirrors, history>>

(* Mutant: duplicates are left to a unique constraint of the table. *)
InsertRowUnique(w) ==
    /\ pc[w] = "insertRow"
    /\ IF \E r \in evidence : r.name = job[w].name /\ r.body = job[w].body
       THEN Respond(w) /\ UNCHANGED nextId
       ELSE /\ job' = [job EXCEPT ![w].id = nextId]
            /\ nextId' = nextId + 1
            /\ Goto(w, "encrypt")
    /\ UNCHANGED <<clock, case, evidence, blobs, mirrors, history>>

(* INSERT ... RETURNING evidence_id, with encryption_iv NULL. *)
InsertRow(w) ==
    /\ pc[w] = "insertRow"
    /\ job' = [job EXCEPT ![w].id = nextId]
    /\ nextId' = nextId + 1
    /\ Goto(w, "encrypt")
    /\ UNCHANGED <<clock, case, evidence, blobs, mirrors, history>>

(* upload_encrypted_bytes_to_supabase, first try: an upsert.  A            *)
(* StorageApiError leads to remove and re-upload, anything else out of the *)
(* function.                                                               *)
Encrypt(w) ==
    /\ pc[w] = "encrypt"
    /\ \/ /\ blobs' = Without(PathOf(job[w])) \cup {Encrypted(w)}
          /\ \/ Goto(w, "storeIv")
             \/ MayFail("network") /\ Goto(w, "clearIv")
       \/ MayFail("storage") /\ Goto(w, "removeBlob") /\ UNCHANGED blobs
       \/ MayFail("network") /\ Goto(w, "clearIv") /\ UNCHANGED blobs
    /\ UNCHANGED <<clock, case, evidence, nextId, mirrors, job, history>>

RemoveBlob(w) ==
    /\ pc[w] = "removeBlob"
    /\ \/ blobs' = Without(PathOf(job[w]))
       \/ UNCHANGED blobs /\ (MayFail("storage") \/ MayFail("network"))
    /\ Goto(w, "reupload")
    /\ UNCHANGED <<clock, case, evidence, nextId, mirrors, job, history>>

(* Without upsert: a path that is there (again) is refused. *)
Reupload(w) ==
    /\ pc[w] = "reupload"
    /\ \/ /\ ~IsStored(PathOf(job[w]))
          /\ blobs' = blobs \cup {Encrypted(w)}
          /\ \/ Goto(w, "storeIv")
             \/ MayFail("network") /\ Goto(w, "clearIv")
       \/ /\ IsStored(PathOf(job[w])) \/ MayFail("storage") \/ MayFail("network")
          /\ Goto(w, "clearIv") /\ UNCHANGED blobs
    /\ UNCHANGED <<clock, case, evidence, nextId, mirrors, job, history>>

(* Mutant: the IV is computed and not written. *)
StoreIvDropped(w) ==
    /\ pc[w] = "storeIv"
    /\ Goto(w, "commit")
    /\ UNCHANGED <<clock, case, evidence, nextId, blobs, mirrors, job, history>>

(* UPDATE ... SET encryption_iv: when it raises, PostgreSQL aborts the     *)
(* transaction and the handler goes to its "mark as unencrypted" branch.   *)
StoreIv(w) ==
    /\ pc[w] = "storeIv"
    /\ \/ /\ job' = [job EXCEPT ![w].iv = job[w].id]
          /\ Goto(w, "commit")
       \/ /\ MayFail("sql")
          /\ job' = [job EXCEPT ![w].aborted = TRUE]
          /\ Goto(w, "clearIv")
    /\ UNCHANGED <<clock, case, evidence, nextId, blobs, mirrors, history>>

(* UPDATE ... SET encryption_iv = NULL; its exception is swallowed, but an *)
(* exception aborts the transaction, and one that is aborted refuses it.   *)
ClearIv(w) ==
    /\ pc[w] = "clearIv"
    /\ \/ ~job[w].aborted /\ job' = [job EXCEPT ![w].iv = 0]
       \/ MayFail("sql") /\ job' = [job EXCEPT ![w].aborted = TRUE]
    /\ Goto(w, "commit")
    /\ UNCHANGED <<clock, case, evidence, nextId, blobs, mirrors, history>>

RowToCommit(w) ==
    [id |-> job[w].id, type |-> job[w].type, seq |-> job[w].seq,
     version |-> job[w].version, name |-> job[w].name, body |-> job[w].body,
     iv |-> job[w].iv, sealed |-> FALSE, began |-> job[w].began, at |-> clock + 1]

(* The COMMIT of an aborted transaction is a rollback that raises nothing: *)
(* the handler goes on as if the row were there.  A commit whose answer is *)
(* lost leaves the row there and the handler in its except branch.         *)
CommitUpload(w) ==
    /\ pc[w] = "commit"
    /\ Tick
    /\ IF job[w].aborted
       THEN UNCHANGED evidence
       ELSE evidence' = evidence \cup {RowToCommit(w)}
    /\ \/ Goto(w, "caseLog") /\ UNCHANGED job
       \/ MayFail("sql") /\ Respond(w)
    /\ UNCHANGED <<case, nextId, blobs, mirrors, history>>

(* A statement raises outside the encryption block, or the commit does:    *)
(* rollback (or a 500).  What is in the blob store stays there.            *)
UploadFails(w) ==
    /\ MayFail("sql")
    /\ pc[w] \in Reading \cup {"insertRow", "commit"}
    /\ Respond(w)
    /\ UNCHANGED <<clock, case, evidence, nextId, blobs, mirrors, history>>

(* Five writes, each in a try of its own. *)
After(m) == CASE m = "caseLog"     -> "versionDoc"
              [] m = "versionDoc"  -> "metadataDoc"
              [] m = "metadataDoc" -> "graphNode"
              [] m = "graphNode"   -> "auditLog"

Mirror(w, m) ==
    /\ pc[w] = m
    /\ \/ mirrors' = [mirrors EXCEPT ![m] = @ \cup {job[w].id}]
       \/ /\ MayFail(IF m = "graphNode" THEN "neo4j" ELSE "mongo")
          /\ UNCHANGED mirrors
    /\ IF m = "auditLog"
       THEN Respond(w) /\ reported' = reported \cup {job[w].id}
       ELSE Goto(w, After(m)) /\ UNCHANGED <<job, reported>>
    /\ UNCHANGED <<clock, case, evidence, nextId, blobs, faults>>

Upload(w) ==
    \/ ReadVersion(w) \/ ReadCode(w) \/ CheckDuplicate(w)
    \/ PutBlob(w) \/ InsertRow(w) \/ Encrypt(w) \/ RemoveBlob(w) \/ Reupload(w)
    \/ StoreIv(w) \/ ClearIv(w) \/ CommitUpload(w) \/ UploadFails(w)
    \/ \E m \in MirrorStep : Mirror(w, m)

Crash(w) ==
    /\ MayFail("crash")
    /\ pc[w] # "idle"
    /\ Respond(w)
    /\ UNCHANGED <<clock, case, evidence, nextId, blobs, mirrors, history>>

-----------------------------------------------------------------------------
(* edit_case: the status in one transaction, and for a closing the seals   *)
(* in a second one, whose failure is swallowed.  ChainOfCustody has the    *)
(* whole handler; here edits come one at a time, and the UPDATE of the     *)
(* second is one step with its commit: nothing is unsealed in between, and *)
(* a row that commits then is met by neither, like one that commits later. *)
EditStatus(s) ==
    /\ clock < MaxClock /\ ~closing
    /\ Tick
    /\ caseStatus' = s
    /\ closing' = (s = "closed")
    /\ closedAt' = IF s = "closed" THEN clock + 1 ELSE closedAt
    /\ UNCHANGED <<evidence, nextId, blobs, mirrors, pc, job, history>>

AutoSeal ==
    /\ closing
    /\ closing' = FALSE
    /\ Tick
    /\ \/ evidence' = {[r EXCEPT !.sealed = TRUE] : r \in evidence}
       \/ MayFail("sql") /\ UNCHANGED evidence
    /\ UNCHANGED <<caseStatus, closedAt, nextId, blobs, mirrors, pc, job, history>>

(* All requests the bound allows have been served. *)
Quiet ==
    /\ clock >= MaxClock /\ ~closing
    /\ \A w \in Worker : pc[w] = "idle"
    /\ UNCHANGED vars

Next ==
    \/ \E w \in Worker :
          \/ \E n \in FileName, b \in Content, t \in EvidenceType : BeginUpload(w, n, b, t)
          \/ Upload(w)
          \/ Crash(w)
    \/ \E s \in Status : EditStatus(s)
    \/ AutoSeal
    \/ Quiet

Spec == Init /\ [][Next]_vars

-----------------------------------------------------------------------------
(* Type invariant. *)
TypeOK ==
    /\ clock \in Nat
    /\ caseStatus \in Status /\ closing \in BOOLEAN /\ closedAt \in Nat
    /\ evidence \subseteq Row
    /\ nextId \in Nat
    /\ blobs \subseteq Blob
    /\ mirrors \in [MirrorStep -> SUBSET Nat]
    /\ pc \in [Worker -> {"idle"} \cup Reading \cup Storing \cup MirrorStep]
    /\ job \in [Worker -> {NoJob} \cup Job]
    /\ \A w \in Worker : pc[w] # "idle" => job[w] \in Job
    /\ faults \subseteq FaultKind
    /\ reported \subseteq Nat

(* No two rows of evidence point to the same object of the bucket: the     *)
(* upload that finds the path taken ends with a 409, although both may     *)
(* have read the same version and the same count.  It rests on the blob    *)
(* store not refusing the overwrite with the ciphertext.                   *)
OneRowPerPath ==
    "storage" \notin faults =>
        \A q, r \in evidence : PathOf(q) = PathOf(r) => q = r

(* What download_evidence serves for a row is the file that was uploaded:  *)
(* its object is there and holds the body, encrypted under the row's IV,   *)
(* or in plaintext when the row has none.  It rests on the blob store      *)
(* doing what it is asked, not on PostgreSQL or on the process.            *)
RowsAreReadable ==
    faults \cap {"storage", "network"} = {} =>
        \A r \in evidence :
            \E b \in blobs : b.path = PathOf(r) /\ b.body = r.body /\ b.key = r.iv

(* Two uploads of which neither committed before the other began. *)
Overlap(q, r) == q.began < r.at /\ r.began < q.at

(* Two rows of the same file name and version, or of the same code, come   *)
(* from uploads that overlapped: uploads one after the other never get the *)
(* same, whatever failed between them.                                     *)
TwinsOverlap ==
    \A q, r \in evidence :
        /\ q # r
        /\ \/ q.name = r.name /\ q.version = r.version
           \/ Code(q) = Code(r)
        => Overlap(q, r)

(* The unsealed evidence of a closed case is that of uploads which began   *)
(* before the case was closed and committed after it.  It rests on         *)
(* PostgreSQL: the status check and the auto-seal both carry on when a     *)
(* statement of theirs raises.                                             *)
LateUploadsOverlapClosing ==
    "sql" \notin faults /\ caseStatus = "closed" /\ ~closing =>
        \A r \in evidence : ~r.sealed => r.began < closedAt /\ closedAt < r.at

(* When PostgreSQL, the bucket and the process do not fail, an object in   *)
(* the bucket belongs to a row or to an upload that is still running: a    *)
(* refused upload leaves nothing behind.                                   *)
NoOrphans ==
    faults \subseteq {"mongo", "neo4j"} =>
        \A b \in blobs :
            \/ \E r \in evidence : PathOf(r) = b.path
            \/ \E w \in Worker : pc[w] \in Storing /\ PathOf(job[w]) = b.path

(* MongoDB, Neo4j and the answer to the client tell only of evidence that  *)
(* is in PostgreSQL, as long as no statement raises (see MetadataIsInDB).  *)
ReportedIsStored ==
    "sql" \notin faults =>
        \A n \in reported \cup UNION {mirrors[m] : m \in MirrorStep} :
            \E r \in evidence : r.id = n

-----------------------------------------------------------------------------
(* routes/evidence.py:243, "don't roll back -- file is in Supabase,        *)
(* metadata is in DB", which the code does not keep to: an upload that     *)
(* carried on after a failed encryption and told its client of success has *)
(* its metadata in the database.                                           *)
MetadataIsInDB == \A n \in reported : \E r \in evidence : r.id = n

=============================================================================
