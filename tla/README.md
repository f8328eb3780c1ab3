# A TLA+ verification project for COC-System

COC-System keeps digital and physical evidence for investigations: a Flask
back end over PostgreSQL (cases, evidence, chain of custody), MongoDB (logs and
documents that are only ever inserted), Neo4j (the custody graph) and a Supabase
bucket (the files). This directory models the parts of it whose correctness
depends on the order of things: requests that run at the same time, stores that
fail one by one, processes that die between two writes. The modules are written
from the source; the line each definition stands for is in `PROJECT.json`, `map`.

## Inventory

| Component | State | Operations | What makes it correct |
|---|---|---|---|
| custody transfer (`routes/custody.py`) | `coc_logs`; MongoDB `custody_logs`; Neo4j `CustodyEvent` | transfer | only who had the evidence gives it; no transfer of sealed evidence or in a closed case; the mirrors follow PostgreSQL; what is reported is committed |
| custody view, graph API, anomaly endpoint (`routes/custody.py`, `dbs/neo4j_db.py`, `cyber/query_interface.py`) | none | chain, gaps, cycles, exchanges, graph, network of a user | a gap is reported when there is one; three detectors agree on one chain |
| seal, unseal (`routes/evidence.py`) | `evidence.is_sealed`; audit and activity logs; seal events | seal, unseal | logs and graph tell of committed changes |
| case editing (`routes/cases.py`) | `cases.status` | edit, auto-seal on closing | a closed case gets all its evidence sealed |
| case creation (`routes/cases.py`) | `cases`; case nodes; logs | add | only who may creates one; the mirrors tell of stored cases |
| upload (`routes/evidence.py`, `dbs/supabase_storage.py`) | `evidence`; the bucket; five mirror writes | add | one object per row; a row's object can be decrypted; versions and codes are distinct; nothing reported that is not stored |
| integrity engine (`cyber/integrity_engine.py`, `routes/analytics.py`) and the two verify routes (`routes/evidence.py`) | `evidence_verification_history`, `last_verified_at`, verification events | verify one, all of a case, those due, in bulk | events belong to committed history rows; what has passed is committed; no verification blocks another for good |
| download, signed URL (`routes/evidence.py`) | MongoDB `evidence_download_logs`; URLs that are valid | download, signed_url | nothing leaves without its log; access needs a role or a live grant |
| case access (`routes/cases.py`) | `case_access`; audit log | grant, revoke, list | the answer and the audit log agree with the row; what is revoked ends |
| login, sessions, roles (`routes/auth.py`, `app.py`, `dbs/mongo_db.py`) | `users`, `login_attempts`, `security_alerts`; cookies; the key of each process | login, logout, restart | one brute-force alert per burst, and at least one; a logout ends the session |
| demo guard (`routes/demo_guard.py`) | a flag per process | before_request | demo sessions modify nothing |
| simulator and experiments (`simulate_data.py`, `run_experiments.py`, `cyber_experiments.py`, `run_cyber_experiments.py`) | rows, documents, events and files of ids | runs with and without `--clear`; three experiments | files, documents and events belong to rows; what is injected is found, and what is missed is missed for a known reason |
| report of a case (`routes/other.py`) | none | count, list | it lists what it counted |
| analytics, other pages | none | single reads, aggregations | |

How they interact. A request is one thread of one handler; handlers share nothing
but the four stores and the cookie of their browser. PostgreSQL is written first,
in one transaction (two for the closing of a case); after the commit the handler
calls the MongoDB and Neo4j writers one by one, mostly each in a `try` that
swallows. There is no queue, no background job and no reconciliation: what is not
written by the handler is never written.

What is hard: checks and writes in different statements at READ COMMITTED
without a lock; connections of their own for some of the reads; timestamps that
are the start of a transaction; a commit whose answer is lost; a commit of an
aborted transaction, which is a rollback that raises nothing; blobs that no
transaction covers; Cypher queries that match nothing and so write nothing;
swallowed exceptions. `PROJECT.json`, `hazards`, lists each at its line.

## Modules

| Module | What it is |
|---|---|
| `ChainOfCustody` | transfer, seal, unseal, edit and auto-seal over the three databases |
| `CustodyLedger` | the abstract ledger that the handlers promise |
| `ChainOfCustodyInv` | inductive invariants of `ChainOfCustody`, its refinement of `CustodyLedger` |
| `CustodyReaders` | the queries and detectors over rows and graph, as operators |
| `CustodyAudit` | transfers and seals with the two clocks, seen through `CustodyReaders` |
| `EvidenceUpload` | the upload over PostgreSQL, the bucket and the mirrors, while its case is edited |
| `IntegrityVerification` | the engine, quick and bulk verification beside the auto-seal, with PostgreSQL's row locks |
| `EvidenceAccess` | download, signed URL, grant, revoke and the page of grants |
| `Sessions` | login, logout, cookies and keys, demo guard, roles, the alert, case creation |
| `SimulatedCustody` | what one run of the simulator makes of one piece of evidence, and experiment 2 |
| `SimulationRuns` | run after run of the simulator, cleared or not, and experiments 1 and 3 |
| `ChainOfCustodyProofs`, `CustodyAuditProofs`, `EvidenceUploadProofs`, `IntegrityVerificationProofs`, `EvidenceAccessProofs`, `SessionsProofs`, `SimulatedCustodyProofs`, `SimulationRunsProofs` | the theorems about the module each is named after |
| `MC...` | instances for TLC: constant functions and symmetry |

How they compose. `CustodyReaders` is extended by the two modules that have
chains to read, `CustodyAudit` (those of the application) and `SimulatedCustody`
(those of the simulator). `ChainOfCustodyInv` instantiates `CustodyLedger`.
`case editing` appears wherever it changes something a component reads: whole in
`ChainOfCustody`, its two transactions in `EvidenceUpload`, its row locks in
`IntegrityVerification`. Who is logged in is the matter of `Sessions`; elsewhere a
user is an input of a request.

### ChainOfCustody

State and code: `caseStatus`, `sealed` and `cocLogs` are the columns and the
committed rows of PostgreSQL; `nextLogId` is the sequence of `log_id`, which a
rollback does not reset; `custodyDocs`, `logs`, `graphEvidence`,
`graphTransfers`, `graphSeals` are the collections of MongoDB and the nodes of
Neo4j; `pc` and `job` are the next statement and the local variables of each
request. `reported`, `sealLog` and `statusLog` are history.

Each SQL statement of `transfer_custody` is an action (`CheckCase`, `CheckSeal`,
`ReadHolder`, `InsertRow`, `CommitTransfer`), since at READ COMMITTED each sees
what is committed when it starts. A transaction that updates one row by its id
(`ChangeSeal`, `EditCase`) locks it up to the commit and is one action. The
auto-seal is two, `AutoSeal` and `CommitAutoSeal`: its UPDATE locks the rows it
matches (`Locked`), and neither matches nor locks what is sealed already, so that
an unseal of such a row may commit in between. Then there is one action per call of a mirror.
`MayFail(store)` gives each the branch in which the call raises; where the code
swallows, the handler goes on, where it does not it answers with an error. Each
behaviour picks at its start, from the constant `FaultSets`, the set `faults` of
the things that may go wrong in it; a property that rests on a store working
says so by naming `faults`. So one run can check what holds under any failure
together with what holds when nothing fails.
`CommitTransfer`, `ChangeSeal`, `EditCase` and `CommitAutoSeal` also have the branch
in which the commit takes effect and its answer does not arrive. `Crash` kills
the process of a request at any statement. `NeoAddEvidence` is the late Neo4j
write of the upload that created the evidence, and it may never come.

`clock` is PostgreSQL's. It ticks when a transfer begins and at each commit. A
row carries `ts`, its column `timestamp` (`NOW()` is the start of the
transaction; psycopg2 sends `BEGIN` before the first statement), and `at`, the
instant of its commit. The start instants of two transfers are distinct: the
column has microseconds, and equal ones would only leave open which of two
overlapping rows counts as last.

Abstracted: reasons, locations, names, IP addresses, the times in MongoDB and
Neo4j; who may call a route (roles); `is_active`, which no route sets to FALSE.
A MongoDB document of a transfer carries the `log_id` in the model so that it
can be compared with its row; the code stores evidence and users only. A store
call that raises has had no effect, except for the commits named above.

### CustodyLedger

Three sets: the entries, the documents, the events. Entries appear one at a
time under a fresh id and from somebody who held the evidence; copies of
entries appear in the two other sets; nothing changes or vanishes.
`ImplementsLedger` maps `cocLogs` without its times to the entries,
`custodyDocs` to the documents, `graphTransfers` to the events.

### EvidenceUpload

One case, because versions, codes, duplicates and paths are per case. The reads
of version (a connection of its own), code and duplicate are one action each,
then the plaintext object, the INSERT, the overwrite with the ciphertext (with
the branch of `upload_encrypted_bytes_to_supabase` that removes and uploads
again), the UPDATE of the IV or its clearing, the commit, five mirror writes.
A blob is a path, a body and the evidence_id whose derived key encrypted it, 0
for plaintext: AES-CBC with a random IV and a derived key is the pair, and a row
decrypts it when its `iv` is of the same upload. Calls to the bucket fail in two
ways, because the code tells them apart: `StorageApiError` (nothing happened)
and anything else (it may have happened). `job.aborted` is PostgreSQL's aborted
transaction.

Abstracted: the RSA signature (its failure is swallowed and stored as NULL), the
e-mail-like details of the form, the texts of the logs. Case edits come one at a time
here and evidence is not unsealed, so that the auto-seal is one action; `ChainOfCustody` has the whole of
`edit_case` and the unseal route.

### IntegrityVerification

The engine fetches no file: `cyber/integrity_engine.py:64-80` compares the stored
hash with itself ("simulate verification"). So no property here says that a
changed file is found (README.md:71 of the repository says "A single tampered byte
anywhere in the chain causes verification to fail"; this code does not look at a
byte), and the module models what a verification does leave:
`last_verified_at`, the history row, the graph event that is written before the
commit, the logs after it, and the answer.

A request keeps what it has listed in `job.todo`. An engine request then runs one
transaction per item (`BeginVerification`, `WriteEvent`, `Update`,
`CommitVerification` or `VerificationFails`, `LogVerification`); bulk
verification and the auto-seal run one transaction over all their rows
(`UpdateRows`, `LockRow`, `CommitRows` or `RowsFail`). Here, unlike in the other
modules, `lock` holds the row locks, because transactions of several rows can
wait for each other. PostgreSQL makes the statement of one of those in a cycle
raise: `Deadlocked` is that cycle, `RowsFail` the raise. The lists for what is due
and for bulk are ordered by age and by `evidence_id`, which are the same order;
an UPDATE of several rows takes them in the order of the table's pages, which can
be any.

Abstracted: all evidence is in one case, is active and has a stored hash (upload
always stores one); the seal of a single item, which updates one row and so can be
in no deadlock; the threshold is a number of ticks.

### CustodyReaders and CustodyAudit

`CustodyReaders` has the readers as operators over `rows`, in the order of their
timestamps, and `graph`, the events of the evidence with their edges: the chain
from Neo4j (`NeoChain`), `Gaps` and `NeoCycles` of the view, the fallback of the
view and of the graph page to the rows (`ViewGaps`, `ShownGraph`), and the three
rules of the anomaly endpoint (`GapAnomalies`, `CycleAnomalies`, `Exchanges`) over
`FullChain`, which is the graph's if it returns anything and else PostgreSQL's.
The argument `up` says whether Neo4j answered or raised, for readers that discard
what they have read when a query raises. Two keep it: `FullChain` has the first
`read` events when the query raises while its result is iterated, and `Network`
sends two queries, of which `answered` are before one raises; the rows are asked
only when nothing was read. `Exchanges` drops a pair
when the digits of its users occur in the text of an earlier finding; users and
steps are numbers of one digit here, for which "the digits occur" is equality
with a user or step named there. `NeoGraph` has every edge that is drawn: of the
case, of its creator (`CREATED`) and of the uploader (`UPLOADED`), each only if it
is there, of custody and of verification events; `SqlGraph` has no verifications.
Left out: colours and labels. All queries of one page see one graph, and graph and
rows are those of one piece of evidence, also for the network of a user.

`CustodyAudit` has one piece of evidence. `rows` are inserted in the order in
which their transactions began; the event of a row is stamped by the handler's
clock (`Stamp`) after the commit, so the two orders may differ. `ChangeSeal`,
`StampSeal`, `GraphSeal` put seal events, which have no recipient, between the
transfers; a report counts in one statement and lists in another. `NeoAddEvidence` and `NeoAddUploaded` are the two runs of
`neo_add_evidence`, and the `CREATED` edge may have failed before; either run of the
upload may never come. `NeoAddVerification` adds verification events. The status of
the case is left out, which `ChainOfCustody` has. `overlaps` is history: the
transfers that were served at the same time.

### EvidenceAccess

A download and a request for a signed URL read the row, check role and grant,
fetch the file or sign the URL, log, and deliver; each exception path has its
step. MongoDB and the bucket may do what they are asked and lose the answer. A
grant or revocation commits, reads the name, writes the audit log, and answers
with one or two messages; the page of a case reads the granted users and those on
offer in two statements. A URL works for whoever knows it until `Expire`.
`epoch`, `entitled`, `served` and `crossed` are history. The audit log of a
download, whose failure is swallowed and which nothing reads, is left out.

### Sessions

A session lives in the cookie of a browser, signed with the key of the process
that set it; `proc` has each process's key and whether it runs in demo mode. A
request takes the session of its cookie when it begins and its answer sets, keeps
or clears the cookie when it arrives, however late. Login checks the password,
upgrades the hash, stamps the session and logs; a failed login records the
attempt, counts, looks for an alert and raises one; `POST /cases/add` is the
write behind the demo guard and the two decorators, with its node and its log.
`Restart` draws a new key. `Threshold` and `Window` are 5 and 10 minutes in the
code. The log of a logout, whose failure is swallowed, is left out.

### SimulatedCustody

One simulated piece of evidence goes through `main()`: a chain without gaps and
its first copy to Neo4j, then a broken chain, a cycle and an insider, each drawn
or not (`NotDrawn`) and each with a copy of its own, which may stop at any row.
The first copy draws the edge of the giver in the direction opposite to that of
the others and of all queries. A chain passes among a pool of `Actors` users, as
many as the code samples. Experiment 2 of the three scripts is a set of
queries over rows and graph; LIMITs are left out. An evidence has at most one
insider row. Assumed: the second phase of `create_custody_events` adds nothing,
which is so unless fewer than 300 of the 1000 planned items came into being; and the
session's time zone is UTC, so that times as text have the order of the times.

### SimulationRuns

`Script` is the sequence of stages of `main()`: commit to PostgreSQL, documents,
copy, file of ids. Anything may stop the script; a clear may roll back in
PostgreSQL (`ClearRollsBack`, where the sequences keep their new values) and still
clear the other stores; what Neo4j raises is only printed. `run` marks what
belongs to which run, which nothing in the stores does, so that ids handed out
twice can be told apart. `hist` is history, and remembers which store a clear has
left. Experiments 1 and 3 are operators; the counts experiment 3 compares are an
input (`Profile`), since 200 users are beyond a model. Of each anomaly there is
one, and one row stands for the rows of a chain or a cycle.

`CreateEvidence` has the silent rollback: when the UPDATE after the upload of a
file raises (`simulate_data.py:896`), the commit in the handler (904) undoes the
INSERT without a word, while the id, the documents and the node stay.
`CreateCustodyEvents` then commits the rows of some items at a time, with their
documents, as the code does every 500 events, and `CustodyOfLostRow` is the
`KeyError` at the item that is not there, which ends the script.

Left out of both: the generated files in the bucket, timings, experiment 4 (which
measures a real machine), the text of the reports.

## Properties

In `ChainOfCustody`:

* `GapNeedsOverlap`: a gap in the chain comes from transfers that overlapped.
* `SealStopsLaterTransfers`, `CloseStopsLaterTransfers`: what the two unlocked
  checks do give. Evidence sealed (a case closed) before a transfer began stays
  where it is unless it was unsealed (reopened) before the transfer committed.
* `LogsTellTheTruth`: nothing is logged that PostgreSQL does not hold.
* `ImplementsLedger`: the refinement of `CustodyLedger`.
* `CloseSealsAll`, `TransfersReachMirrors`: liveness. Where nothing fails, a closing
  ends with each piece of evidence sealed or unsealed after the closing, be it
  before the auto-seal has committed; and transfers are mirrored.
* Proved, and in no run: `MirrorsFollowLedger` and `ReportedIsCommitted` (nothing
  is copied or reported that is not committed), `GiverHeldIt` (a giver is the
  uploader or an earlier recipient), `InductiveInv`.

In `CustodyAudit`:

* `EventsFollowRows`: an event has its row, and is in another order than the rows
  only if the transfers overlapped.
* `ReadersAgree`: view and anomaly endpoint show the same gaps when the graph is
  complete and has no seals.
* `GraphShowsTheRows`: what the graph page leaves out of the rows is not in Neo4j,
  and what it adds are seals and verifications.
* `OnlySealsHideGaps`: a gap the view shows and the anomaly endpoint does not has
  a seal or an unseal in it.
* `OmissionsHaveACause`: a row is missing from an answer only if Neo4j lacks it and
  holds something else, or if a query raised after part of the answer was read.
* `CyclesNeedGaps`, `ExchangesAreReported`: what the other two rules add, and what
  the digits rule never hides altogether.
* Proved, and in no run: `ReportListsWhatItCounts`.

In `EvidenceUpload`:

* `OneRowPerPath`, `RowsAreReadable`, `NoOrphans`: rows and objects agree.
* `TwinsOverlap`: equal versions or codes come from uploads that overlapped.
* `LateUploadsOverlapClosing`: only an upload that was running while the case
  was closed leaves unsealed evidence in it.
* Proved, and in no run: `ReportedIsStored`.

In `IntegrityVerification`:

* `GoesBackOnlyByOverlap`: `last_verified_at` moves back only when transactions
  overlapped.
* `EventsHaveHistory`: an event of the graph has its history row, or its
  verification is running or was rolled back. The last case is what the code
  allows by writing the event first; nothing removes such an event.
* `OnlySealsDeadlock`, `VerificationsEnd`: verifications alone cannot deadlock;
  everything ends.
* Proved, and in no run: `PassedIsCommitted` (what a client is told has passed is
  committed).

In `EvidenceAccess`:

* `OnlyEntitledAreServed`: whoever is served was entitled while the request ran.
* `NothingLeavesUnlogged`: no file or URL leaves without its log.
* `AuditFollowsTable`: the audit log ends with what `case_access` says, unless
  changes overlapped or something failed.
* Proved, and in no run: `ToldChangesAreAudited`, `PageShowsEachOnce`.

In `Sessions`:

* `DemoWritesNothing`: whatever process answers, with whatever key.
* `LogoutHolds`: only a login or a late answer brings a session back.
* `AlertsAreSpaced`, `BruteForceIsRaised`: one alert per window unless attempts
  overlapped, and one wherever enough attempts failed.
* Proved, and in no run: `CreatorsLoggedIn`, `LoginsAreRecorded`, `CasesAreMirrored`.

In `SimulatedCustody`:

* `GapsAreMissedForAReason`, `CopiesAreFound`: when the SQL query misses an
  injected gap; what the graph queries find once it is copied.
* `ViewMissesInjectedGaps`: what the opposite edge hides from the custody view, and
  who still shows it: the view's own SQL fallback, and the anomaly endpoint, whose
  chain keeps events without a giver.
* `FalseGapsHaveACause`: what is counted as a gap without being one.
* Proved, and in no run: `SelfJoinReturnsEverything`.

In `SimulationRuns`:

* `FilesFollowTables`, `DocsMatchRows`, `EventsStandForOneRow`: files, documents
  and events belong to rows, but for what a failing clear has left.
* `LostRowEndsRun`: a run that lost the row of an item never completes, and no item
  from there on has rows of custody.
* `InjectedAreFound`: a completed run's anomalies are found, and who else is
  accused comes from an earlier run.
* `FewAreOutliers`: a threshold of k deviations flags everybody or few.

Each property of a run has a mutant in `PROJECT.json`: a definition changed the way
a plausible bug would change it, under which the run finds the property violated.
The mutated operators stand before the definition they change, marked `Mutant`.
The type invariants, and some properties that are proved for all instances, are in
no run: the proofs say more.

## Runs

`tlc -workers 2 -config <cfg> <module>`; all passing runs are exhaustive.

| Run (`MC<run>.cfg`) | Instance | Distinct states | Shows |
|---|---|---|---|
| Transfers | 2 workers, 1 evidence, 3 users, MaxClock 4; SQL, Neo4j, crashes | 6,609,911 | safety of transfers, inductive invariants, refinement |
| Answers | 2 workers, 2 evidence, 2 users, MaxClock 2, fair; no failures, or all | 546,878 | truthful logs; when nothing fails closing seals all but what is unsealed after it, and transfers reach the mirrors |
| Uploads | 2 workers, 2 names, 2 contents, MaxClock 3; the mirrors, or SQL and crashes, or the bucket | 6,176,523 | rows, objects, versions, codes, orphans, late uploads |
| Verification | 2 workers, 2 evidence, MaxClock 2; SQL and crashes, or MongoDB and Neo4j | 7,410,793 | times, history, events, answers, deadlocks |
| VerificationsEnd | 2 workers, 2 evidence, MaxClock 3, fair; no failures, or crashes | 499,563 | every verification and closing ends |
| Audit | 3 users, 2 workers, MaxRows 3, MaxSeals 1; no failures, or SQL, Neo4j and crashes | 1,830,444 | what three detectors say of one chain, what they leave out, and the order of events |
| Graphs | 2 users, 2 workers, MaxRows 2, MaxSeals 1, MaxChecks 1, reports; no failures, or SQL, Neo4j and crashes | 267,194 | what the graph page leaves out and adds |
| Access | 1 open and 1 restricted user, 2 workers, MaxRequests 1, MaxChanges 3; no failures, or SQL and the bucket, or MongoDB and crashes | 2,178,118 | who is served, what is logged |
| Sessions | 1 browser, 2 processes, 2 workers, MaxRequests 3, MaxKeys 3, MaxClock 2, Threshold 2, Window 1; no failures, or SQL and Neo4j, or MongoDB | 3,527,178 | sessions, demo guard, alerts |
| Simulation | 3 users, of whom 2 in a pool, 3 events, MaxTime 3, MaxDelay 2, 1 failure | 664,060 | what is found of injected custody anomalies |
| Reruns | 2 users, 2 runs, 2 uploads, 1 fault; every profile of 5 counts up to 3 | 1,387,691 | what runs and clears leave, where a run ends that has lost a row, experiments 1 and 3 |

One run shows a sentence of a comment that the code does not keep to
(`PROJECT.json`, `findings`): `SilentRollback`. A failing UPDATE of the IV
(`routes/evidence.py:243`, "don't roll back") aborts the transaction in
PostgreSQL, the commit at line 253 is a rollback that raises nothing, and the
handler reports success for a row that is not there.

Other sentences hold with a reservation that the properties above state exactly:

* README.md:81, "sealed evidence cannot be transferred": not by a transfer that
  begins after the seal; one that has passed its check goes on
  (`SealStopsLaterTransfers`).
* README.md:79, "creates a new version": uploads that overlap get the same one
  (`TwinsOverlap`).
* `routes/evidence.py:150`, "closed cases block all evidence upload": not one that
  has passed its check, nor one whose check raises (`LateUploadsOverlapClosing`).
* README.md:85, "simultaneously": one after another, and never repeated
  (`TransfersReachMirrors`).
* README.md:88, "evidence returned to a prior holder": of a chain A to B to C to A
  without gaps the cycle rule of the anomaly endpoint reports nothing
  (`CyclesNeedGaps`).
* README.md:71, "a single tampered byte anywhere in the chain causes verification
  to fail": verification looks at no byte (`IntegrityVerification`, above).
* `routes/cases.py:179`, "auto-seal all active unsealed evidence": what is unsealed
  when its UPDATE runs; what an Admin unseals from then on stays unsealed in the
  closed case (`CloseSealsAll`).
* `query_interface.py:250` and 476, "falls back to SQL": only when nothing was read;
  of a query that raises half-way the part that was read is shown
  (`OmissionsHaveACause`).
* `routes/cases.py:212`: an auto-seal that loses a deadlock is dropped in silence;
  the case stays closed with unsealed evidence (`OnlySealsDeadlock`).
* `cyber_experiments.py:247`, "same user appears as receiver >1 time": the query
  below it returns every chain (`SelfJoinReturnsEverything`).

Why the bounds are enough to be worth something. In `ChainOfCustody`,
`EvidenceUpload` and `IntegrityVerification` the only bound is `MaxClock`: no
request begins once the clock has reached it; what has begun runs to its end, and
its commits tick on. With `MaxClock = 4` there are
four beginnings or commits before the last beginning: two transfers one after the
other or overlapping, or a seal, an unseal and a transfer between them. Two workers
give every pairwise interleaving of statements; the properties relate two requests,
or a request and a change. Three users are needed for a giver who is neither
uploader nor last recipient, two pieces of evidence for an auto-seal of more
than one row. In `Verification`, `MaxClock = 2` starts two requests, each of up to
two items or two rows, which is what an overlap, a time taken back and a deadlock
need.

* Audit: `MaxRows` and `MaxSeals` count beginnings. Three transfers make a gap, a
  return, an exchange, and two events in the wrong order; one seal lies between two.
* Graphs: two transfers, a seal and a verification are one of each kind of event, with
  every combination of missing edges and rows.
* Access: `MaxRequests` and `MaxChanges`. One request meets a grant, a revocation
  and another grant: the grant it read is gone, or is there again.
* Sessions: `MaxRequests`, `MaxKeys`, `MaxClock`. Login, a request under way and a
  logout are three; two processes and one restart are three keys; three failed
  logins at three times, a threshold of two and a window of one give bursts that
  raise, do not raise, and raise again.
* Simulation: `MaxTime` equals the number of events, so that all orders and all
  ties of timestamps occur; `MaxDelay` 2 puts an insider between a gap's two ends;
  `MaxFailures` 1 lets each copy fail. A pool of two of three users leaves one who
  never had the evidence.
* Reruns: `MaxRuns` 2 is a run and a rerun; `MaxFaults` 1 stops it anywhere.
  `MaxUploads` 2 counts the uploads of all runs: two runs with one each, or one with
  two, of which the row of either may be lost, and whose chains are committed
  together or in two batches. Profiles of five are the smallest in which two
  deviations can flag somebody.

That nothing depends on these sizes is what the proofs are for.

Symmetry: workers are interchangeable, so are pieces of evidence (one case, one
uploader), file names, contents, the users who uploaded nothing, processes, and the
users of the simulator. No run with a liveness property uses symmetry.

Fairness: `WF` of each worker's own statements. A handler is sequential code: a
live process executes its next statement. In `IntegrityVerification` that
statement may wait for a row lock; whoever holds it goes on to its commit, and
PostgreSQL breaks a cycle of waits, so weak fairness is enough there too: the
waiting statement is enabled from a release on until another request takes the
row, and only finitely many requests start. In the other modules no call waits
for another request. Nothing is assumed about clients (`Request`), crashes, or
the late Neo4j write. A killed request counts as ended: the platform closes its
connection. 

Deadlock is checked but in `Audit`, `Sessions`, `Simulation` and `Reruns`,
where requests are bounded or the script ends.

## Proofs

`tlapm <module>` proves the theorems of each module for any sets of users, evidence
and workers, any kinds of failure and any bound. All that is assumed of the
constants are the named assumptions of the modules (`CustodyAssumption`,
`AuditAssumption`, `ReadersAssumption`, `UploadAssumption`,
`VerificationAssumption`, `AccessAssumption`, `SessionsAssumption`,
`SimulatedAssumption`, `RunsAssumption`): an uploader is a user, `None` is not, bounds
are naturals, evidence of which the smallest is taken is a finite set of numbers,
and the counts that experiment 3 looks at are naturals, of finitely many users. No
theorem assumes fairness. Every safety property of every run is a theorem.

| Module | Theorem | States `Spec => []`... |
|---|---|---|
| `ChainOfCustodyProofs` | `TypeCorrect` | `TypeOK` |
| | `MirrorsFollow`, `ReportedStands` | `MirrorsFollowLedger`, `ReportedIsCommitted` |
| | `GiverHeld` | `GiverHeldIt` |
| | `SealStops`, `CloseStops` | `SealStopsLaterTransfers`, `CloseStopsLaterTransfers` |
| | `GapsComeFromOverlaps` | `GapNeedsOverlap` |
| | `InvariantCorrect`, `LogsCorrect` | `InductiveInv`, `LogsTellTheTruth` |
| | `LedgerImplemented` | the refinement, `Spec => ImplementsLedger` |
| `CustodyAuditProofs` | `TypeCorrect`, `MirrorCorrect` | `TypeOK`, `EventsFollowRows` |
| | `CyclesCorrect`, `ReportsCorrect` | `CyclesNeedGaps`, `ReportListsWhatItCounts` |
| | `ReadersCorrect`, `SealsCorrect` | `ReadersAgree`, `OnlySealsHideGaps` |
| | `GraphCorrect`, `OmissionsCorrect` | `GraphShowsTheRows`, `OmissionsHaveACause` |
| | `ExchangesCorrect` | `ExchangesAreReported` |
| `EvidenceUploadProofs` | `TypeCorrect`, `ReportedCorrect` | `TypeOK`, `ReportedIsStored` |
| | `PathsCorrect`, `OrphansCorrect`, `ReadableCorrect` | `OneRowPerPath`, `NoOrphans`, `RowsAreReadable` |
| | `TwinsCorrect`, `LateCorrect` | `TwinsOverlap`, `LateUploadsOverlapClosing` |
| `IntegrityVerificationProofs` | `TypeCorrect`, `PassedCorrect` | `TypeOK`, `PassedIsCommitted` |
| | `DeadlocksCorrect` | `OnlySealsDeadlock` |
| | `BackCorrect`, `EventsCorrect` | `GoesBackOnlyByOverlap`, `EventsHaveHistory` |
| `EvidenceAccessProofs` | `TypeCorrect`, `EntitledCorrect` | `TypeOK`, `OnlyEntitledAreServed` |
| | `LogsCorrect`, `AuditCorrect` | `NothingLeavesUnlogged`, `AuditFollowsTable` |
| | `ToldCorrect`, `PageCorrect` | `ToldChangesAreAudited`, `PageShowsEachOnce` |
| `SessionsProofs` | `TypeCorrect`, `DemoCorrect`, `CreatorsCorrect` | `TypeOK`, `DemoWritesNothing`, `CreatorsLoggedIn` |
| | `LogoutCorrect`, `EntriesCorrect` | `LogoutHolds`, `LoginsAreRecorded` |
| | `MirrorCorrect` | `CasesAreMirrored` |
| | `AlertsCorrect`, `BruteForceCorrect` | `AlertsAreSpaced`, `BruteForceIsRaised` |
| `SimulatedCustodyProofs` | `TypeCorrect`, `SelfJoinCorrect` | `TypeOK`, `SelfJoinReturnsEverything` |
| | `MissesCorrect`, `CausesCorrect` | `GapsAreMissedForAReason`, `FalseGapsHaveACause` |
| | `FoundCorrect`, `ViewCorrect` | `CopiesAreFound`, `ViewMissesInjectedGaps` |
| `SimulationRunsProofs` | `TypeCorrect`, `SimCorrect` | `TypeOK`, the inductive invariant `SimInv` |
| | `FilesCorrect`, `DocsCorrect` | `FilesFollowTables`, `DocsMatchRows` |
| | `LostRowCorrect` | `LostRowEndsRun` |
| | `EventsCorrect`, `InjectedCorrect` | `EventsStandForOneRow`, `InjectedAreFound` |
| | `OutliersCorrect` | `FewAreOutliers` |

The argument. None of the properties is inductive: each speaks of what is in a
store, and that is decided several statements before it is there. So each
invariant adds what a request already knows at each statement, and what may have
changed since it read it.

`ChainOfCustodyInv`:

* `ClockInv`, `IdInv`: no instant lies ahead of the clock, starts are unique, a
  drawn `log_id` belongs to one row or one request.
* `LedgerInv`: a request at a mirror write has its row committed.
* `GiverInv`: a giver that has been read is the uploader or a recipient; rows
  are never removed, so it stays true until the commit.
* `SealInv`: evidence that is not sealed has an unseal after each of its seals;
  so a request past the seal check has seen one after every seal that precedes
  its beginning, and the history only grows. `CloseInv` is the same for a case.
* `HolderInv`: a request whose transaction has met no other commit of its
  evidence knows the recipient of the last row. When it commits, its row follows
  that one without a gap; a row that commits in between makes an overlap.

`StepKinds` lists the actions once; a lemma per invariant has a step per action
that can disturb it. The refinement uses `IdInv` for the fresh id, `GiverInv`
for the giver and `LedgerInv` for the copies. `TruthInv` says for each step
before a log what the log will tell and that it has happened.

The others:

* `CustodyAuditProofs`: `EventInv`, a transfer under way overlaps every one that
  began after it, and its stamp is already in the order of its row with regard to
  every event and every other stamp, or the two overlap; `ReportInv`, what was
  counted is a part of the rows, which only grow. `CyclesCorrect` is about chains of
  any length: if the step before is no gap, the giver received the evidence in that
  step, and so his last reception is too near for `< i - 1`.
  What the detectors say of a graph needs three more facts (`ReaderInv`). `RowInv`: a
  row has an id of its own. `StampInv`: every event has an instant of its own, and
  one that is being written has an instant that no event has, so that the chain has
  one order. `EventInv` again: an event stands for its row. From them follow what a chain
  omits that was read to its end or only half (`ChainOmits`, `NetworkOmits`), and
  `GraphCorrect`, where the edges of rows, seals and verifications are told apart by
  what they join (`EdgesDiffer`). `ExchangesCorrect` holds
  of any chain: the recursive function that keeps the findings exists
  (`FlagsExist`), and a pair that is dropped is dropped for a finding that stays, so
  something is reported (`SomethingIsReported`).
* `EvidenceUploadProofs`: `StampInv` (commits have instants of their own, behind the
  beginning of their requests), `LateInv` (while the case is closed, every upload
  that runs began before it was), `StoredInv`, `PathInv` (paths of rows and of
  uploads past their first write differ), `OrphanInv`, `ReadableInv` (which of body,
  key and IV are in place at each step), `TwinInv` (a version or code that was read
  is behind that of every row that was committed before the upload began). That
  versions have a largest one is the lemma `Greatest`, which comes from
  the well-founded ordering of the finite subsets, without an induction.
* `IntegrityVerificationProofs`: `LockInv`, a bulk verification holds locks only of
  items that come before the one it waits for, and a verification of one item waits
  with none; in a cycle of verifications an item would come before itself.
  `PassedInv`, `BackInv`, `HistoryInv` say what has been committed, and when, at
  each step.
* `EvidenceAccessProofs`: `EntitledInv` with `RightOf` (from the check on, the
  request was entitled since it came), `ToldInv`, `PageInv`, `LogInv`, and
  `AuditInv`: as long as nothing crossed, the log agrees with the table on every
  user but the one whose change is committed and not yet logged.
* `SessionsProofs`: `AuthInv` (every session was logged in at the process whose key
  it has, the demo user's only where the guard is on), `LogoutInv` with
  `WillNotUndo` (after a logout, a request that speaks for somebody was under way
  before it or logs in), `EntryInv`, `MirrorInv`, and `SpacedInv` (two failed logins
  that are looked at together know it; one about to raise an alert has seen none,
  or only alerts of those). `RaisedInv` is for the alert that must come: where
  enough attempts were recorded up to some instant, there is an alert of that window
  or a request that has recorded one of them and has not looked yet. An attempt that
  is recorded now is looked at by its own request, so no burst is left to nobody.
* `SimulatedCustodyProofs`: `ChainInv`, the second giver of an ordinary chain is its
  first recipient and stays so whatever is injected. `RowsInv` says what
  the rows of each kind are to the ones before them: the ordinary chain comes first,
  linked and sorted; the row of a gap is later than the last of them, and its giver
  is not the recipient of some row with the last timestamp; the three rows of a
  cycle are later than both; only an insider's row may lie anywhere. `CopyInv`: an
  event is the copy of one row, without its giver if it is of the first copy; of an
  injection no row is copied before the one it follows; and what is pending are the
  last rows. The properties then speak of the neighbours of one row in the sorted
  chain: `GapFollows` says which row an injected gap follows, in the rows and, when
  both are copied, in the graph's events.
* `SimulationRunsProofs`: nothing in the stores tells a run from another, so
  each property about ids needs that ids of different runs do not meet. `RunInv`:
  nothing is of a later run, and of the present one there is nothing before its
  users are created. `JobInv`: what `main()` remembers is in the tables; documents are
  queued from an INSERT to the next `insert_many`. `FileInv`: a file is of this run
  from the stage on that writes it, and what it lists is in the tables unless a
  clear came after. `DocInv`: each thing of the run has its document, stored or
  queued, and each document tells of a thing, of a grant or an item that was rolled back, or of
  what a clear has left. `LostInv`: as long as the run that lost a row goes on, the
  lost item is still to come and no row is of it or of a later one. `AccusedInv`: the documents of this run accuse whom the run has
  injected, and nobody else. `EventInv`: rows have ids of their own, an event stands
  for one of them, and rows that wait for their copy have no event yet; without the
  last part a MERGE could join two rows in one event. These invariants hold together
  only: `SimInv` was checked on the instance of `Reruns` and then proved.

  `FewAreOutliers` is the one-sided inequality of Chebyshev, in integers, for any
  number of users: with `c` the distance of a count from the mean, the sum of
  `(g * c + h)^2` over all users is at least what those above the threshold
  contribute to it, and for the right `g` and `h` this bounds their number.

In place of induction. What a recursive definition computes cannot be proved by
an induction here, since the induction theorems of the library take an operator.
Two facts about sets do as much. A set of naturals that is not empty has a least
element (`Least`, from the well-foundedness of `<`): the chain sorted by time is
ordered because a first pair out of order cannot exist, and each event has
a next one because the events behind it have a least. A collection of finite sets that
contains the empty set, and each set of which it contains one with an element less,
contains all (`BySmallerSets`): so the fold that sums the counts exists, and
a sum is the number of units that its terms stand for (`SumAdds`), from which the sums
of a constant and of squares follow. The few lemmas about sorting are in
`CustodyAuditProofs` and in `SimulatedCustodyProofs`, since neither module can
extend the other.

Only model-checked: all liveness (`CloseSealsAll`, `TransfersReachMirrors`,
`VerificationsEnd`), because the prover has no
fairness reasoning here and no ENABLED.

## Plan

All components that keep state are modelled. What would add most next:

1. The composition of upload and custody, with the graph node of the upload in
   place of `NeoAddEvidence`, and of `Sessions` and `EvidenceAccess`, with users that
   come from cookies.
2. An abstract verification history (it only grows; the graph has events for its
   entries, or for those rolled back), implemented by `IntegrityVerification`.
3. The safety that each liveness property rests on, as theorems: what a request
   that has not ended can do next, and what each of its steps brings nearer to its end.

## Not modelled

Templates and styles; chart aggregations, dashboards and the other pages of
independent reads, which keep no state; the involvement and verification queries
of Neo4j, which feed one page each; experiment 4, the timings and the text of the
reports; the files the simulator generates for the bucket; `auth_new.py`,
`evidence_additions.py`, `new_routes.py` and `mongo_db_additions.py`, which nothing
registers; AES, HKDF, RSA and bcrypt, which are libraries.

Two things the code does are in the models and in no property, because nothing in
the repository says otherwise: evidence of a closed case may be unsealed
(`routes/evidence.py:407`) and is not sealed again; an upload whose status check
raises goes on as if the case were open (`routes/evidence.py:164`).
