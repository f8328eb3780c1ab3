------------------------ MODULE SimulationRunsProofs ------------------------
(***************************************************************************)
(* Proofs about SimulationRuns, for any number of users, of uploads, of    *)
(* runs and of faults.                                                     *)
(***************************************************************************)
EXTENDS SimulationRuns, FiniteSetTheorems, WellFoundedInduction, TLAPS

(* The places of the script where rows are inserted, where documents are,  *)
(* where inserted rows are copied one by one, and where a file is written. *)
Inserts == {4, 6, 8, 10, 12, 15, 17, 20, 24, 28}
Logs    == {5, 7, 9, 11, 13, 16, 18, 21, 25, 29}
Copies  == {22, 26, 30}
Writes  == {19, 23, 27, 31}

PlaceOf(f) == CASE f = "tamper" -> 19 [] f = "break" -> 23 [] f = "cycle" -> 27
                [] f = "insider" -> 31

LEMMA Places ==
    ASSUME at \in 0 .. Len(Script)
    PROVE  /\ Len(Script) = 31 /\ at \in 0 .. 31
           /\ At("clear", "sql") <=> at = 1
           /\ At("clear", "log") <=> at = 2
           /\ At("clear", "copy") <=> at = 3
           /\ At("users", "sql") <=> at = 4
           /\ At("cases", "sql") <=> at = 6
           /\ At("evidence", "sql") <=> at = 8
           /\ At("custody", "sql") <=> at = 10
           /\ At("custody", "log") <=> at = 11
           /\ At("verify", "sql") <=> at = 12
           /\ At("sync", "copy") <=> at = 14
           /\ At("access", "sql") <=> at = 15
           /\ At("tamper", "sql") <=> at = 17
           /\ At("break", "sql") <=> at = 20
           /\ At("cycle", "sql") <=> at = 24
           /\ At("insider", "sql") <=> at = 28
           /\ (at # 0 /\ Script[at][2] = "log" /\ Script[at][1] # "clear") <=> at \in Logs
           /\ (at # 0 /\ Script[at][2] = "copy" /\ Script[at][1] \notin {"clear", "sync"})
                 <=> at \in Copies
           /\ (at # 0 /\ Script[at][2] = "file") <=> at \in Writes
           /\ at \in Writes => Script[at][1] \in FileName /\ at = PlaceOf(Script[at][1])
<1>1. Len(Script) = 31
  BY DEF Script
<1>2. /\ Script[1] = <<"clear", "sql">> /\ Script[2] = <<"clear", "log">>
      /\ Script[3] = <<"clear", "copy">> /\ Script[4] = <<"users", "sql">>
      /\ Script[5] = <<"users", "log">> /\ Script[6] = <<"cases", "sql">>
      /\ Script[7] = <<"cases", "log">> /\ Script[8] = <<"evidence", "sql">>
      /\ Script[9] = <<"evidence", "log">> /\ Script[10] = <<"custody", "sql">>
      /\ Script[11] = <<"custody", "log">> /\ Script[12] = <<"verify", "sql">>
      /\ Script[13] = <<"verify", "log">> /\ Script[14] = <<"sync", "copy">>
      /\ Script[15] = <<"access", "sql">> /\ Script[16] = <<"access", "log">>
      /\ Script[17] = <<"tamper", "sql">> /\ Script[18] = <<"tamper", "log">>
      /\ Script[19] = <<"tamper", "file">>
  BY DEF Script
<1>3. /\ Script[20] = <<"break", "sql">> /\ Script[21] = <<"break", "log">>
      /\ Script[22] = <<"break", "copy">> /\ Script[23] = <<"break", "file">>
      /\ Script[24] = <<"cycle", "sql">> /\ Script[25] = <<"cycle", "log">>
      /\ Script[26] = <<"cycle", "copy">> /\ Script[27] = <<"cycle", "file">>
      /\ Script[28] = <<"insider", "sql">> /\ Script[29] = <<"insider", "log">>
      /\ Script[30] = <<"insider", "copy">> /\ Script[31] = <<"insider", "file">>
  BY DEF Script
<1>4. \/ at \in 0 .. 4 \/ at \in 5 .. 9 \/ at \in 10 .. 14 \/ at \in 15 .. 19
      \/ at \in 20 .. 24 \/ at \in 25 .. 28 \/ at \in 29 .. 31
  BY <1>1
<1> USE DEF At, Logs, Copies, Writes, FileName, PlaceOf
<1>5. CASE at \in 0 .. 4
  BY <1>1, <1>2, <1>5
<1>6. CASE at \in 5 .. 9
  BY <1>1, <1>2, <1>6
<1>7. CASE at \in 10 .. 14
  BY <1>1, <1>2, <1>7
<1>8. CASE at \in 15 .. 19
  BY <1>1, <1>2, <1>8
<1>9. CASE at \in 20 .. 24
  BY <1>1, <1>3, <1>9
<1>10. CASE at \in 25 .. 28
  BY <1>1, <1>3, <1>10
<1>11. CASE at \in 29 .. 31
  BY <1>1, <1>3, <1>11
<1> QED
  BY <1>4, <1>5, <1>6, <1>7, <1>8, <1>9, <1>10, <1>11

(* The k-th smallest item gets the k-th row: no two the same. *)
LEMMA RanksDiffer ==
    ASSUME NEW ids \in SUBSET Int, IsFiniteSet(ids), NEW i \in ids, NEW j \in ids, i # j
    PROVE  Rank(i, ids) # Rank(j, ids)
<1>1. ASSUME NEW a \in ids, NEW b \in ids, a < b PROVE Rank(a, ids) # Rank(b, ids)
  <2> DEFINE A == {x \in ids : x < a}
             B == {x \in ids : x < b}
  <2>1. B \subseteq ids /\ a \in B /\ a \notin A
    BY <1>1
  <2>4. ASSUME NEW x \in A PROVE x \in B
    BY <1>1, <2>4
  <2> HIDE DEF A, B
  <2>2. IsFiniteSet(B)
    BY <2>1, FS_Subset
  <2>3. Cardinality(A) # Cardinality(B)
    BY <2>1, <2>2, <2>4, FS_Subset
  <2> QED
    BY <2>3 DEF Rank, A, B
<1>2. i < j \/ j < i
  OBVIOUS
<1> QED
  BY <1>1, <1>2

-----------------------------------------------------------------------------
(* The inductive invariant. *)

(* The run that is under way, or has just completed, has its things, its   *)
(* documents and its files in step.                                        *)
Live == at # 0 \/ hist.runs \in hist.completed

AllThings == sql.users \cup sql.cases \cup sql.items \cup sql.rows \cup sql.marked
                 \cup sql.access

(* Nothing is of a later run; of this run there is nothing up to the       *)
(* creation of the users.                                                  *)
OfARun(x) == x.run =< hist.runs /\ (at \in 1 .. 4 => x.run < hist.runs)

RunInv ==
    /\ \A x \in AllThings \cup mongo : OfARun(x)
    /\ \A n \in hist.completed : n =< hist.runs
    /\ at # 0 => hist.runs \notin hist.completed
    /\ hist.cleared =< hist.runs

(* The local variables of main() are about rows of this run that are       *)
(* there; documents are queued from an INSERT to the next insert_many.  An *)
(* item may have lost its row until create_custody_events is over, which   *)
(* makes no chain for it.                                                  *)
JobInv ==
    /\ at \in 1 .. 4 => job = NoJob
    /\ Live /\ at \notin Logs => job.docs = {}
    /\ at # 0 =>
          /\ \A u \in job.users : [id |-> u, run |-> hist.runs] \in sql.users
          /\ \A r \in job.rows : r \in sql.rows /\ r.run = hist.runs
          /\ at \notin 9 .. 11 => \A i \in job.items : [id |-> i, run |-> hist.runs] \in sql.items
    /\ at \in 9 .. 11 => \A i \in job.items : \A x \in sql.items : x.id = i => x.run = hist.runs
    /\ at \in 4 .. 11 => \A r \in job.rows : [id |-> r.item, run |-> hist.runs] \in sql.items
    /\ at \in {18, 19} =>
          /\ IsFiniteSet(job.found)
          /\ \A i \in job.found : [id |-> i, run |-> hist.runs] \in sql.marked
    /\ at \in {21, 22, 23, 25, 26, 27} =>
          \A i \in job.found : \E r \in sql.rows : r.item = i /\ r.run = hist.runs
    /\ at \in {29, 30, 31} =>
          \A u \in job.found : [id |-> u, run |-> hist.runs] \in sql.users

(* What a file lists is there, unless a clear came after it was written.   *)
Listed(f, i) ==
    /\ f = "tamper"  => [id |-> i, run |-> hist.filed[f]] \in sql.marked
    /\ f = "insider" => [id |-> i, run |-> hist.filed[f]] \in sql.users
    /\ f \in {"break", "cycle"} => \E r \in sql.rows : r.item = i /\ r.run = hist.filed[f]

(* A file is of this run from the place where the run writes it.           *)
FileInv ==
    /\ \A f \in FileName :
          /\ hist.filed[f] =< hist.runs
          /\ at \in 1 .. PlaceOf(f) => hist.filed[f] < hist.runs
          /\ Live /\ at \notin 1 .. PlaceOf(f) => hist.filed[f] = hist.runs
          /\ \A i \in files[f] : hist.filed[f] < hist.cleared \/ Listed(f, i)
    /\ IsFiniteSet(files["tamper"])

(* Each thing that a run put into PostgreSQL has its document among these. *)
HasDocs(tables, docs, n) ==
    /\ \A x \in tables.users  : x.run = n => [kind |-> "login",  id |-> x.id, run |-> n] \in docs
    /\ \A x \in tables.cases  : x.run = n => [kind |-> "case",   id |-> x.id, run |-> n] \in docs
    /\ \A x \in tables.items  : x.run = n => [kind |-> "upload", id |-> x.id, run |-> n] \in docs
    /\ \A x \in tables.marked : x.run = n => [kind |-> "tamper", id |-> x.id, run |-> n] \in docs
    /\ \A x \in tables.access : x.run = n => [kind |-> "grant",  id |-> x.id, run |-> n] \in docs
    /\ \A r \in tables.rows   : r.run = n /\ r.kind # "insider" =>
                                [kind |-> "custody", id |-> r.id, run |-> n] \in docs

Undone(d) == d \in hist.undone

(* What is told is there, what is queued too, and what is there is told or *)
(* queued to be.                                                           *)
DocInv ==
    /\ \A d \in mongo : ToldOf(d) \/ Undone(d) \/ (d.run < hist.cleared /\ hist.unlogged)
    /\ at # 0 => \A d \in job.docs : d.run = hist.runs /\ (ToldOf(d) \/ Undone(d))
    /\ Live => HasDocs(sql, mongo \cup job.docs, hist.runs)
    /\ ~hist.unset => \A n \in hist.completed : HasDocs(sql, mongo, n)
    /\ at = 2 /\ ~hist.unset => AllThings = {}

(* A run that has lost the row of an item ends at the chain of this item.  *)
LostRow(d) ==
    /\ d.run =< hist.runs /\ d.run \notin hist.completed
    /\ \A r \in sql.rows : r.run = d.run => r.item < d.id
    /\ at # 0 /\ d.run = hist.runs =>
          at \in 9 .. 11 /\ d.id \in job.items /\ [id |-> d.id, run |-> d.run] \notin sql.items

LostInv ==
    /\ \A d \in hist.undone : d.kind = "upload" => LostRow(d)
    /\ at \in 1 .. 9 => \A r \in sql.rows : r.run # hist.runs

(* Who and what this run has injected so far. *)
Tampered == IF at \in 1 .. 17 THEN {} ELSE IF at \in {18, 19} THEN job.found ELSE files["tamper"]
Insiders == IF at \in 1 .. 28 THEN {} ELSE IF at \in {29, 30, 31} THEN job.found
                                        ELSE files["insider"]

TamperKinds  == {"tamper", "tamperAlert"}
InsiderKinds == {"insiderAlert", "insiderCustody", "insiderActivity"}

(* The documents of this run accuse those and nobody else. *)
AccusedInv ==
    Live => /\ \A d \in mongo \cup job.docs : d.run = hist.runs =>
                  /\ d.kind \in TamperKinds => d.id \in Tampered
                  /\ d.kind \in InsiderKinds => d.id \in Insiders
            /\ \A u \in Insiders :
                  [kind |-> "insiderAlert", id |-> u, run |-> hist.runs] \in mongo \cup job.docs

(* The places at which the rows of the run wait for their copy. *)
Waiting == 4 .. 14 \cup {21, 22, 25, 26, 29, 30}

(* An event stands for the one row that has its id, and rows that wait     *)
(* have none.                                                              *)
StandsFor(e, r) ==
    /\ e.id = r.id /\ e.runs = {r.run}
    /\ e.insider => e.givers = {r.user} /\ r.kind = "insider"

EventInv ==
    /\ \A r, s \in sql.rows : r.id = s.id => r = s
    /\ ~hist.unswept =>
          /\ \A e \in graph.events : \E r \in sql.rows : StandsFor(e, r)
          /\ \A e, f \in graph.events : e.id = f.id => e = f
          /\ at \in Waiting => \A r \in job.rows : \A e \in graph.events : e.id # r.id

SimInv ==
    /\ TypeOK /\ RunInv /\ JobInv /\ FileInv /\ DocInv /\ LostInv /\ AccusedInv /\ EventInv

-----------------------------------------------------------------------------
(* Types *)

LEMMA TypeInit == Init => TypeOK
<1> SUFFICES ASSUME Init PROVE TypeOK
  OBVIOUS
<1>1. Len(Script) = 31
  BY DEF Script
<1>2. sql \in Tables
  BY DEF Init, NoRows, Tables
<1>3. graph \in Graph
  BY DEF Init, Graph
<1>4. job \in Job /\ IsFiniteSet(job.items)
  BY FS_EmptySet DEF Init, NoJob, Job
<1>5. hist \in Hist
  BY DEF Init, Hist
<1>6. files \in [FileName -> SUBSET Int]
  BY DEF Init
<1>7. seq \in [cases: Int, items: Int, rows: Int] /\ profile \in {<<>>} \cup Profiles
  BY DEF Init
<1>8. at \in 0 .. Len(Script) /\ mongo \in SUBSET Docs
  BY <1>1 DEF Init
<1> QED
  BY <1>2, <1>3, <1>4, <1>5, <1>6, <1>7, <1>8 DEF TypeOK

(* A row for each of the items, and a single row. *)
ItemRows(items, user, kind) == {Row(Rank(i, items), i, user, kind) : i \in items}

LEMMA RowsOfItems ==
    ASSUME NEW items \in SUBSET Int, IsFiniteSet(items), NEW user \in Int,
           NEW kind \in {"custody", "insider"}, hist.runs \in Nat
    PROVE  LET new == ItemRows(items, user, kind) IN
           /\ new \in SUBSET Rows /\ IsFiniteSet(new)
           /\ \A r \in new : r.run = hist.runs /\ r.item \in items /\ r.user = user /\ r.kind = kind
           /\ \A r, s \in new : r.id = s.id => r = s
<1> DEFINE new == {Row(Rank(i, items), i, user, kind) : i \in items}
<1>1. IsFiniteSet(new)
  <2> DEFINE f == [i \in items |-> Row(Rank(i, items), i, user, kind)]
  <2>1. f \in Surjection(items, new)
    <3> HIDE DEF Row
    <3> QED
      BY DEF Surjection
  <2> HIDE DEF f, new
  <2> QED
    BY <2>1, FS_Surjection
<1>2. ASSUME NEW i \in items PROVE Rank(i, items) \in Nat
  <2>1. IsFiniteSet({j \in items : j < i})
    BY FS_Subset
  <2> QED
    BY <2>1, FS_CardinalityType DEF Rank
<1>3. ASSUME NEW r \in new
      PROVE  /\ r \in Rows
             /\ r.run = hist.runs /\ r.item \in items /\ r.user = user /\ r.kind = kind
  BY <1>2 DEF Row, Rows
<1>4. ASSUME NEW r \in new, NEW s \in new, r.id = s.id PROVE r = s
  <2>1. PICK i \in items, j \in items :
           r = Row(Rank(i, items), i, user, kind) /\ s = Row(Rank(j, items), j, user, kind)
    OBVIOUS
  <2>2. Rank(i, items) = Rank(j, items)
    BY <1>4, <2>1 DEF Row
  <2>3. i = j
    BY <2>2, RanksDiffer
  <2> QED
    BY <2>1, <2>3
<1> QED
  BY <1>1, <1>3, <1>4 DEF ItemRows

LEMMA RowOfOne ==
    ASSUME NEW item \in Int, NEW user \in Int, NEW kind \in {"gap", "cycle"}, hist.runs \in Nat
    PROVE  LET new == {Row(0, item, user, kind)} IN
           /\ new \in SUBSET Rows /\ IsFiniteSet(new)
           /\ \A r \in new : r.run = hist.runs /\ r.item = item /\ r.user = user /\ r.kind = kind
           /\ \A r, s \in new : r.id = s.id => r = s
<1>1. IsFiniteSet({Row(0, item, user, kind)})
  BY FS_Singleton
<1> QED
  BY <1>1 DEF Row, Rows

(* What a merge leaves: events there were, and one for each merged row.    *)
MergedInto(e, r) == [e EXCEPT !.runs = @ \cup {r.run}, !.givers = @ \cup {r.user},
                              !.insider = @ \/ r.kind = "insider"]

NewEvent(r) == [id |-> r.id, runs |-> {}, givers |-> {}, insider |-> FALSE]

LEMMA MergedEvents ==
    ASSUME NEW events, NEW rows, NEW e \in MergeEvents(events, rows)
    PROVE  \/ e \in events
           \/ \E r \in rows : \E x \in events :
                 x.id = r.id /\ e = MergedInto(x, r)
           \/ \E r \in rows : (\A x \in events : x.id # r.id) /\ e = MergedInto(NewEvent(r), r)
<1>1. CASE e \in {x \in events : x.id \notin IdsOf(rows)}
  BY <1>1
<1> DEFINE new(r)   == [id |-> r.id, runs |-> {}, givers |-> {}, insider |-> FALSE]
           known(r) == {x \in events : x.id = r.id}
           Merged(r) == {[x EXCEPT !.runs = @ \cup {r.run}, !.givers = @ \cup {r.user},
                                   !.insider = @ \/ r.kind = "insider"]
                           : x \in IF known(r) = {} THEN {new(r)} ELSE known(r)}
<1>2. CASE e \in UNION {Merged(r) : r \in rows}
  <2>1. PICK r \in rows : e \in Merged(r)
    <3> HIDE DEF Merged
    <3> QED
      BY <1>2
  <2>2. PICK x \in IF known(r) = {} THEN {new(r)} ELSE known(r) : e = MergedInto(x, r)
    <3> HIDE DEF known, new
    <3> QED
      BY <2>1 DEF MergedInto
  <2>3. CASE known(r) = {}
    BY <2>2, <2>3 DEF NewEvent
  <2>4. CASE known(r) # {}
    BY <2>2, <2>4
  <2> QED
    BY <2>3, <2>4
<1> QED
  BY <1>1, <1>2 DEF MergeEvents

LEMMA MergeTypes ==
    ASSUME NEW events \in SUBSET Events, NEW rows \in SUBSET Rows
    PROVE  MergeEvents(events, rows) \in SUBSET Events
<1>1. ASSUME NEW x \in Events, NEW r \in Rows PROVE MergedInto(x, r) \in Events
  <2>1. x.runs \cup {r.run} \in SUBSET Nat /\ x.givers \cup {r.user} \in SUBSET Int
        /\ (x.insider \/ r.kind = "insider") \in BOOLEAN
    BY DEF Events, Rows
  <2> QED
    BY <2>1 DEF Events, MergedInto
<1>2. ASSUME NEW r \in Rows PROVE NewEvent(r) \in Events
  BY DEF NewEvent, Rows, Events
<1> QED
  BY <1>1, <1>2, MergedEvents

(* The ids of n uploads of which no row has one.                           *)
Fresh(n) == (seq.items .. seq.items + n - 1) \ IdsOf(sql.items)

(* The rows of evidence that are made, kept and copied of n uploads, and   *)
(* the documents of the one that is lost.                                  *)
Creates(n, made, kept, nodes) ==
    /\ sql' = [sql EXCEPT !.items = @ \cup Thing(kept)]
    /\ seq' = [seq EXCEPT !.items = @ + n]
    /\ job' = [job EXCEPT !.items = made, !.docs = Doc("upload", made)]
    /\ graph' = [graph EXCEPT !.nodes = @ \cup
                   {[id |-> i, sim |-> FALSE] : i \in nodes \ IdsOf(graph.nodes)}]
    /\ \E f \in {0, 1} :
          hist' = [hist EXCEPT !.uploads = @ + n, !.faults = @ + f,
                               !.undone = @ \cup Doc("upload", made \ kept)]

LEMMA Creation ==
    ASSUME TypeOK, CreateEvidence
    PROVE  \E n \in Nat : \E made, kept, nodes \in SUBSET Fresh(n) :
              kept \subseteq made /\ Creates(n, made, kept, nodes)
<1> DEFINE Create(made, kept, nodes) ==
              /\ sql' = [sql EXCEPT !.items = @ \cup Thing(kept)]
              /\ job' = [job EXCEPT !.items = made, !.docs = Doc("upload", made)]
              /\ graph' = [graph EXCEPT !.nodes = @ \cup
                             {[id |-> i, sim |-> FALSE] : i \in nodes \ IdsOf(graph.nodes)}]
           Note(n, faults, lost) == hist' = [hist EXCEPT !.uploads = @ + n, !.faults = @ + faults,
                                                         !.undone = @ \cup lost]
<1>1. PICK n \in 1 .. MaxUploads - hist.uploads :
         /\ seq' = [seq EXCEPT !.items = @ + n]
         /\ \/ Create(Fresh(n), Fresh(n), Fresh(n)) /\ Note(n, 0, {})
            \/ \E i \in Fresh(n) :
                  LET others == Fresh(n) \ {i} IN
                  \/ Create(others, others, others) /\ Note(n, 1, {})
                  \/ Create(Fresh(n), others, Fresh(n)) /\ Note(n, 1, Doc("upload", {i}))
                  \/ Create(Fresh(n), Fresh(n), others) /\ Note(n, 1, {})
  BY DEF CreateEvidence, Fresh
<1>2. n \in Nat
  BY RunsAssumption DEF TypeOK, Hist
<1>3. \A made, kept, nodes, f :
         /\ Create(made, kept, nodes)
         /\ f \in {0, 1} /\ Note(n, f, Doc("upload", made \ kept))
         => Creates(n, made, kept, nodes)
  BY <1>1 DEF Creates
<1>4. \A ids : Doc("upload", ids \ ids) = {}
  BY DEF Doc
<1> DEFINE free == Fresh(n)
<1> HIDE DEF free, Create, Note
<1>5. CASE Create(free, free, free) /\ Note(n, 0, {})
  <2>1. Creates(n, free, free, free)
    BY <1>3, <1>4, <1>5
  <2> QED
    BY <1>2, <2>1 DEF free
<1>6. ASSUME NEW i \in free
      PROVE  free \ {i} \in SUBSET free /\ free \ (free \ {i}) = {i} /\ free \in SUBSET free
  BY <1>6
<1>7. ASSUME NEW i \in free, Create(free \ {i}, free \ {i}, free \ {i}), Note(n, 1, {})
      PROVE  Creates(n, free \ {i}, free \ {i}, free \ {i})
  BY <1>3, <1>4, <1>7
<1>8. ASSUME NEW i \in free, Create(free, free \ {i}, free), Note(n, 1, Doc("upload", {i}))
      PROVE  Creates(n, free, free \ {i}, free)
  BY <1>3, <1>6, <1>8
<1>9. ASSUME NEW i \in free, Create(free, free, free \ {i}), Note(n, 1, {})
      PROVE  Creates(n, free, free, free \ {i})
  BY <1>3, <1>4, <1>9
<1> QED
  BY <1>1, <1>2, <1>5, <1>6, <1>7, <1>8, <1>9 DEF free

(* Without their types, the tables and the rest are left alone by most     *)
(* steps.                                                                  *)
LEMMA TypeNext == TypeOK /\ [Next]_vars => TypeOK'
<1> SUFFICES ASSUME TypeOK, [Next]_vars PROVE TypeOK'
  OBVIOUS
<1>0. /\ Len(Script) = 31 /\ at \in 0 .. 31
      /\ at \in Writes => Script[at][1] \in FileName
  BY Places DEF TypeOK
<1>a. Advance => at' \in 0 .. Len(Script)
  BY <1>0 DEF Advance
<1>b. /\ hist.runs \in Nat /\ hist.runs + 1 \in Nat
      /\ hist.faults + 1 \in Nat
  BY DEF TypeOK, Hist
<1>c. [hist EXCEPT !.faults = @ + 1] \in Hist
  BY <1>b DEF TypeOK, Hist
<1>d. ASSUME NEW ids \in SUBSET Int
      PROVE  /\ Thing(ids) \in SUBSET Things
             /\ \A kind \in {"login", "case", "upload", "verify", "grant", "tamper",
                             "tamperAlert", "insiderAlert", "insiderCustody",
                             "insiderActivity"} : Doc(kind, ids) \in SUBSET Docs
  BY <1>b DEF Thing, Things, Doc, Docs
<1>f. ASSUME NEW lost \in SUBSET Docs
      PROVE  hist \in Hist /\ [hist EXCEPT !.faults = @ + 1, !.undone = @ \cup lost] \in Hist
  <2>1. \A h \in Hist : [h EXCEPT !.undone = @ \cup lost] \in Hist
    BY DEF Hist
  <2> QED
    BY <1>c, <2>1, Zenon DEF TypeOK
<1>1. ASSUME NEW clear \in BOOLEAN, Start(clear) PROVE TypeOK'
  <2>1. hist' \in Hist
    BY <1>1, <1>b DEF Start, TypeOK, Hist
  <2>2. job' \in Job /\ IsFiniteSet(job'.items)
    BY <1>1, FS_EmptySet DEF Start, Job, NoJob
  <2>3. at' \in 0 .. Len(Script)
    BY <1>1, <1>0 DEF Start
  <2> QED
    BY <1>1, <2>1, <2>2, <2>3 DEF Start, TypeOK
<1>2. CASE Stop
  BY <1>0, <1>c, <1>2 DEF Stop, TypeOK
<1>3. CASE ClearTables
  <2>1. hist' \in Hist
    BY <1>3, <1>b DEF ClearTables, TypeOK, Hist
  <2>2. sql' \in Tables
    BY <1>3 DEF ClearTables, Tables, NoRows
  <2>3. seq' \in [cases: Int, items: Int, rows: Int]
    BY <1>3 DEF ClearTables
  <2> QED
    BY <1>3, <1>a, <2>1, <2>2, <2>3 DEF ClearTables, TypeOK
<1>4. CASE ClearRollsBack
  <2>1. hist' \in Hist
    BY <1>4, <1>b DEF ClearRollsBack, TypeOK, Hist
  <2>2. \/ seq' = seq \/ seq' = [seq EXCEPT !.cases = 1]
        \/ seq' = [seq EXCEPT !.cases = 1, !.items = 1]
        \/ seq' = [cases |-> 1, items |-> 1, rows |-> 1]
    BY <1>4 DEF ClearRollsBack
  <2>3. seq' \in [cases: Int, items: Int, rows: Int]
    <3>1. seq \in [cases: Int, items: Int, rows: Int]
      BY DEF TypeOK
    <3>2. [seq EXCEPT !.cases = 1] \in [cases: Int, items: Int, rows: Int]
      BY <3>1
    <3>a. \A s \in [cases: Int, items: Int, rows: Int] :
             [s EXCEPT !.items = 1] \in [cases: Int, items: Int, rows: Int]
      OBVIOUS
    <3>3. [seq EXCEPT !.cases = 1, !.items = 1] \in [cases: Int, items: Int, rows: Int]
      BY <3>2, <3>a, Zenon
    <3>4. [cases |-> 1, items |-> 1, rows |-> 1] \in [cases: Int, items: Int, rows: Int]
      OBVIOUS
    <3> QED
      BY <2>2, <3>1, <3>2, <3>3, <3>4
  <2> QED
    BY <1>4, <1>a, <2>1, <2>3 DEF ClearRollsBack, TypeOK
<1>5. CASE ClearDocs
  <2>1. hist' \in Hist
    BY <1>5, <1>b DEF ClearDocs, TypeOK, Hist
  <2>2. mongo' \in SUBSET Docs
    BY <1>5 DEF ClearDocs, TypeOK
  <2>3. at' \in 0 .. Len(Script)
    BY <1>5, <1>a, <1>0 DEF ClearDocs
  <2> QED
    BY <1>5, <2>1, <2>2, <2>3 DEF ClearDocs, TypeOK
<1>6. CASE ClearGraph
  <2>1. hist' \in Hist
    BY <1>6, <1>b DEF ClearGraph, TypeOK, Hist
  <2>2. graph' \in Graph
    BY <1>6 DEF ClearGraph, TypeOK, Graph
  <2> QED
    BY <1>6, <1>a, <2>1, <2>2 DEF ClearGraph, TypeOK
<1>7. CASE CreateUsers
  <2> DEFINE ids == LastId(sql.users) + 1 .. LastId(sql.users) + NUsers
  <2>1. ids \in SUBSET Int
    OBVIOUS
  <2>2. sql' = [sql EXCEPT !.users = @ \cup Thing(ids)]
        /\ job' = [job EXCEPT !.users = ids, !.docs = Doc("login", ids)]
    BY <1>7 DEF CreateUsers
  <2> HIDE DEF ids
  <2>3. Thing(ids) \in SUBSET Things /\ Doc("login", ids) \in SUBSET Docs
    BY <1>d, <2>1
  <2>4. sql' \in Tables
    BY <2>2, <2>3 DEF TypeOK, Tables
  <2>5. job' \in Job /\ job'.items = job.items
    BY <2>1, <2>2, <2>3 DEF TypeOK, Job
  <2> QED
    BY <1>7, <1>a, <2>4, <2>5 DEF CreateUsers, TypeOK
<1>8. CASE CreateCases
  <2>1. seq.cases \in Int /\ seq' \in [cases: Int, items: Int, rows: Int]
    BY <1>8 DEF CreateCases, TypeOK
  <2>2. Thing({seq.cases}) \in SUBSET Things /\ Doc("case", {seq.cases}) \in SUBSET Docs
    BY <1>d, <2>1
  <2>3. CASE seq.cases \in IdsOf(sql.cases)
    BY <1>8, <1>0, <2>1, <2>3 DEF CreateCases, TypeOK
  <2>4. CASE seq.cases \notin IdsOf(sql.cases)
    <3>1. sql' = [sql EXCEPT !.cases = @ \cup Thing({seq.cases})]
          /\ job' = [job EXCEPT !.docs = Doc("case", {seq.cases})] /\ Advance
      BY <1>8, <2>4 DEF CreateCases
    <3>2. sql' \in Tables
      BY <3>1, <2>2 DEF TypeOK, Tables
    <3>3. job' \in Job /\ job'.items = job.items
      BY <3>1, <2>2 DEF TypeOK, Job
    <3> QED
      BY <1>8, <1>a, <2>1, <3>1, <3>2, <3>3 DEF CreateCases, TypeOK
  <2> QED
    BY <2>3, <2>4
<1>9. CASE CreateEvidence
  <2>p. PICK n \in Nat : \E made, kept, nodes \in SUBSET Fresh(n) :
           kept \subseteq made /\ Creates(n, made, kept, nodes)
    BY <1>9, Creation
  <2> DEFINE ids == seq.items .. seq.items + n - 1
  <2>1. ids \in SUBSET Int /\ IsFiniteSet(ids)
    BY FS_Interval DEF TypeOK
  <2>2. Advance
    BY <1>9 DEF CreateEvidence
  <2>3. PICK made, kept, nodes \in SUBSET (ids \ IdsOf(sql.items)) :
           kept \subseteq made /\ Creates(n, made, kept, nodes)
    BY <2>p DEF Fresh
  <2> HIDE DEF ids
  <2>5. made \in SUBSET Int /\ IsFiniteSet(made) /\ kept \in SUBSET Int
        /\ made \ kept \in SUBSET Int
    BY <2>1, FS_Subset
  <2>6. Thing(kept) \in SUBSET Things /\ Doc("upload", made) \in SUBSET Docs
        /\ Doc("upload", made \ kept) \in SUBSET Docs
    BY <1>d, <2>5
  <2>7. sql' \in Tables
    BY <2>3, <2>6 DEF Creates, TypeOK, Tables
  <2>8. job' \in Job /\ IsFiniteSet(job'.items)
    BY <2>3, <2>5, <2>6 DEF Creates, TypeOK, Job
  <2>9. {[id |-> i, sim |-> FALSE] : i \in nodes \ IdsOf(graph.nodes)}
           \in SUBSET [id: Int, sim: BOOLEAN]
    <3>1. \A i \in nodes : [id |-> i, sim |-> FALSE] \in [id: Int, sim: BOOLEAN]
      BY <2>1
    <3> QED
      BY <3>1
  <2>10. graph' \in Graph
    BY <2>3, <2>9 DEF Creates, TypeOK, Graph
  <2>11. seq' \in [cases: Int, items: Int, rows: Int]
    BY <2>3 DEF Creates, TypeOK
  <2>12. hist' \in Hist
    <3>1. PICK f \in {0, 1} :
             hist' = [hist EXCEPT !.uploads = @ + n, !.faults = @ + f,
                                  !.undone = @ \cup Doc("upload", made \ kept)]
      BY <2>3 DEF Creates
    <3>2. hist \in Hist /\ hist.uploads \in Nat /\ hist.faults \in Nat
          /\ hist.undone \in SUBSET Docs
      BY DEF TypeOK, Hist
    <3>3. hist.uploads + n \in Nat /\ hist.faults + f \in Nat
      BY <3>2
    <3>4. hist.undone \cup Doc("upload", made \ kept) \in SUBSET Docs
      BY <2>6, <3>2
    <3> QED
      BY <3>1, <3>2, <3>3, <3>4 DEF Hist
  <2> QED
    BY <1>9, <1>a, <2>2, <2>7, <2>8, <2>10, <2>11, <2>12 DEF CreateEvidence, TypeOK
<1>e. ASSUME NEW new \in SUBSET Rows, IsFiniteSet(new), NEW docs \in SUBSET Docs,
             NEW found \in SUBSET Int, NEW earlier \in SUBSET Rows,
             InsertRows(new, docs, found, earlier)
      PROVE  TypeOK'
  <2> DEFINE rows == {[r EXCEPT !.id = seq.rows + @] : r \in new}
             told == {[kind |-> "custody", id |-> r.id, run |-> r.run] :
                         r \in {x \in rows : x.kind # "insider"}}
  <2>1. rows \in SUBSET Rows
    BY DEF TypeOK, Rows
  <2>2. told \in SUBSET Docs
    BY <2>1 DEF Rows, Docs
  <2>3. Cardinality(new) \in Nat
    BY <1>e, FS_CardinalityType
  <2>4. seq' \in [cases: Int, items: Int, rows: Int]
    BY <1>e, <2>3 DEF InsertRows, TypeOK
  <2>5. \/ at' = 0 /\ UNCHANGED <<sql, job>>
        \/ /\ sql' = [sql EXCEPT !.rows = @ \cup rows]
           /\ job' = [job EXCEPT !.rows = earlier \cup rows, !.found = found,
                                 !.docs = docs \cup told]
           /\ Advance
    BY <1>e DEF InsertRows
  <2> HIDE DEF rows, told
  <2>6. CASE at' = 0 /\ UNCHANGED <<sql, job>>
    BY <1>e, <1>0, <2>4, <2>6 DEF InsertRows, TypeOK
  <2>7. CASE /\ sql' = [sql EXCEPT !.rows = @ \cup rows]
             /\ job' = [job EXCEPT !.rows = earlier \cup rows, !.found = found,
                                   !.docs = docs \cup told]
             /\ Advance
    <3>1. sql' \in Tables
      BY <2>1, <2>7 DEF TypeOK, Tables
    <3>2. job' \in Job /\ job'.items = job.items
      BY <2>1, <2>2, <2>7 DEF TypeOK, Job
    <3> QED
      BY <1>e, <1>a, <2>4, <2>7, <3>1, <3>2 DEF InsertRows, TypeOK
  <2> QED
    BY <2>5, <2>6, <2>7
<1>10. CASE CreateCustodyEvents
  <2>1. PICK batch \in SUBSET Todo :
           InsertRows(ItemRows(batch, 0, "custody"), {}, {}, job.rows)
    BY <1>10 DEF CreateCustodyEvents, ItemRows
  <2>2. batch \in SUBSET Int /\ IsFiniteSet(batch) /\ job.rows \in SUBSET Rows
    BY FS_Subset DEF TypeOK, Job, Todo
  <2>3. ItemRows(batch, 0, "custody") \in SUBSET Rows
        /\ IsFiniteSet(ItemRows(batch, 0, "custody"))
    BY <1>b, <2>2, RowsOfItems
  <2> QED
    BY <1>e, <2>1, <2>2, <2>3
<1>23. CASE CustodyOfLostRow
  <2> DEFINE missing == Todo \ IdsOf(sql.items)
             before  == {i \in Todo : \A j \in missing : i < j}
  <2>1. before \subseteq job.items
    BY DEF Todo
  <2>2. IsFiniteSet(before)
    BY <2>1, FS_Subset DEF TypeOK
  <2>3. Cardinality(before) \in Nat
    BY <2>2, FS_CardinalityType
  <2>4. seq' = [seq EXCEPT !.rows = @ + Cardinality(before)] /\ at' = 0
    BY <1>23 DEF CustodyOfLostRow
  <2> HIDE DEF before
  <2>5. seq' \in [cases: Int, items: Int, rows: Int]
    BY <2>3, <2>4 DEF TypeOK
  <2> QED
    BY <1>0, <1>23, <2>4, <2>5 DEF CustodyOfLostRow, TypeOK
<1>11. CASE CreateVerificationHistory
  <2>1. PICK differ \in SUBSET job.items :
           sql' = [sql EXCEPT !.history = @ \cup Thing(differ)]
    BY <1>11 DEF CreateVerificationHistory
  <2>2. job.items \in SUBSET Int
    BY DEF TypeOK, Job
  <2>3. Thing(differ) \in SUBSET Things /\ Doc("verify", job.items) \in SUBSET Docs
    BY <1>d, <2>2
  <2>4. sql' \in Tables
    BY <2>1, <2>3 DEF TypeOK, Tables
  <2>5. job' \in Job /\ job'.items = job.items
    BY <1>11, <2>3 DEF CreateVerificationHistory, TypeOK, Job
  <2> QED
    BY <1>11, <1>a, <2>4, <2>5 DEF CreateVerificationHistory, TypeOK
<1>12. CASE SyncNeo4j
  <2> DEFINE Copies2(nodes, rows, differ) ==
                 [nodes    |-> {n \in graph.nodes : n.id \notin nodes}
                                  \cup {[id |-> i, sim |-> TRUE] : i \in nodes},
                  events   |-> graph.events \cup
                     {[id |-> r.id, runs |-> {r.run}, givers |-> {}, insider |-> FALSE]
                         : r \in rows},
                  mismatch |-> graph.mismatch \cup Thing(differ)]
  <2>1. ASSUME NEW nodes \in SUBSET Int, NEW rows \in SUBSET Rows, NEW differ \in SUBSET Int
        PROVE  Copies2(nodes, rows, differ) \in Graph
    <3>1. \A i \in nodes : [id |-> i, sim |-> TRUE] \in [id: Int, sim: BOOLEAN]
      OBVIOUS
    <3>2. \A r \in rows : [id |-> r.id, runs |-> {r.run}, givers |-> {}, insider |-> FALSE]
                             \in Events
      BY DEF Rows, Events
    <3>3. Thing(differ) \in SUBSET Things
      BY <1>d
    <3>4. graph.nodes \in SUBSET [id: Int, sim: BOOLEAN] /\ graph.events \in SUBSET Events
          /\ graph.mismatch \in SUBSET Things
      BY DEF TypeOK, Graph
    <3> QED
      BY <3>1, <3>2, <3>3, <3>4 DEF Graph
  <2>2. job.items \in SUBSET Int /\ job.rows \in SUBSET Rows
    BY DEF TypeOK, Job
  <2>3. graph' \in Graph
    <3> DEFINE differ == {i \in job.items : i \in IdsOf(sql.history)}
    <3>1. \/ graph' = Copies2(job.items, job.rows, differ)
          \/ graph' \in {graph, Copies2(job.items, {}, {}), Copies2(job.items, job.rows, {})}
      BY <1>12 DEF SyncNeo4j
    <3>2. graph \in Graph /\ differ \in SUBSET Int
      BY <2>2 DEF TypeOK
    <3> HIDE DEF Copies2, differ
    <3> QED
      BY <2>1, <2>2, <3>1, <3>2
  <2>4. hist' \in Hist
    BY <1>12, <1>c DEF SyncNeo4j, TypeOK
  <2> QED
    BY <1>12, <1>a, <2>3, <2>4 DEF SyncNeo4j, TypeOK
<1>13. CASE CreateCaseAccess
  <2> DEFINE members == IdsOf(sql.users)
  <2>1. members \in SUBSET Int
    BY DEF TypeOK, Tables, Things, IdsOf
  <2> HIDE DEF members
  <2>2. PICK made \in SUBSET members, told \in SUBSET members, before \in SUBSET members :
           /\ sql' = [sql EXCEPT !.access = @ \cup Thing(made)]
           /\ job' = [job EXCEPT !.docs = Doc("grant", told)]
           /\ hist' = hist
              \/ hist' = [hist EXCEPT !.faults = @ + 1, !.undone = @ \cup Doc("grant", before)]
    <3>1. CASE sql' = [sql EXCEPT !.access = @ \cup Thing(members)]
               /\ job' = [job EXCEPT !.docs = Doc("grant", members)] /\ UNCHANGED hist
      BY <3>1
    <3>2. ASSUME NEW u \in members, NEW before, before = {v \in members : v < u},
                 sql' = [sql EXCEPT !.access = @ \cup Thing(members \ (before \cup {u}))],
                 job' = [job EXCEPT !.docs = Doc("grant", members \ {u})],
                 hist' = [hist EXCEPT !.faults = @ + 1, !.undone = @ \cup Doc("grant", before)]
          PROVE  \E made, told, b \in SUBSET members :
                    /\ sql' = [sql EXCEPT !.access = @ \cup Thing(made)]
                    /\ job' = [job EXCEPT !.docs = Doc("grant", told)]
                    /\ hist' = hist
                       \/ hist' = [hist EXCEPT !.faults = @ + 1, !.undone = @ \cup Doc("grant", b)]
      <4>1. before \in SUBSET members /\ members \ (before \cup {u}) \in SUBSET members
            /\ members \ {u} \in SUBSET members
        BY <3>2
      <4> QED
        BY <3>2, <4>1
    <3> QED
      BY <1>13, <3>1, <3>2 DEF CreateCaseAccess, members
  <2>3. Thing(made) \in SUBSET Things /\ Doc("grant", told) \in SUBSET Docs
        /\ Doc("grant", before) \in SUBSET Docs
    BY <1>d, <2>1
  <2>4. sql' \in Tables
    BY <2>2, <2>3 DEF TypeOK, Tables
  <2>5. job' \in Job /\ job'.items = job.items
    BY <2>2, <2>3 DEF TypeOK, Job
  <2>6. hist' \in Hist
    BY <1>f, <2>2, <2>3
  <2> QED
    BY <1>13, <1>a, <2>4, <2>5, <2>6 DEF CreateCaseAccess, TypeOK
<1>14. CASE InjectTamperedHashes
  <2>1. PICK targets \in SUBSET job.items :
           /\ sql' = [sql EXCEPT !.marked = @ \cup Thing(targets)]
           /\ job' = [job EXCEPT !.docs = Doc("tamper", targets) \cup Doc("tamperAlert", targets),
                                 !.found = targets]
    BY <1>14 DEF InjectTamperedHashes
  <2>2. targets \in SUBSET Int
    BY DEF TypeOK, Job
  <2>3. Thing(targets) \in SUBSET Things
        /\ Doc("tamper", targets) \cup Doc("tamperAlert", targets) \in SUBSET Docs
    BY <1>d, <2>2
  <2>4. sql' \in Tables
    BY <2>1, <2>3 DEF TypeOK, Tables
  <2>5. job' \in Job /\ job'.items = job.items
    BY <2>1, <2>2, <2>3 DEF TypeOK, Job
  <2> QED
    BY <1>14, <1>a, <2>4, <2>5 DEF InjectTamperedHashes, TypeOK
<1>15. CASE InjectBrokenChains
  <2>1. job.users \in SUBSET Int /\ sql.rows \in SUBSET Rows
    BY DEF TypeOK, Job, Tables
  <2>2. CASE \E r \in sql.rows, u \in job.users : InsertRows({Row(0, r.item, u, "gap")}, {}, {r.item}, {})
    <3>1. PICK r \in sql.rows, u \in job.users : InsertRows({Row(0, r.item, u, "gap")}, {}, {r.item}, {})
      BY <2>2
    <3>2. r.item \in Int /\ u \in Int
      BY <2>1 DEF Rows
    <3>3. {Row(0, r.item, u, "gap")} \in SUBSET Rows /\ IsFiniteSet({Row(0, r.item, u, "gap")})
      BY <3>2, <1>b, RowOfOne
    <3> HIDE DEF Row
    <3> QED
      BY <1>e, <3>1, <3>2, <3>3
  <2>3. CASE InsertRows({}, {}, {}, {})
    BY <1>e, <2>3, FS_EmptySet
  <2> QED
    BY <1>15, <2>2, <2>3 DEF InjectBrokenChains
<1>16. CASE InjectCycles
  <2>1. job.users \in SUBSET Int /\ job.items \in SUBSET Int
    BY DEF TypeOK, Job
  <2>2. CASE \E i \in job.items, u \in job.users : InsertRows({Row(0, i, u, "cycle")}, {}, {i}, {})
    <3>1. PICK i \in job.items, u \in job.users : InsertRows({Row(0, i, u, "cycle")}, {}, {i}, {})
      BY <2>2
    <3>2. {Row(0, i, u, "cycle")} \in SUBSET Rows /\ IsFiniteSet({Row(0, i, u, "cycle")})
      BY <2>1, <1>b, RowOfOne
    <3> QED
      BY <1>e, <2>1, <3>1, <3>2
  <2>3. CASE InsertRows({}, {}, {}, {})
    BY <1>e, <2>3, FS_EmptySet
  <2> QED
    BY <1>16, <2>2, <2>3 DEF InjectCycles
<1>17. CASE InjectInsiderMisuse
  <2>1. job.users \in SUBSET Int /\ job.items \in SUBSET Int /\ IsFiniteSet(job.items)
    BY DEF TypeOK, Job
  <2>2. PICK u \in job.users, pattern \in {"rapid_access", "off_hours", "cross_case"} :
           InsertRows(ItemRows(job.items, u, "insider"), InsiderDocs(pattern, u, job.items), {u}, {})
    BY <1>17 DEF InjectInsiderMisuse, ItemRows
  <2>3. ItemRows(job.items, u, "insider") \in SUBSET Rows
        /\ IsFiniteSet(ItemRows(job.items, u, "insider"))
    BY <2>1, <1>b, RowsOfItems
  <2>4. InsiderDocs(pattern, u, job.items) \in SUBSET Docs
    <3>1. /\ Doc("insiderAlert", {u}) \in SUBSET Docs /\ Doc("insiderCustody", {u}) \in SUBSET Docs
          /\ Doc("insiderActivity", {u}) \in SUBSET Docs
      BY <1>d, <2>1
    <3> QED
      BY <3>1 DEF InsiderDocs
  <2> QED
    BY <1>e, <2>1, <2>2, <2>3, <2>4
<1>18. CASE InsertDocs
  <2>1. job.docs \in SUBSET Docs /\ mongo \in SUBSET Docs
    BY DEF TypeOK, Job
  <2>2. mongo' \in SUBSET Docs
    BY <1>18, <2>1 DEF InsertDocs
  <2>3. job' \in Job /\ job'.items = job.items
    BY <1>18 DEF InsertDocs, TypeOK, Job
  <2>4. hist' \in Hist
    BY <1>18, <1>c DEF InsertDocs, TypeOK
  <2>5. at' \in 0 .. Len(Script)
    <3>1. at' = 0 \/ Advance \/ (at # 0 /\ at' = at - 1)
      BY <1>18 DEF InsertDocs
    <3> QED
      BY <1>a, <1>0, <3>1
  <2> QED
    BY <1>18, <2>2, <2>3, <2>4, <2>5 DEF InsertDocs, TypeOK
<1>19. CASE SyncRows
  <2> DEFINE there == {r \in job.rows : r.item \in IdsOf(graph.nodes)}
  <2>1. there \in SUBSET Rows
    BY DEF TypeOK, Job
  <2>2. PICK rows \in SUBSET there : graph' = [graph EXCEPT !.events = MergeEvents(@, rows)]
    <3>1. \/ graph' = [graph EXCEPT !.events = MergeEvents(@, there)]
          \/ \E n \in 0 .. Cardinality(there) - 1 :
                graph' = [graph EXCEPT !.events =
                            MergeEvents(@, {r \in there : Rank(r.id, IdsOf(there)) < n})]
      BY <1>19 DEF SyncRows
    <3> HIDE DEF there
    <3>2. \A n : {r \in there : Rank(r.id, IdsOf(there)) < n} \in SUBSET there
      OBVIOUS
    <3> QED
      BY <3>1, <3>2
  <2>3. graph.events \in SUBSET Events
    BY DEF TypeOK, Graph
  <2>4. rows \in SUBSET Rows
    BY <2>1, <2>2
  <2>5. MergeEvents(graph.events, rows) \in SUBSET Events
    BY <2>3, <2>4, MergeTypes
  <2>6. graph' \in Graph
    BY <2>2, <2>5 DEF TypeOK, Graph
  <2>7. hist' \in Hist
    BY <1>19, <1>c DEF SyncRows, TypeOK
  <2> QED
    BY <1>19, <1>a, <2>6, <2>7 DEF SyncRows, TypeOK
<1>20. CASE WriteIds
  <2> DEFINE f == Script[at][1]
  <2>1. f \in FileName
    BY <1>20, <1>0, Places DEF WriteIds, TypeOK
  <2>2. /\ files' = [files EXCEPT ![f] = job.found]
        /\ hist' = [hist EXCEPT !.filed[f] = hist.runs,
                                !.completed = @ \cup IF at = Len(Script) THEN {hist.runs} ELSE {}]
    BY <1>20 DEF WriteIds
  <2> HIDE DEF f
  <2>3. files' \in [FileName -> SUBSET Int]
    BY <2>1, <2>2 DEF TypeOK, Job
  <2>4. \A h \in Hist : [h EXCEPT !.filed[f] = hist.runs] \in Hist
    BY <2>1, <1>b DEF Hist
  <2>5. \A h \in Hist : \A S \in SUBSET Nat : [h EXCEPT !.completed = @ \cup S] \in Hist
    BY DEF Hist
  <2>6. (IF at = Len(Script) THEN {hist.runs} ELSE {}) \in SUBSET Nat
    BY <1>b
  <2>7. hist' \in Hist
    <3>1. [hist EXCEPT !.filed[f] = hist.runs] \in Hist
      BY <2>4 DEF TypeOK
    <3> QED
      BY <3>1, <2>2, <2>5, <2>6, Zenon
  <2> QED
    BY <1>20, <1>a, <2>3, <2>7 DEF WriteIds, TypeOK
<1>21. CASE Profile
  BY <1>21 DEF Profile, TypeOK
<1>22. CASE UNCHANGED vars
  BY <1>22 DEF vars, TypeOK
<1> QED
  BY <1>1, <1>2, <1>3, <1>4, <1>5, <1>6, <1>7, <1>8, <1>9, <1>10, <1>11, <1>12, <1>13, <1>14,
     <1>15, <1>16, <1>17, <1>18, <1>19, <1>20, <1>21, <1>22, <1>23 DEF Next

-----------------------------------------------------------------------------
(* What the stages that insert have in common. *)

(* Tables grow by things of this run, whose documents are queued.          *)
Grown ==
    /\ sql.users \subseteq sql'.users /\ sql.cases \subseteq sql'.cases
    /\ sql.items \subseteq sql'.items /\ sql.rows \subseteq sql'.rows
    /\ sql.marked \subseteq sql'.marked /\ sql.access \subseteq sql'.access
    /\ \A x \in sql'.users : x \notin sql.users =>
          x.run = hist.runs /\ [kind |-> "login", id |-> x.id, run |-> hist.runs] \in job'.docs
    /\ \A x \in sql'.cases : x \notin sql.cases =>
          x.run = hist.runs /\ [kind |-> "case", id |-> x.id, run |-> hist.runs] \in job'.docs
    /\ \A x \in sql'.items : x \notin sql.items =>
          x.run = hist.runs /\ [kind |-> "upload", id |-> x.id, run |-> hist.runs] \in job'.docs
    /\ \A x \in sql'.marked : x \notin sql.marked =>
          x.run = hist.runs /\ [kind |-> "tamper", id |-> x.id, run |-> hist.runs] \in job'.docs
    /\ \A x \in sql'.access : x \notin sql.access =>
          x.run = hist.runs /\ [kind |-> "grant", id |-> x.id, run |-> hist.runs] \in job'.docs
    /\ \A r \in sql'.rows : r \notin sql.rows =>
          /\ r.run = hist.runs
          /\ r.kind # "insider" =>
                [kind |-> "custody", id |-> r.id, run |-> hist.runs] \in job'.docs

(* The documents tell of them, and accuse who is found at this stage.      *)
Queued ==
    /\ \A d \in job'.docs :
          /\ d.run = hist.runs
          /\ ToldOf(d)' \/ Undone(d)'
          /\ d.kind \in TamperKinds => at = 17 /\ d.id \in job'.found
          /\ d.kind \in InsiderKinds => at = 28 /\ d.id \in job'.found
    /\ at = 28 => \A u \in job'.found :
          [kind |-> "insiderAlert", id |-> u, run |-> hist.runs] \in job'.docs

(* A row has an id of its own. *)
Numbered ==
    /\ \A r, s \in sql'.rows : r \notin sql.rows /\ r.id = s.id => r = s
    /\ at \in {4, 6, 8, 12} => job'.rows = job.rows
    /\ at \in {20, 24, 28} => \A r \in job'.rows : r \notin sql.rows
    /\ at = 10 => \A r \in job'.rows : r \in job.rows \/ r \notin sql.rows

(* An item comes before those of the run that have no chain and no row. *)
BeforeLost(i) == \A j \in Todo : (\A x \in sql.items : x.id # j) => i < j

(* The document of evidence is undone when it has been made, for an item   *)
(* that is not there.                                                      *)
Undoing ==
    /\ \A d \in hist'.undone : d.kind = "upload" /\ d \notin hist.undone =>
          /\ at = 8 /\ d.run = hist.runs /\ d.id \in job'.items
          /\ [id |-> d.id, run |-> d.run] \notin sql'.items
    /\ at \in {4, 6, 8} => sql'.rows = sql.rows
    /\ at = 10 => /\ job'.items = job.items /\ sql'.items = sql.items
                  /\ \A r \in sql'.rows : r \in sql.rows \/ BeforeLost(r.item)

HistKept ==
    /\ hist'.runs = hist.runs /\ hist'.completed = hist.completed
    /\ hist'.cleared = hist.cleared /\ hist'.unset = hist.unset
    /\ hist'.unlogged = hist.unlogged /\ hist'.unswept = hist.unswept
    /\ hist'.filed = hist.filed /\ hist.undone \subseteq hist'.undone

Inserted ==
    /\ at \in Inserts /\ at' = at + 1
    /\ Grown /\ Queued /\ Numbered /\ Undoing /\ HistKept
    /\ mongo' = mongo /\ files' = files /\ graph'.events = graph.events

(* The script ends without another change. *)
Ended ==
    /\ at # 0 /\ at' = 0
    /\ sql' = sql /\ mongo' = mongo /\ files' = files /\ graph' = graph /\ job' = job
    /\ HistKept /\ hist'.undone = hist.undone

(* The rows of one transaction, with ids of their own, and the documents.  *)
RowsGrow(rows, new, docs, found, earlier) ==
    /\ at' = at + 1
    /\ sql' = [sql EXCEPT !.rows = @ \cup rows]
    /\ job' = [job EXCEPT !.rows = earlier \cup rows, !.found = found, !.docs = job'.docs]
    /\ job'.rows = earlier \cup rows /\ job'.found = found
    /\ \A r \in rows : \E x \in new :
          r.run = x.run /\ r.item = x.item /\ r.user = x.user /\ r.kind = x.kind
    /\ \A r \in new : \E x \in rows : x.item = r.item /\ x.run = r.run
    /\ \A r \in rows : r.kind # "insider" =>
          [kind |-> "custody", id |-> r.id, run |-> hist.runs] \in job'.docs
    /\ docs \subseteq job'.docs
    /\ \A d \in job'.docs : d \notin docs =>
          \E r \in rows : d = [kind |-> "custody", id |-> r.id, run |-> hist.runs]
    /\ \A r \in rows : r \notin sql.rows
    /\ \A r \in rows : \A s \in sql'.rows : r.id = s.id => r = s
    /\ UNCHANGED <<mongo, graph, files, hist>>

LEMMA InsertingRows ==
    ASSUME TypeOK, NEW new \in SUBSET Rows, NEW docs \in SUBSET Docs, NEW found, NEW earlier,
           \A r \in new : r.run = hist.runs,
           \A r, s \in new : r.id = s.id => r = s,
           at \in {10, 20, 24, 28}, InsertRows(new, docs, found, earlier)
    PROVE  \/ Ended
           \/ \E rows : RowsGrow(rows, new, docs, found, earlier)
<1> DEFINE rows == {[r EXCEPT !.id = seq.rows + @] : r \in new}
           told == {[kind |-> "custody", id |-> r.id, run |-> r.run] :
                       r \in {x \in rows : x.kind # "insider"}}
<1>1. UNCHANGED <<mongo, graph, files, hist>>
  BY DEF InsertRows
<1>2. CASE IdsOf(rows) \cap IdsOf(sql.rows) # {}
  BY <1>1, <1>2 DEF InsertRows, Ended, HistKept
<1>3. CASE IdsOf(rows) \cap IdsOf(sql.rows) = {}
  <2>a. /\ sql' = [sql EXCEPT !.rows = @ \cup rows]
        /\ job' = [job EXCEPT !.rows = earlier \cup rows, !.found = found,
                              !.docs = docs \cup told]
        /\ Advance
    BY <1>3 DEF InsertRows
  <2>b. at' = at + 1
    <3>1. Len(Script) = 31
      BY Places DEF TypeOK
    <3>2. Advance => at' = at + 1
      BY <3>1 DEF Advance
    <3> QED
      BY <2>a, <3>2
  <2>1. /\ sql' = [sql EXCEPT !.rows = @ \cup rows]
        /\ job' = [job EXCEPT !.rows = earlier \cup rows, !.found = found,
                              !.docs = docs \cup told]
        /\ at' = at + 1
    BY <2>a, <2>b
  <2>2. job'.rows = earlier \cup rows /\ job'.found = found /\ job'.docs = docs \cup told
        /\ sql'.rows = sql.rows \cup rows
    BY <2>1 DEF TypeOK, Job, Tables
  <2>3. ASSUME NEW r \in rows
        PROVE  /\ \E x \in new :
                     r.run = x.run /\ r.item = x.item /\ r.user = x.user /\ r.kind = x.kind
               /\ r.run = hist.runs
    BY DEF Rows
  <2>4. ASSUME NEW r \in new PROVE \E x \in rows : x.item = r.item /\ x.run = r.run
    <3>1. [r EXCEPT !.id = seq.rows + @] \in rows
      OBVIOUS
    <3> QED
      BY <3>1 DEF Rows
  <2>5. ASSUME NEW r \in rows, NEW s \in rows, r.id = s.id PROVE r = s
    <3>1. PICK x \in new, y \in new : /\ r = [x EXCEPT !.id = seq.rows + @]
                                      /\ s = [y EXCEPT !.id = seq.rows + @]
      OBVIOUS
    <3>2. x.id \in Int /\ y.id \in Int /\ seq.rows \in Int
      BY DEF Rows, TypeOK
    <3>3. seq.rows + x.id = seq.rows + y.id
      BY <2>5, <3>1 DEF Rows
    <3> QED
      BY <3>1, <3>2, <3>3
  <2>6. ASSUME NEW r \in rows, NEW s \in sql.rows PROVE r.id # s.id
    BY <1>3 DEF IdsOf
  <2>7. \A r \in rows : r.kind # "insider" =>
              [kind |-> "custody", id |-> r.id, run |-> hist.runs] \in told
    BY <2>3
  <2>8. \A d \in told : \E r \in rows : d = [kind |-> "custody", id |-> r.id, run |-> hist.runs]
    BY <2>3
  <2> HIDE DEF rows, told
  <2>9. RowsGrow(rows, new, docs, found, earlier)
    BY <1>1, <2>1, <2>2, <2>3, <2>4, <2>5, <2>6, <2>7, <2>8 DEF RowsGrow
  <2> QED
    BY <2>9
<1> QED
  BY <1>2, <1>3

(* The thing a document tells of, kind by kind. *)
LEMMA Told ==
    ASSUME NEW d
    PROVE  LET thing == [id |-> d.id, run |-> d.run] IN
           /\ d.kind \in {"login", "insiderAlert", "insiderCustody", "insiderActivity"} =>
                 (ToldOf(d) <=> thing \in sql.users) /\ (ToldOf(d)' <=> thing \in sql'.users)
           /\ d.kind = "case" =>
                 (ToldOf(d) <=> thing \in sql.cases) /\ (ToldOf(d)' <=> thing \in sql'.cases)
           /\ d.kind \in {"upload", "verify"} =>
                 (ToldOf(d) <=> thing \in sql.items) /\ (ToldOf(d)' <=> thing \in sql'.items)
           /\ d.kind \in {"tamper", "tamperAlert"} =>
                 (ToldOf(d) <=> thing \in sql.marked) /\ (ToldOf(d)' <=> thing \in sql'.marked)
           /\ d.kind = "grant" =>
                 (ToldOf(d) <=> thing \in sql.access) /\ (ToldOf(d)' <=> thing \in sql'.access)
           /\ d.kind = "custody" =>
                 /\ ToldOf(d) <=> \E r \in sql.rows : r.id = d.id /\ r.run = d.run
                 /\ ToldOf(d)' <=> \E r \in sql'.rows : r.id = d.id /\ r.run = d.run
<1> DEFINE thing == [id |-> d.id, run |-> d.run]
<1>1. d.kind \in {"login", "insiderAlert", "insiderCustody", "insiderActivity"} =>
         (ToldOf(d) <=> thing \in sql.users) /\ (ToldOf(d)' <=> thing \in sql'.users)
  BY DEF ToldOf
<1>2. d.kind = "case" =>
         (ToldOf(d) <=> thing \in sql.cases) /\ (ToldOf(d)' <=> thing \in sql'.cases)
  BY DEF ToldOf
<1>3. d.kind \in {"upload", "verify"} =>
         (ToldOf(d) <=> thing \in sql.items) /\ (ToldOf(d)' <=> thing \in sql'.items)
  BY DEF ToldOf
<1>4. d.kind \in {"tamper", "tamperAlert"} =>
         (ToldOf(d) <=> thing \in sql.marked) /\ (ToldOf(d)' <=> thing \in sql'.marked)
  BY DEF ToldOf
<1>5. d.kind = "grant" =>
         (ToldOf(d) <=> thing \in sql.access) /\ (ToldOf(d)' <=> thing \in sql'.access)
  BY DEF ToldOf
<1>6. d.kind = "custody" =>
         /\ ToldOf(d) <=> \E r \in sql.rows : r.id = d.id /\ r.run = d.run
         /\ ToldOf(d)' <=> \E r \in sql'.rows : r.id = d.id /\ r.run = d.run
  BY DEF ToldOf
<1> QED
  BY <1>1, <1>2, <1>3, <1>4, <1>5, <1>6

LEMMA AdvanceTo == ASSUME TypeOK, at # 31, Advance PROVE at' = at + 1
BY Places DEF TypeOK, Advance

LEMMA OfIds ==
    ASSUME NEW ids, NEW kind
    PROVE  /\ \A x \in Thing(ids) : x.id \in ids /\ x.run = hist.runs
           /\ \A i \in ids : [id |-> i, run |-> hist.runs] \in Thing(ids)
           /\ \A i \in ids : [kind |-> kind, id |-> i, run |-> hist.runs] \in Doc(kind, ids)
           /\ \A d \in Doc(kind, ids) : d.id \in ids /\ d.kind = kind /\ d.run = hist.runs
BY DEF Thing, Doc

(* What main() knows of its rows stays true while tables grow. *)
LEMMA JobKept ==
    ASSUME TypeOK, RunInv, JobInv, at \in Inserts, at' = at + 1, Grown, HistKept,
           \A u \in job'.users : u \in job.users
                                 \/ [id |-> u, run |-> hist.runs] \in sql'.users,
           at \notin {8, 10} =>
              \A i \in job'.items : i \in job.items
                                    \/ [id |-> i, run |-> hist.runs] \in sql'.items,
           at \in {8, 10} =>
              \A i \in job'.items : \A x \in sql'.items : x.id = i => x.run = hist.runs,
           at \in {4, 6, 8, 10} =>
              \A r \in job'.rows : r \in job.rows
                                   \/ [id |-> r.item, run |-> hist.runs] \in sql'.items,
           \A r \in job'.rows : r \in job.rows \/ (r \in sql'.rows /\ r.run = hist.runs),
           at = 17 => /\ IsFiniteSet(job'.found)
                      /\ \A i \in job'.found : [id |-> i, run |-> hist.runs] \in sql'.marked,
           at \in {20, 24} =>
              \A i \in job'.found : \E r \in sql'.rows : r.item = i /\ r.run = hist.runs,
           at = 28 => \A u \in job'.found : [id |-> u, run |-> hist.runs] \in sql'.users
    PROVE  JobInv'
<1>1. at' \in Logs /\ at' \notin 1 .. 4 /\ at' # 0 /\ at # 0
  BY DEF Inserts, Logs
<1>2. hist'.runs = hist.runs
  BY DEF HistKept
<1>3. /\ \A u \in job'.users : [id |-> u, run |-> hist'.runs] \in sql'.users
      /\ \A r \in job'.rows : r \in sql'.rows /\ r.run = hist'.runs
  BY <1>1, <1>2 DEF JobInv, Grown
<1>7. /\ at' \notin 9 .. 11 => at \notin 9 .. 11 /\ at \notin {8, 10}
      /\ at' \in 9 .. 11 => at \in {8, 10}
      /\ at' \in 4 .. 11 => at \in {4, 6, 8, 10} /\ at \in 4 .. 11
  BY DEF Inserts
<1>8. at' \notin 9 .. 11 =>
         \A i \in job'.items : [id |-> i, run |-> hist'.runs] \in sql'.items
  BY <1>1, <1>2, <1>7 DEF JobInv, Grown
<1>9. at' \in 9 .. 11 =>
         \A i \in job'.items : \A x \in sql'.items : x.id = i => x.run = hist'.runs
  BY <1>2, <1>7
<1>10. at' \in 4 .. 11 =>
          \A r \in job'.rows : [id |-> r.item, run |-> hist'.runs] \in sql'.items
  BY <1>2, <1>7 DEF JobInv, Grown
<1>4. at' \in {18, 19} =>
          /\ IsFiniteSet(job'.found)
          /\ \A i \in job'.found : [id |-> i, run |-> hist'.runs] \in sql'.marked
  BY <1>2 DEF Inserts
<1>5. at' \in {21, 22, 23, 25, 26, 27} =>
          \A i \in job'.found : \E r \in sql'.rows : r.item = i /\ r.run = hist'.runs
  BY <1>2 DEF Inserts
<1>6. at' \in {29, 30, 31} =>
          \A u \in job'.found : [id |-> u, run |-> hist'.runs] \in sql'.users
  BY <1>2 DEF Inserts
<1> QED
  BY <1>1, <1>3, <1>4, <1>5, <1>6, <1>8, <1>9, <1>10 DEF JobInv

LEMMA UsersInserted ==
    ASSUME TypeOK, RunInv, JobInv, CreateUsers
    PROVE  Inserted /\ JobInv'
<1> DEFINE ids == LastId(sql.users) + 1 .. LastId(sql.users) + NUsers
<1>a. At("users", "sql") /\ Advance
  BY DEF CreateUsers
<1>1. at = 4 /\ at' = at + 1
  BY <1>a, Places, AdvanceTo DEF TypeOK
<1>2. /\ sql' = [sql EXCEPT !.users = @ \cup Thing(ids)]
      /\ job' = [job EXCEPT !.users = ids, !.docs = Doc("login", ids)]
      /\ UNCHANGED <<mongo, graph, files, hist>>
  BY DEF CreateUsers
<1> HIDE DEF ids
<1>3. /\ sql'.users = sql.users \cup Thing(ids) /\ sql'.cases = sql.cases
      /\ sql'.items = sql.items /\ sql'.rows = sql.rows /\ sql'.marked = sql.marked
      /\ sql'.access = sql.access
      /\ job'.users = ids /\ job'.docs = Doc("login", ids) /\ job'.items = job.items
      /\ job'.rows = job.rows
  BY <1>2 DEF TypeOK, Tables, Job
<1>4. Grown
  BY <1>3, OfIds DEF Grown
<1>5. Queued
    <2>1. ASSUME NEW d \in job'.docs
          PROVE  d.run = hist.runs /\ d.kind = "login" /\ ToldOf(d)'
      <3>1. d.kind = "login" /\ d.id \in ids /\ d.run = hist.runs
        BY <1>3, <2>1, OfIds
      <3>2. [id |-> d.id, run |-> d.run] \in sql'.users
        BY <1>3, <3>1, OfIds
      <3> QED
        BY <3>1, <3>2, Told
    <2> QED
      BY <1>1, <2>1 DEF Queued, TamperKinds, InsiderKinds
<1>6. Numbered /\ Undoing /\ HistKept
  BY <1>1, <1>2, <1>3 DEF Numbered, Undoing, HistKept
<1>7. JobInv'
  BY <1>1, <1>3, <1>4, <1>6, OfIds, JobKept DEF Inserts
<1> QED
  BY <1>1, <1>2, <1>4, <1>5, <1>6, <1>7 DEF Inserted, Inserts

LEMMA CasesInserted ==
    ASSUME TypeOK, RunInv, JobInv, CreateCases
    PROVE  Ended \/ (Inserted /\ JobInv')
<1>a. At("cases", "sql")
  BY DEF CreateCases
<1>1. at = 6 /\ (Advance => at' = at + 1)
  BY <1>a, Places, AdvanceTo DEF TypeOK
<1>2. CASE seq.cases \in IdsOf(sql.cases)
  BY <1>1, <1>2 DEF CreateCases, Ended, HistKept
<1>3. CASE seq.cases \notin IdsOf(sql.cases)
  <2>1. /\ sql' = [sql EXCEPT !.cases = @ \cup Thing({seq.cases})]
        /\ job' = [job EXCEPT !.docs = Doc("case", {seq.cases})]
        /\ UNCHANGED <<mongo, graph, files, hist>> /\ at' = at + 1
    BY <1>1, <1>3 DEF CreateCases
  <2>2. /\ sql'.users = sql.users /\ sql'.cases = sql.cases \cup Thing({seq.cases})
        /\ sql'.items = sql.items /\ sql'.rows = sql.rows /\ sql'.marked = sql.marked
        /\ sql'.access = sql.access
        /\ job'.users = job.users /\ job'.docs = Doc("case", {seq.cases})
        /\ job'.items = job.items /\ job'.rows = job.rows
    BY <2>1 DEF TypeOK, Tables, Job
  <2>3. Grown
    BY <2>2, OfIds DEF Grown
  <2>4. Queued
      <3>1. ASSUME NEW d \in job'.docs
            PROVE  d.run = hist.runs /\ d.kind = "case" /\ ToldOf(d)'
        <4>1. d.kind = "case" /\ d.id \in {seq.cases} /\ d.run = hist.runs
          BY <2>2, <3>1, OfIds
        <4>2. [id |-> d.id, run |-> d.run] \in sql'.cases
          BY <2>2, <4>1, OfIds
        <4> QED
          BY <4>1, <4>2, Told
      <3> QED
        BY <1>1, <3>1 DEF Queued, TamperKinds, InsiderKinds
  <2>5. Numbered /\ Undoing /\ HistKept
    BY <1>1, <2>1, <2>2 DEF Numbered, Undoing, HistKept
  <2>6. JobInv'
    BY <1>1, <2>1, <2>2, <2>3, <2>5, JobKept DEF Inserts
  <2> QED
    BY <1>1, <2>1, <2>3, <2>4, <2>5, <2>6 DEF Inserted, Inserts
<1> QED
  BY <1>2, <1>3

LEMMA EvidenceInserted ==
    ASSUME TypeOK, RunInv, JobInv, CreateEvidence
    PROVE  Inserted /\ JobInv'
<1>a. At("evidence", "sql") /\ Advance
  BY DEF CreateEvidence
<1>1. at = 8 /\ at' = at + 1
  BY <1>a, Places, AdvanceTo DEF TypeOK
<1>p. PICK n \in Nat : \E made, kept, nodes \in SUBSET Fresh(n) :
         kept \subseteq made /\ Creates(n, made, kept, nodes)
  BY Creation
<1> DEFINE free == Fresh(n)
<1>2. PICK made, kept, nodes \in SUBSET free :
         kept \subseteq made /\ Creates(n, made, kept, nodes)
  BY <1>p
<1>b. \A i \in free : \A x \in sql.items : x.id # i
  BY DEF Fresh, IdsOf
<1> HIDE DEF free
<1>3. /\ UNCHANGED <<mongo, files>> /\ HistKept
      /\ \A d \in Doc("upload", made \ kept) : d \in hist'.undone
      /\ \A d \in hist'.undone : d \in hist.undone \/ d \in Doc("upload", made \ kept)
  <2>1. PICK f \in {0, 1} :
           hist' = [hist EXCEPT !.uploads = @ + n, !.faults = @ + f,
                                !.undone = @ \cup Doc("upload", made \ kept)]
    BY <1>2 DEF Creates
  <2>2. hist'.undone = hist.undone \cup Doc("upload", made \ kept) /\ HistKept
    BY <2>1 DEF HistKept, TypeOK, Hist
  <2> QED
    BY <2>2 DEF CreateEvidence
<1>4. /\ sql'.users = sql.users /\ sql'.cases = sql.cases
      /\ sql'.items = sql.items \cup Thing(kept) /\ sql'.rows = sql.rows
      /\ sql'.marked = sql.marked /\ sql'.access = sql.access
      /\ job'.users = job.users /\ job'.docs = Doc("upload", made) /\ job'.items = made
      /\ job'.rows = job.rows
  BY <1>2 DEF Creates, TypeOK, Tables, Job
<1>5. graph'.events = graph.events
  BY <1>2 DEF Creates, TypeOK, Graph
<1>6. Grown
  <2>1. ASSUME NEW x \in Thing(kept)
        PROVE  x.run = hist.runs /\ [kind |-> "upload", id |-> x.id, run |-> hist.runs] \in job'.docs
    <3>1. x.id \in made /\ x.run = hist.runs
      BY <1>2, OfIds
    <3> QED
      BY <1>4, <3>1, OfIds
  <2> QED
    BY <1>4, <2>1 DEF Grown
<1>7. Queued
  <2>1. ASSUME NEW d \in Doc("upload", made)
        PROVE  /\ d.run = hist.runs /\ d.kind = "upload"
               /\ ToldOf(d)' \/ Undone(d)'
    <3>1. d.run = hist.runs /\ d.kind = "upload" /\ d.id \in made
      BY OfIds
    <3>2. CASE d.id \in kept
      <4>1. [id |-> d.id, run |-> d.run] \in sql'.items
        BY <1>4, <3>1, <3>2, OfIds
      <4> QED
        BY <3>1, <4>1, Told
    <3>3. CASE d.id \notin kept
      <4>1. d = [kind |-> "upload", id |-> d.id, run |-> hist.runs]
        BY <2>1 DEF Doc
      <4>2. d \in Doc("upload", made \ kept)
        BY <3>1, <3>3, <4>1, OfIds
      <4> QED
        BY <1>3, <3>1, <4>2 DEF Undone
    <3> QED
      BY <3>1, <3>2, <3>3
  <2> QED
    BY <1>1, <1>4, <2>1 DEF Queued, TamperKinds, InsiderKinds
<1>8. Numbered
  BY <1>1, <1>4 DEF Numbered
<1>9. Undoing
  <2>1. ASSUME NEW d \in Doc("upload", made \ kept)
        PROVE  /\ d.run = hist.runs /\ d.id \in job'.items
               /\ [id |-> d.id, run |-> d.run] \notin sql'.items
    <3>1. d.run = hist.runs /\ d.id \in made /\ d.id \notin kept
      BY OfIds
    <3>2. [id |-> d.id, run |-> d.run] \notin sql.items
      BY <1>2, <1>b, <3>1
    <3>3. [id |-> d.id, run |-> d.run] \notin Thing(kept)
      BY <3>1, OfIds
    <3> QED
      BY <1>4, <3>1, <3>2, <3>3
  <2>2. sql'.rows = sql.rows
    BY <1>4
  <2> QED
    BY <1>1, <1>3, <2>1, <2>2, SMTT(40) DEF Undoing
<1>10. \A i \in job'.items : \A x \in sql'.items : x.id = i => x.run = hist.runs
  BY <1>2, <1>b, <1>4, OfIds
<1>11. JobInv'
  BY <1>1, <1>3, <1>4, <1>6, <1>10, JobKept DEF Inserts
<1> QED
  BY <1>1, <1>3, <1>5, <1>6, <1>7, <1>8, <1>9, <1>11 DEF Inserted, Inserts

LEMMA HistoryInserted ==
    ASSUME TypeOK, RunInv, JobInv, CreateVerificationHistory
    PROVE  Inserted /\ JobInv'
<1>a. At("verify", "sql") /\ Advance
  BY DEF CreateVerificationHistory
<1>1. at = 12 /\ at' = at + 1
  BY <1>a, Places, AdvanceTo DEF TypeOK
<1>2. PICK differ : sql' = [sql EXCEPT !.history = @ \cup Thing(differ)]
  BY DEF CreateVerificationHistory
<1>3. /\ job' = [job EXCEPT !.docs = Doc("verify", job.items)]
      /\ UNCHANGED <<mongo, graph, files, hist>>
  BY DEF CreateVerificationHistory
<1>4. /\ sql'.users = sql.users /\ sql'.cases = sql.cases
      /\ sql'.items = sql.items /\ sql'.rows = sql.rows
      /\ sql'.marked = sql.marked /\ sql'.access = sql.access
      /\ job'.users = job.users /\ job'.docs = Doc("verify", job.items) /\ job'.items = job.items
      /\ job'.rows = job.rows
  BY <1>2, <1>3 DEF TypeOK, Tables, Job
<1>5. \A i \in job.items : [id |-> i, run |-> hist.runs] \in sql.items
  BY <1>1 DEF JobInv
<1>6. Grown
  BY <1>4 DEF Grown
<1>7. Queued
    <2>1. ASSUME NEW d \in job'.docs
          PROVE  d.run = hist.runs /\ d.kind = "verify" /\ ToldOf(d)'
      <3>1. d.kind = "verify" /\ d.id \in job.items /\ d.run = hist.runs
        BY <1>4, <2>1, OfIds
      <3>2. [id |-> d.id, run |-> d.run] \in sql'.items
        BY <1>4, <1>5, <3>1, OfIds
      <3> QED
        BY <3>1, <3>2, Told
    <2> QED
      BY <1>1, <2>1 DEF Queued, TamperKinds, InsiderKinds
<1>8. Numbered /\ Undoing /\ HistKept
  BY <1>1, <1>3, <1>4 DEF Numbered, Undoing, HistKept
<1>9. JobInv'
  BY <1>1, <1>4, <1>6, <1>8, JobKept DEF Inserts
<1> QED
  BY <1>1, <1>3, <1>6, <1>7, <1>8, <1>9 DEF Inserted, Inserts

LEMMA AccessInserted ==
    ASSUME TypeOK, RunInv, JobInv, CreateCaseAccess
    PROVE  Inserted /\ JobInv'
<1>a. At("access", "sql") /\ Advance
  BY DEF CreateCaseAccess
<1>1. at = 15 /\ at' = at + 1
  BY <1>a, Places, AdvanceTo DEF TypeOK
<1> DEFINE members == IdsOf(sql.users)
<1> HIDE DEF members
<1>2. PICK made, told, before :
         /\ made \subseteq told /\ told \subseteq made \cup before
         /\ sql' = [sql EXCEPT !.access = @ \cup Thing(made)]
         /\ job' = [job EXCEPT !.docs = Doc("grant", told)]
         /\ \/ hist' = hist /\ before = {}
            \/ hist' = [hist EXCEPT !.faults = @ + 1, !.undone = @ \cup Doc("grant", before)]
  <2>1. CASE sql' = [sql EXCEPT !.access = @ \cup Thing(members)]
             /\ job' = [job EXCEPT !.docs = Doc("grant", members)] /\ UNCHANGED hist
    BY <2>1
  <2>2. ASSUME NEW u \in members, NEW before, before = {v \in members : v < u},
               sql' = [sql EXCEPT !.access = @ \cup Thing(members \ (before \cup {u}))],
               job' = [job EXCEPT !.docs = Doc("grant", members \ {u})],
               hist' = [hist EXCEPT !.faults = @ + 1, !.undone = @ \cup Doc("grant", before)]
        PROVE  \E made, told, b :
                  /\ made \subseteq told /\ told \subseteq made \cup b
                  /\ sql' = [sql EXCEPT !.access = @ \cup Thing(made)]
                  /\ job' = [job EXCEPT !.docs = Doc("grant", told)]
                  /\ \/ hist' = hist /\ b = {}
                     \/ hist' = [hist EXCEPT !.faults = @ + 1, !.undone = @ \cup Doc("grant", b)]
    <3>1. members \ (before \cup {u}) \subseteq members \ {u}
          /\ members \ {u} \subseteq (members \ (before \cup {u})) \cup before
      OBVIOUS
    <3> QED
      BY <2>2, <3>1
  <2> QED
    BY <2>1, <2>2 DEF CreateCaseAccess, members
<1>3. /\ HistKept
      /\ \A d \in Doc("grant", before) : d \in hist'.undone
      /\ \A d \in hist'.undone : d \in hist.undone \/ d.kind = "grant"
  <2>1. CASE hist' = hist /\ before = {}
    <3>1. Doc("grant", before) = {}
      BY <2>1 DEF Doc
    <3> QED
      BY <2>1, <3>1 DEF HistKept
  <2>2. CASE hist' = [hist EXCEPT !.faults = @ + 1, !.undone = @ \cup Doc("grant", before)]
    <3>1. hist'.undone = hist.undone \cup Doc("grant", before) /\ HistKept
      BY <2>2 DEF HistKept, TypeOK, Hist
    <3> QED
      BY <3>1, OfIds
  <2> QED
    BY <1>2, <2>1, <2>2
<1>4. /\ sql'.users = sql.users /\ sql'.cases = sql.cases
      /\ sql'.items = sql.items /\ sql'.rows = sql.rows
      /\ sql'.marked = sql.marked /\ sql'.access = sql.access \cup Thing(made)
      /\ job'.users = job.users /\ job'.docs = Doc("grant", told) /\ job'.items = job.items
      /\ job'.rows = job.rows
  BY <1>2 DEF TypeOK, Tables, Job
<1>5. UNCHANGED <<mongo, graph, files>>
  BY DEF CreateCaseAccess
<1>6. Grown
  <2>1. ASSUME NEW x \in Thing(made)
        PROVE  x.run = hist.runs /\ [kind |-> "grant", id |-> x.id, run |-> hist.runs] \in job'.docs
    <3>1. x.id \in told /\ x.run = hist.runs
      BY <1>2, OfIds
    <3> QED
      BY <1>4, <3>1, OfIds
  <2> QED
    BY <1>4, <2>1 DEF Grown
<1>7. Queued
  <2>1. ASSUME NEW d \in Doc("grant", told)
        PROVE  /\ d.run = hist.runs /\ d.kind = "grant"
               /\ ToldOf(d)' \/ Undone(d)'
    <3>1. d.run = hist.runs /\ d.kind = "grant" /\ d.id \in told
      BY OfIds
    <3>2. CASE d.id \in made
      BY <1>4, <3>1, <3>2, OfIds, Told
    <3>3. CASE d.id \in before
      <4>1. d = [kind |-> "grant", id |-> d.id, run |-> hist.runs]
        BY <2>1 DEF Doc
      <4>2. d \in Doc("grant", before)
        BY <3>3, <4>1, OfIds
      <4> QED
        BY <1>3, <3>1, <4>2 DEF Undone
    <3> QED
      BY <1>2, <3>1, <3>2, <3>3
  <2> QED
    BY <1>1, <1>4, <2>1 DEF Queued, TamperKinds, InsiderKinds
<1>8. Numbered /\ Undoing
  BY <1>1, <1>3, <1>4 DEF Numbered, Undoing
<1>9. JobInv'
  BY <1>1, <1>3, <1>4, <1>6, JobKept DEF Inserts
<1> QED
  BY <1>1, <1>3, <1>5, <1>6, <1>7, <1>8, <1>9 DEF Inserted, Inserts

LEMMA TamperedInserted ==
    ASSUME TypeOK, RunInv, JobInv, InjectTamperedHashes
    PROVE  Inserted /\ JobInv'
<1>a. At("tamper", "sql") /\ Advance
  BY DEF InjectTamperedHashes
<1>1. at = 17 /\ at' = at + 1
  BY <1>a, Places, AdvanceTo DEF TypeOK
<1>2. PICK targets \in SUBSET job.items :
         /\ sql' = [sql EXCEPT !.marked = @ \cup Thing(targets)]
         /\ job' = [job EXCEPT !.docs = Doc("tamper", targets) \cup Doc("tamperAlert", targets),
                               !.found = targets]
  BY DEF InjectTamperedHashes
<1>3. /\ sql'.users = sql.users /\ sql'.cases = sql.cases
      /\ sql'.items = sql.items /\ sql'.rows = sql.rows
      /\ sql'.marked = sql.marked \cup Thing(targets) /\ sql'.access = sql.access
      /\ job'.users = job.users /\ job'.items = job.items /\ job'.rows = job.rows
      /\ job'.docs = Doc("tamper", targets) \cup Doc("tamperAlert", targets)
      /\ job'.found = targets
  BY <1>2 DEF TypeOK, Tables, Job
<1>4. UNCHANGED <<mongo, graph, files, hist>>
  BY DEF InjectTamperedHashes
<1>5. IsFiniteSet(targets)
  BY <1>2, FS_Subset DEF TypeOK
<1>6. Grown
  BY <1>3, OfIds DEF Grown
<1>7. Queued
  <2>1. ASSUME NEW d \in job'.docs
        PROVE  /\ d.run = hist.runs /\ d.kind \in TamperKinds /\ d.id \in targets
               /\ ToldOf(d)'
    <3>1. d.kind \in TamperKinds /\ d.id \in targets /\ d.run = hist.runs
      BY <1>3, <2>1, OfIds DEF TamperKinds
    <3>2. [id |-> d.id, run |-> d.run] \in sql'.marked
      BY <1>3, <3>1, OfIds
    <3> QED
      BY <3>1, <3>2, Told DEF TamperKinds
  <2> QED
    BY <1>1, <1>3, <2>1 DEF Queued, TamperKinds, InsiderKinds
<1>8. Numbered /\ Undoing /\ HistKept
  BY <1>1, <1>3, <1>4 DEF Numbered, Undoing, HistKept
<1>9. JobInv'
  BY <1>1, <1>3, <1>5, <1>6, <1>8, OfIds, JobKept DEF Inserts
<1> QED
  BY <1>1, <1>4, <1>6, <1>7, <1>8, <1>9 DEF Inserted, Inserts

LEMMA RowsInserted ==
    ASSUME TypeOK, RunInv, JobInv, at \in {10, 20, 24, 28},
           NEW new \in SUBSET Rows, NEW docs \in SUBSET Docs, NEW found, NEW earlier,
           earlier = {} \/ (at = 10 /\ earlier = job.rows),
           at = 10 => \A r \in new : /\ [id |-> r.item, run |-> hist.runs] \in sql.items
                                     /\ BeforeLost(r.item),
           \A r \in new : r.run = hist.runs,
           \A r, s \in new : r.id = s.id => r = s,
           \A d \in docs : /\ d.kind \in InsiderKinds /\ d.run = hist.runs /\ at = 28
                           /\ d.id \in found,
           at \in {20, 24} => \A i \in found : \E r \in new : r.item = i,
           at = 28 => \A u \in found :
              /\ [kind |-> "insiderAlert", id |-> u, run |-> hist.runs] \in docs
              /\ [id |-> u, run |-> hist.runs] \in sql.users,
           InsertRows(new, docs, found, earlier)
    PROVE  Ended \/ (Inserted /\ JobInv')
<1>1. CASE Ended
  BY <1>1
<1>2. ASSUME NEW rows, RowsGrow(rows, new, docs, found, earlier)
      PROVE  Inserted /\ JobInv'
  <2>1. /\ sql'.users = sql.users /\ sql'.cases = sql.cases
        /\ sql'.items = sql.items /\ sql'.rows = sql.rows \cup rows
        /\ sql'.marked = sql.marked /\ sql'.access = sql.access
        /\ job'.users = job.users /\ job'.items = job.items
        /\ job'.rows = earlier \cup rows
    BY <1>2 DEF RowsGrow, TypeOK, Tables, Job
  <2>2. \A r \in rows : r.run = hist.runs
    BY <1>2 DEF RowsGrow
  <2>3. Grown
    BY <1>2, <2>1, <2>2 DEF RowsGrow, Grown
  <2>4. HistKept
    BY <1>2 DEF RowsGrow, HistKept
  <2>5. ASSUME NEW d \in job'.docs
        PROVE  /\ d.run = hist.runs /\ ToldOf(d)'
               /\ d.kind = "custody" \/ (d.kind \in InsiderKinds /\ at = 28 /\ d.id \in found)
    <3>1. CASE d \in docs
      <4>1. d.kind \in InsiderKinds /\ d.run = hist.runs /\ at = 28 /\ d.id \in found
        BY <3>1
      <4>2. [id |-> d.id, run |-> d.run] \in sql'.users
        BY <4>1, <2>1
      <4> QED
        BY <4>1, <4>2, Told DEF InsiderKinds
    <3>2. CASE d \notin docs
      <4>1. PICK r \in rows : d = [kind |-> "custody", id |-> r.id, run |-> hist.runs]
        BY <1>2, <2>5, <3>2 DEF RowsGrow
      <4>2. r \in sql'.rows /\ r.id = d.id /\ r.run = d.run /\ d.kind = "custody"
            /\ d.run = hist.runs
        BY <2>1, <2>2, <4>1
      <4> QED
        BY <4>2, Told
    <3> QED
      BY <3>1, <3>2
  <2>6. Queued
    <3>1. at = 28 => \A u \in job'.found :
             [kind |-> "insiderAlert", id |-> u, run |-> hist.runs] \in job'.docs
      BY <1>2 DEF RowsGrow
    <3>2. job'.found = found
      BY <1>2 DEF RowsGrow
    <3> QED
      BY <2>5, <3>1, <3>2 DEF Queued, TamperKinds, InsiderKinds
  <2>7. Numbered /\ Undoing
    <3>1. \A r \in rows : \E x \in new : r.item = x.item
      BY <1>2 DEF RowsGrow
    <3>2. hist' = hist
      BY <1>2 DEF RowsGrow
    <3>3. at \notin {4, 6, 8}
      OBVIOUS
    <3>4. Undoing
      BY <2>1, <3>1, <3>2, <3>3 DEF Undoing
    <3> QED
      BY <1>2, <2>1, <3>4 DEF RowsGrow, Numbered
  <2>8. JobInv'
    <3>1. at \in {20, 24} =>
             \A i \in job'.found : \E r \in sql'.rows : r.item = i /\ r.run = hist.runs
      BY <1>2, <2>1, <2>2 DEF RowsGrow
    <3>2. at = 28 => \A u \in job'.found : [id |-> u, run |-> hist.runs] \in sql'.users
      BY <1>2, <2>1 DEF RowsGrow
    <3>3. at \in Inserts /\ at' = at + 1 /\ at # 17
      BY <1>2 DEF RowsGrow, Inserts
    <3>4. \A r \in job'.rows : r \in job.rows \/ (r \in sql'.rows /\ r.run = hist.runs)
      BY <2>1, <2>2
    <3>5. at = 10 =>
             /\ \A i \in job'.items : \A x \in sql'.items : x.id = i => x.run = hist.runs
             /\ \A r \in job'.rows : r \in job.rows
                                     \/ [id |-> r.item, run |-> hist.runs] \in sql'.items
      BY <1>2, <2>1 DEF JobInv, RowsGrow
    <3>6. at \notin {4, 6, 8}
      OBVIOUS
    <3> QED
      BY <2>1, <2>3, <2>4, <3>1, <3>2, <3>3, <3>4, <3>5, <3>6, JobKept
  <2> QED
    BY <1>2, <2>3, <2>4, <2>6, <2>7, <2>8 DEF RowsGrow, Inserted, Inserts
<1> QED
  BY <1>1, <1>2, InsertingRows

LEMMA CustodyInserted ==
    ASSUME TypeOK, RunInv, JobInv, CreateCustodyEvents
    PROVE  Ended \/ (Inserted /\ JobInv')
<1>1. PICK batch \in SUBSET (Todo \cap IdsOf(sql.items)) :
         /\ \A i \in batch, j \in Todo \ batch : i < j
         /\ InsertRows(ItemRows(batch, 0, "custody"), {}, {}, job.rows)
  BY DEF CreateCustodyEvents, ItemRows
<1>2. at = 10
  <2>1. At("custody", "sql")
    BY DEF CreateCustodyEvents
  <2> QED
    BY <2>1, Places DEF TypeOK
<1>3. batch \in SUBSET Int /\ batch \subseteq job.items /\ IsFiniteSet(batch) /\ hist.runs \in Nat
  BY FS_Subset DEF TypeOK, Job, Hist, Todo
<1>4. \A i \in batch : [id |-> i, run |-> hist.runs] \in sql.items
  <2>1. ASSUME NEW i \in batch PROVE [id |-> i, run |-> hist.runs] \in sql.items
    <3>1. PICK x \in sql.items : x.id = i
      BY DEF IdsOf
    <3>2. x.run = hist.runs /\ x \in Things
      BY <1>2, <1>3, <3>1 DEF JobInv, TypeOK, Tables
    <3> QED
      BY <3>1, <3>2 DEF Things
  <2> QED
    BY <2>1
<1>7. \A i \in batch : BeforeLost(i)
  BY <1>1 DEF BeforeLost, IdsOf
<1> DEFINE new == ItemRows(batch, 0, "custody")
<1>5. /\ new \in SUBSET Rows
      /\ \A r \in new : r.run = hist.runs /\ r.item \in batch
      /\ \A r, s \in new : r.id = s.id => r = s
  BY <1>3, RowsOfItems
<1> HIDE DEF new
<1>6. InsertRows(new, {}, {}, job.rows)
  BY <1>1 DEF new
<1> QED
  BY <1>2, <1>4, <1>5, <1>6, <1>7, RowsInserted

LEMMA BreakInserted ==
    ASSUME TypeOK, RunInv, JobInv, InjectBrokenChains
    PROVE  Ended \/ (Inserted /\ JobInv')
<1>a. At("break", "sql")
  BY DEF InjectBrokenChains
<1>1. at = 20
  BY <1>a, Places DEF TypeOK
<1>2. CASE \E r \in sql.rows, u \in job.users : InsertRows({Row(0, r.item, u, "gap")}, {}, {r.item}, {})
  <2>1. PICK r \in sql.rows, u \in job.users : InsertRows({Row(0, r.item, u, "gap")}, {}, {r.item}, {})
    BY <1>2
  <2>2. r.item \in Int /\ u \in Int /\ hist.runs \in Nat
    BY DEF TypeOK, Tables, Rows, Job, Hist
  <2> DEFINE new == {Row(0, r.item, u, "gap")}
  <2>3. /\ new \in SUBSET Rows
        /\ \A x \in new : x.run = hist.runs
        /\ \A x, y \in new : x.id = y.id => x = y
        /\ \A x \in new : x.item = r.item
    <3>1. new \in SUBSET Rows
      BY <2>2, RowOfOne
    <3> QED
      BY <3>1 DEF Row
  <2>4. InsertRows(new, {}, {r.item}, {}) /\ new # {}
    BY <2>1
  <2> HIDE DEF new
  <2> QED
    BY <1>1, <2>3, <2>4, RowsInserted
<1>3. CASE InsertRows({}, {}, {}, {})
  BY <1>1, <1>3, RowsInserted
<1> QED
  BY <1>2, <1>3 DEF InjectBrokenChains

LEMMA CycleInserted ==
    ASSUME TypeOK, RunInv, JobInv, InjectCycles
    PROVE  Ended \/ (Inserted /\ JobInv')
<1>a. At("cycle", "sql")
  BY DEF InjectCycles
<1>1. at = 24
  BY <1>a, Places DEF TypeOK
<1>2. CASE \E i \in job.items, u \in job.users : InsertRows({Row(0, i, u, "cycle")}, {}, {i}, {})
  <2>1. PICK i \in job.items, u \in job.users : InsertRows({Row(0, i, u, "cycle")}, {}, {i}, {})
    BY <1>2
  <2>2. i \in Int /\ u \in Int /\ hist.runs \in Nat
    BY DEF TypeOK, Job, Hist
  <2> DEFINE new == {Row(0, i, u, "cycle")}
  <2>3. /\ new \in SUBSET Rows
        /\ \A x \in new : x.run = hist.runs
        /\ \A x, y \in new : x.id = y.id => x = y
        /\ \A x \in new : x.item = i
    <3>1. new \in SUBSET Rows
      BY <2>2, RowOfOne
    <3> QED
      BY <3>1 DEF Row
  <2>4. InsertRows(new, {}, {i}, {}) /\ new # {}
    BY <2>1
  <2> HIDE DEF new
  <2> QED
    BY <1>1, <2>3, <2>4, RowsInserted
<1>3. CASE InsertRows({}, {}, {}, {})
  BY <1>1, <1>3, RowsInserted
<1> QED
  BY <1>2, <1>3 DEF InjectCycles

LEMMA InsiderInserted ==
    ASSUME TypeOK, RunInv, JobInv, InjectInsiderMisuse
    PROVE  Ended \/ (Inserted /\ JobInv')
<1>a. At("insider", "sql")
  BY DEF InjectInsiderMisuse
<1>1. at = 28
  BY <1>a, Places DEF TypeOK
<1>2. PICK u \in job.users, pattern \in {"rapid_access", "off_hours", "cross_case"} :
         InsertRows(ItemRows(job.items, u, "insider"), InsiderDocs(pattern, u, job.items), {u}, {})
  BY DEF InjectInsiderMisuse, ItemRows
<1>3. job.items \in SUBSET Int /\ IsFiniteSet(job.items) /\ u \in Int /\ hist.runs \in Nat
  BY DEF TypeOK, Job, Hist
<1>4. LET new == ItemRows(job.items, u, "insider") IN
      /\ new \in SUBSET Rows
      /\ \A r \in new : r.run = hist.runs
      /\ \A r, s \in new : r.id = s.id => r = s
  BY <1>3, RowsOfItems, SMTT(20)
<1> DEFINE docs == InsiderDocs(pattern, u, job.items)
<1>5. /\ Doc("insiderAlert", {u}) \subseteq docs
      /\ docs \subseteq Doc("insiderAlert", {u}) \cup Doc("insiderCustody", {u})
                           \cup Doc("insiderActivity", {u})
  BY DEF InsiderDocs
<1> HIDE DEF docs
<1>6. \A d \in docs : d.kind \in InsiderKinds /\ d.run = hist.runs /\ d.id = u /\ d \in Docs
  BY <1>3, <1>5 DEF Doc, Docs, InsiderKinds
<1>7. [kind |-> "insiderAlert", id |-> u, run |-> hist.runs] \in docs
  BY <1>5 DEF Doc
<1>8. [id |-> u, run |-> hist.runs] \in sql.users
  BY <1>1 DEF JobInv
<1> QED
  BY <1>1, <1>2, <1>4, <1>6, <1>7, <1>8, RowsInserted DEF docs

(* Each stage that inserts rows. *)
LEMMA Insertions ==
    ASSUME TypeOK, RunInv, JobInv,
           \/ CreateUsers \/ CreateCases \/ CreateEvidence \/ CreateCustodyEvents
           \/ CreateVerificationHistory \/ CreateCaseAccess \/ InjectTamperedHashes
           \/ InjectBrokenChains \/ InjectCycles \/ InjectInsiderMisuse
    PROVE  Ended \/ (Inserted /\ JobInv')
BY UsersInserted, CasesInserted, EvidenceInserted, CustodyInserted, HistoryInserted,
   AccessInserted, TamperedInserted, BreakInserted, CycleInserted, InsiderInserted

-----------------------------------------------------------------------------
(* What the other steps do, as far as the invariant tells it apart. *)

HistSame == HistKept /\ hist'.undone = hist.undone

Started ==
    /\ at = 0 /\ at' \in {1, 4} /\ job' = NoJob
    /\ sql' = sql /\ mongo' = mongo /\ files' = files /\ graph' = graph
    /\ hist'.runs = hist.runs + 1
    /\ hist'.completed = hist.completed /\ hist'.undone = hist.undone
    /\ hist'.cleared = hist.cleared /\ hist'.unset = hist.unset
    /\ hist'.unlogged = hist.unlogged /\ hist'.unswept = hist.unswept
    /\ hist'.filed = hist.filed

TablesCleared ==
    /\ at = 1 /\ at' = 2 /\ sql' = NoRows
    /\ mongo' = mongo /\ files' = files /\ job' = job
    /\ hist'.runs = hist.runs /\ hist'.completed = hist.completed
    /\ hist'.undone = hist.undone /\ hist'.filed = hist.filed
    /\ hist'.cleared = hist.runs /\ ~hist'.unset /\ hist'.unlogged /\ hist'.unswept

RolledBack ==
    /\ at = 1 /\ at' = 2
    /\ sql' = sql /\ mongo' = mongo /\ files' = files /\ job' = job /\ graph' = graph
    /\ hist'.runs = hist.runs /\ hist'.completed = hist.completed
    /\ hist'.undone = hist.undone /\ hist'.filed = hist.filed
    /\ hist'.cleared = hist.cleared /\ hist'.unset
    /\ hist'.unlogged = hist.unlogged /\ hist'.unswept = hist.unswept

DocsCleared ==
    /\ at = 2 /\ mongo' \subseteq mongo
    /\ sql' = sql /\ files' = files /\ job' = job /\ graph' = graph
    /\ hist'.runs = hist.runs /\ hist'.completed = hist.completed
    /\ hist'.undone = hist.undone /\ hist'.filed = hist.filed
    /\ hist'.cleared = hist.cleared /\ hist'.unset = hist.unset
    /\ hist'.unswept = hist.unswept
    /\ \/ at' = 3 /\ mongo' = {}
       \/ at' = 0 /\ hist'.unlogged = hist.unlogged

GraphCleared ==
    /\ at = 3 /\ at' = 4
    /\ sql' = sql /\ mongo' = mongo /\ files' = files /\ job' = job
    /\ hist'.runs = hist.runs /\ hist'.completed = hist.completed
    /\ hist'.undone = hist.undone /\ hist'.filed = hist.filed
    /\ hist'.cleared = hist.cleared /\ hist'.unset = hist.unset
    /\ hist'.unlogged = hist.unlogged
    /\ graph'.events = {} \/ (graph'.events = graph.events /\ hist'.unswept = hist.unswept)

(* sync_neo4j creates an event for each row, whatever the graph has. *)
NewEvents(rows) ==
    {[id |-> r.id, runs |-> {r.run}, givers |-> {}, insider |-> FALSE] : r \in rows}

Copied ==
    /\ at' = at + 1 /\ HistSame
    /\ sql' = sql /\ mongo' = mongo /\ files' = files /\ job' = job
    /\ \/ at = 14 /\ \E rows \in SUBSET job.rows :
                        graph'.events = graph.events \cup NewEvents(rows)
       \/ at \in Copies /\ \E rows \in SUBSET job.rows :
                              graph'.events = MergeEvents(graph.events, rows)

DocsInserted ==
    /\ at \in Logs /\ HistSame
    /\ sql' = sql /\ files' = files /\ graph' = graph
    /\ mongo \subseteq mongo' /\ mongo' \subseteq mongo \cup job.docs
    /\ \/ /\ at' = at + 1 \/ (at = 11 /\ at' = 10)
          /\ mongo' = mongo \cup job.docs /\ job' = [job EXCEPT !.docs = {}]
       \/ at' = 0 /\ job' = job
    /\ at = 11 /\ at' = 12 => Todo = {}

FileWritten(f) ==
    /\ f \in FileName /\ at = PlaceOf(f) /\ at' = (IF f = "insider" THEN 0 ELSE at + 1)
    /\ sql' = sql /\ mongo' = mongo /\ graph' = graph /\ job' = job
    /\ files' = [files EXCEPT ![f] = job.found]
    /\ hist'.filed = [hist.filed EXCEPT ![f] = hist.runs]
    /\ hist'.runs = hist.runs
    /\ hist'.completed = hist.completed \cup (IF f = "insider" THEN {hist.runs} ELSE {})
    /\ hist'.undone = hist.undone /\ hist'.cleared = hist.cleared
    /\ hist'.unset = hist.unset /\ hist'.unlogged = hist.unlogged
    /\ hist'.unswept = hist.unswept

Idle ==
    /\ at' = at /\ sql' = sql /\ mongo' = mongo /\ files' = files /\ graph' = graph
    /\ job' = job /\ hist' = hist

LEMMA HistFaults ==
    ASSUME TypeOK, hist' = [hist EXCEPT !.faults = @ + 1] \/ hist' = hist
    PROVE  HistSame
BY DEF TypeOK, Hist, HistSame, HistKept

LEMMA Steps ==
    ASSUME TypeOK, RunInv, JobInv, [Next]_vars
    PROVE  \/ Started \/ Ended \/ (Inserted /\ JobInv')
           \/ TablesCleared \/ RolledBack \/ DocsCleared \/ GraphCleared
           \/ Copied \/ DocsInserted \/ (\E f \in FileName : FileWritten(f))
           \/ Idle
<1>0. /\ Len(Script) = 31 /\ at \in 0 .. 31
  BY Places DEF TypeOK
<1>1. ASSUME NEW clear \in BOOLEAN, Start(clear) PROVE Started
  BY <1>1 DEF Start, Started, TypeOK, Hist
<1>2. CASE Stop
  BY <1>2, HistFaults DEF Stop, Ended, HistSame
<1>3. CASE ClearTables
  <2>a. At("clear", "sql") /\ Advance
    BY <1>3 DEF ClearTables
  <2>1. at = 1 /\ at' = 2
    BY <2>a, Places, AdvanceTo DEF TypeOK
  <2>2. TablesCleared
    BY <1>3, <2>1 DEF ClearTables, TablesCleared, TypeOK, Hist
  <2> QED
    BY <2>2
<1>4. CASE ClearRollsBack
  <2>a. At("clear", "sql") /\ Advance
    BY <1>4 DEF ClearRollsBack
  <2>1. at = 1 /\ at' = 2
    BY <2>a, Places, AdvanceTo DEF TypeOK
  <2>2. RolledBack
    BY <1>4, <2>1 DEF ClearRollsBack, RolledBack, TypeOK, Hist
  <2> QED
    BY <2>2
<1>5. CASE ClearDocs
  <2>a. At("clear", "log")
    BY <1>5 DEF ClearDocs
  <2>1. at = 2 /\ (Advance => at' = 3)
    BY <2>a, Places, AdvanceTo DEF TypeOK
  <2>2. DocsCleared
    BY <1>5, <2>1 DEF ClearDocs, DocsCleared, TypeOK, Hist
  <2> QED
    BY <2>2
<1>6. CASE ClearGraph
  <2>a. At("clear", "copy") /\ Advance
    BY <1>6 DEF ClearGraph
  <2>1. at = 3 /\ at' = 4
    BY <2>a, Places, AdvanceTo DEF TypeOK
  <2>2. GraphCleared
    BY <1>6, <2>1 DEF ClearGraph, GraphCleared, TypeOK, Hist
  <2> QED
    BY <2>2
<1>7. CASE \/ CreateUsers \/ CreateCases \/ CreateEvidence \/ CreateCustodyEvents
           \/ CreateVerificationHistory \/ CreateCaseAccess \/ InjectTamperedHashes
           \/ InjectBrokenChains \/ InjectCycles \/ InjectInsiderMisuse
  BY <1>7, Insertions
<1>8. CASE SyncNeo4j
  <2>a. At("sync", "copy") /\ Advance
    BY <1>8 DEF SyncNeo4j
  <2>1. at = 14 /\ at' = at + 1
    BY <2>a, Places, AdvanceTo DEF TypeOK
  <2>2. hist' = hist \/ hist' = [hist EXCEPT !.faults = @ + 1]
    BY <1>8 DEF SyncNeo4j
  <2>3. \E rows \in SUBSET job.rows : graph'.events = graph.events \cup NewEvents(rows)
    <3>1. NewEvents({}) = {}
      BY DEF NewEvents
    <3>2. \/ graph'.events = graph.events \cup NewEvents(job.rows)
          \/ graph'.events = graph.events \cup NewEvents({})
      BY <1>8, <3>1 DEF SyncNeo4j, NewEvents
    <3> QED
      BY <3>2
  <2>4. Copied
    BY <1>8, <2>1, <2>2, <2>3, HistFaults DEF SyncNeo4j, Copied
  <2> QED
    BY <2>4
<1>9. CASE InsertDocs
  <2>1. at \in Logs /\ (Advance => at' = at + 1)
    <3>1. at # 0 /\ Script[at][2] = "log" /\ Script[at][1] # "clear"
      BY <1>9 DEF InsertDocs
    <3>2. at \in Logs
      BY <3>1, Places DEF TypeOK
    <3> QED
      BY <3>1, <3>2, AdvanceTo DEF Logs
  <2>2. HistSame
    BY <1>9, HistFaults DEF InsertDocs
  <2>3. At("custody", "log") <=> at = 11
    BY Places DEF TypeOK
  <2>4. CASE At("custody", "log") /\ Todo # {}
    BY <1>9, <2>1, <2>2, <2>3, <2>4 DEF InsertDocs, DocsInserted
  <2>5. CASE ~(At("custody", "log") /\ Todo # {})
    BY <1>9, <2>1, <2>2, <2>3, <2>5 DEF InsertDocs, DocsInserted
  <2> QED
    BY <2>4, <2>5
<1>10. CASE SyncRows
  <2>1. at \in Copies /\ at' = at + 1
    <3>1. at # 0 /\ Script[at][2] = "copy" /\ Script[at][1] \notin {"clear", "sync"} /\ Advance
      BY <1>10 DEF SyncRows
    <3>2. at \in Copies
      BY <3>1, Places DEF TypeOK
    <3> QED
      BY <3>1, <3>2, AdvanceTo DEF Copies
  <2>2. hist' = hist \/ hist' = [hist EXCEPT !.faults = @ + 1]
    BY <1>10 DEF SyncRows
  <2> DEFINE there == {r \in job.rows : r.item \in IdsOf(graph.nodes)}
  <2>3. PICK rows \in SUBSET there : graph' = [graph EXCEPT !.events = MergeEvents(@, rows)]
    <3>1. \/ graph' = [graph EXCEPT !.events = MergeEvents(@, there)]
          \/ \E n \in 0 .. Cardinality(there) - 1 :
                graph' = [graph EXCEPT !.events =
                            MergeEvents(@, {r \in there : Rank(r.id, IdsOf(there)) < n})]
      BY <1>10 DEF SyncRows
    <3> HIDE DEF there
    <3>2. \A n : {r \in there : Rank(r.id, IdsOf(there)) < n} \in SUBSET there
      OBVIOUS
    <3> QED
      BY <3>1, <3>2
  <2>4. graph'.events = MergeEvents(graph.events, rows) /\ rows \in SUBSET job.rows
    BY <2>3 DEF TypeOK, Graph
  <2>5. Copied
    BY <1>10, <2>1, <2>2, <2>4, HistFaults DEF SyncRows, Copied
  <2> QED
    BY <2>5
<1>11. CASE WriteIds
  <2> DEFINE f == Script[at][1]
  <2>1. f \in FileName /\ at = PlaceOf(f)
    BY <1>11, Places DEF WriteIds, TypeOK
  <2>2. /\ files' = [files EXCEPT ![f] = job.found]
        /\ hist' = [hist EXCEPT !.filed[f] = hist.runs,
                                !.completed = @ \cup IF at = Len(Script) THEN {hist.runs} ELSE {}]
        /\ UNCHANGED <<sql, mongo, graph, job>>
        /\ Advance
    BY <1>11 DEF WriteIds
  <2> HIDE DEF f
  <2>3. at = 31 <=> f = "insider"
    BY <2>1 DEF FileName, PlaceOf
  <2>4. at' = (IF f = "insider" THEN 0 ELSE at + 1)
    BY <1>0, <2>2, <2>3 DEF Advance
  <2>5. /\ hist'.filed = [hist.filed EXCEPT ![f] = hist.runs]
        /\ hist'.completed = hist.completed \cup (IF f = "insider" THEN {hist.runs} ELSE {})
        /\ hist'.runs = hist.runs /\ hist'.undone = hist.undone
        /\ hist'.cleared = hist.cleared /\ hist'.unset = hist.unset
        /\ hist'.unlogged = hist.unlogged /\ hist'.unswept = hist.unswept
    BY <1>0, <2>2, <2>3 DEF TypeOK, Hist
  <2>6. FileWritten(f)
    BY <2>1, <2>2, <2>4, <2>5 DEF FileWritten
  <2> QED
    BY <2>1, <2>6
<1>12. CASE Profile
  BY <1>12 DEF Profile, Idle
<1>13. CASE UNCHANGED vars
  BY <1>13 DEF vars, Idle
<1>14. CASE CustodyOfLostRow
  <2>1. at # 0
    BY <1>14 DEF CustodyOfLostRow, At
  <2> QED
    BY <1>14, <2>1 DEF CustodyOfLostRow, Ended, HistKept
<1> QED
  BY <1>1, <1>2, <1>3, <1>4, <1>5, <1>6, <1>7, <1>8, <1>9, <1>10, <1>11, <1>12, <1>13, <1>14
     DEF Next

-----------------------------------------------------------------------------
(* Every part of the invariant is kept by every step. *)

LEMMA AllThingsAre ==
    ASSUME NEW x
    PROVE  /\ x \in AllThings <=> \/ x \in sql.users \/ x \in sql.cases \/ x \in sql.items
                                  \/ x \in sql.rows \/ x \in sql.marked \/ x \in sql.access
           /\ x \in AllThings' <=> \/ x \in sql'.users \/ x \in sql'.cases \/ x \in sql'.items
                                   \/ x \in sql'.rows \/ x \in sql'.marked \/ x \in sql'.access
BY DEF AllThings

LEMMA RunKept ==
    ASSUME TypeOK, RunInv, JobInv, DocInv, [Next]_vars
    PROVE  RunInv'
<1>0. /\ hist.runs \in Nat /\ hist.cleared \in Nat /\ at \in 0 .. 31
      /\ hist.completed \in SUBSET Nat
      /\ \A x \in AllThings \cup mongo : x.run \in Nat
  <2>1. /\ sql.users \in SUBSET Things /\ sql.cases \in SUBSET Things
        /\ sql.items \in SUBSET Things /\ sql.rows \in SUBSET Rows
        /\ sql.marked \in SUBSET Things /\ sql.access \in SUBSET Things
        /\ mongo \in SUBSET Docs
    BY DEF TypeOK, Tables
  <2>2. \A x \in AllThings \cup mongo : x.run \in Nat
    BY <2>1 DEF AllThings, Things, Rows, Docs
  <2> QED
    BY <2>2, Places DEF TypeOK, Hist
<1>a. \A x \in AllThings \cup mongo : x.run =< hist.runs /\ (at \in 1 .. 4 => x.run < hist.runs)
  BY DEF RunInv, OfARun
<1>b. /\ \A n \in hist.completed : n =< hist.runs
      /\ at # 0 => hist.runs \notin hist.completed
      /\ hist.cleared =< hist.runs
  BY DEF RunInv
<1>1. CASE Started
  <2>1. AllThings' = AllThings /\ mongo' = mongo
    BY <1>1 DEF Started, AllThings
  <2>2. \A x \in AllThings \cup mongo : x.run < hist.runs + 1
    BY <1>0, <1>a
  <2> QED
    BY <1>0, <1>1, <1>b, <2>1, <2>2 DEF Started, RunInv, OfARun
<1>2. CASE Ended
  <2>1. AllThings' = AllThings /\ mongo' = mongo
    BY <1>2 DEF Ended, AllThings
  <2> QED
    BY <1>0, <1>2, <1>a, <1>b, <2>1 DEF Ended, HistKept, RunInv, OfARun
<1>3. CASE Inserted
  <2>1. at' \notin 1 .. 4 /\ at # 0 /\ at' # 0
    BY <1>3 DEF Inserted, Inserts
  <2>2. ASSUME NEW x \in AllThings' PROVE x \in AllThings \/ x.run = hist.runs
    BY <1>3, <2>2, AllThingsAre DEF Inserted, Grown
  <2> QED
    BY <1>0, <1>3, <1>a, <1>b, <2>1, <2>2 DEF Inserted, HistKept, RunInv, OfARun
<1>4. CASE TablesCleared
  <2>1. AllThings' = {} /\ mongo' = mongo
    BY <1>4 DEF TablesCleared, AllThings, NoRows
  <2> QED
    BY <1>0, <1>4, <1>a, <1>b, <2>1 DEF TablesCleared, RunInv, OfARun
<1>5. CASE RolledBack \/ DocsCleared \/ GraphCleared
  <2>1. AllThings' = AllThings /\ mongo' \subseteq mongo
    BY <1>5 DEF RolledBack, DocsCleared, GraphCleared, AllThings
  <2>2. at \in 1 .. 3 /\ at' \in {0, 2, 3, 4}
    BY <1>5 DEF RolledBack, DocsCleared, GraphCleared
  <2>3. hist'.runs = hist.runs /\ hist'.completed = hist.completed /\ hist'.cleared = hist.cleared
    BY <1>5 DEF RolledBack, DocsCleared, GraphCleared
  <2> QED
    BY <1>0, <1>a, <1>b, <2>1, <2>2, <2>3 DEF RunInv, OfARun
<1>6. CASE Copied
  <2>1. AllThings' = AllThings /\ mongo' = mongo
    BY <1>6 DEF Copied, AllThings
  <2>2. at # 0 /\ at' \notin 1 .. 4
    BY <1>6 DEF Copied, Copies
  <2>3. hist'.runs = hist.runs /\ hist'.completed = hist.completed /\ hist'.cleared = hist.cleared
    BY <1>6 DEF Copied, HistSame, HistKept
  <2> QED
    BY <1>0, <1>a, <1>b, <2>1, <2>2, <2>3 DEF RunInv, OfARun
<1>7. CASE DocsInserted
  <2>1. AllThings' = AllThings /\ mongo' \subseteq mongo \cup job.docs
    BY <1>7 DEF DocsInserted, AllThings
  <2>2. at # 0 /\ at' \notin 1 .. 4
    BY <1>7 DEF DocsInserted, Logs
  <2>3. hist'.runs = hist.runs /\ hist'.completed = hist.completed /\ hist'.cleared = hist.cleared
    BY <1>7 DEF DocsInserted, HistSame, HistKept
  <2>4. \A d \in job.docs : d.run = hist.runs
    BY <2>2 DEF DocInv
  <2> QED
    BY <1>0, <1>a, <1>b, <2>1, <2>2, <2>3, <2>4 DEF RunInv, OfARun
<1>8. ASSUME NEW f \in FileName, FileWritten(f) PROVE RunInv'
  <2>1. AllThings' = AllThings /\ mongo' = mongo
    BY <1>8 DEF FileWritten, AllThings
  <2>2. at # 0 /\ at' \notin 1 .. 4 /\ (f = "insider" <=> at' = 0)
    BY <1>8 DEF FileWritten, FileName, PlaceOf
  <2>3. hist'.runs = hist.runs /\ hist'.cleared = hist.cleared
        /\ hist'.completed = hist.completed \cup (IF f = "insider" THEN {hist.runs} ELSE {})
    BY <1>8 DEF FileWritten
  <2> QED
    BY <1>0, <1>a, <1>b, <2>1, <2>2, <2>3 DEF RunInv, OfARun
<1>9. CASE Idle
  <2>1. AllThings' = AllThings /\ mongo' = mongo
    BY <1>9 DEF Idle, AllThings
  <2> QED
    BY <1>9, <1>a, <1>b, <2>1 DEF Idle, RunInv, OfARun
<1> QED
  BY <1>1, <1>2, <1>3, <1>4, <1>5, <1>6, <1>7, <1>8, <1>9, Steps

LEMMA JobStaysKept ==
    ASSUME TypeOK, RunInv, JobInv, [Next]_vars
    PROVE  JobInv'
<1>0. at \in 0 .. 31 /\ hist.runs \in Nat
  BY Places DEF TypeOK, Hist
<1>a. Live' => at' # 0 \/ hist'.runs \in hist'.completed
  BY DEF Live
<1>b. at # 0 => hist.runs \notin hist.completed
  BY DEF RunInv
<1>c. NoJob.users = {} /\ NoJob.items = {} /\ NoJob.docs = {} /\ NoJob.rows = {}
  BY DEF NoJob
<1>1. CASE job' = NoJob /\ at' \in 0 .. 4
  BY <1>1, <1>c DEF JobInv
<1>d. at = 11 /\ Todo = {} => \A i \in job.items : [id |-> i, run |-> hist.runs] \in sql.items
  BY DEF JobInv, Todo
<1>2. CASE Started
  BY <1>1, <1>2 DEF Started
<1>3. CASE Ended
  BY <1>3, <1>a, <1>b DEF Ended, HistKept, JobInv, Logs
<1>4. CASE TablesCleared \/ RolledBack \/ DocsCleared \/ GraphCleared
  <2>1. at \in 1 .. 3 /\ job' = job /\ at' \in 0 .. 4
    BY <1>4 DEF TablesCleared, RolledBack, DocsCleared, GraphCleared
  <2> QED
    BY <1>1, <2>1 DEF JobInv
<1>5. CASE Copied
  <2>1. /\ at \in {14, 22, 26, 30} /\ at' = at + 1 /\ sql' = sql /\ job' = job
        /\ hist'.runs = hist.runs
    BY <1>5 DEF Copied, Copies, HistSame, HistKept
  <2>2. job.docs = {}
    BY <2>1 DEF JobInv, Live, Logs
  <2> QED
    BY <2>1, <2>2 DEF JobInv
<1>6. CASE DocsInserted
  <2>1. at \in Logs /\ sql' = sql /\ hist'.runs = hist.runs /\ hist'.completed = hist.completed
    BY <1>6 DEF DocsInserted, HistSame, HistKept
  <2>2. CASE (at' = at + 1 \/ (at = 11 /\ at' = 10)) /\ job' = [job EXCEPT !.docs = {}]
    <3>1. /\ job'.docs = {} /\ job'.users = job.users /\ job'.items = job.items
          /\ job'.rows = job.rows /\ job'.found = job.found
      BY <2>2 DEF TypeOK, Job
    <3>2. at' \notin 9 .. 11 => \A i \in job'.items : [id |-> i, run |-> hist.runs] \in sql.items
      <4>1. CASE at = 11
        BY <1>6, <1>d, <2>2, <3>1, <4>1 DEF DocsInserted
      <4>2. CASE at # 11
        BY <2>1, <2>2, <3>1, <4>2 DEF JobInv, Logs
      <4> QED
        BY <4>1, <4>2
    <3>3. /\ at' \in 9 .. 11 =>
                \A i \in job'.items : \A x \in sql.items : x.id = i => x.run = hist.runs
          /\ at' \in 4 .. 11 => \A r \in job'.rows : [id |-> r.item, run |-> hist.runs] \in sql.items
      BY <2>1, <2>2, <3>1 DEF JobInv, Logs
    <3> QED
      BY <2>1, <2>2, <3>1, <3>2, <3>3 DEF JobInv, Logs
  <2>3. CASE at' = 0 /\ job' = job
    <3>1. at # 0
      BY <2>1 DEF Logs
    <3> QED
      BY <2>1, <2>3, <3>1, <1>a, <1>b DEF JobInv
  <2> QED
    BY <1>6, <2>2, <2>3 DEF DocsInserted
<1>7. ASSUME NEW f \in FileName, FileWritten(f) PROVE JobInv'
  <2>1. /\ at \in {19, 23, 27, 31} /\ at' \in {0, 20, 24, 28} /\ (at' # 0 => at' = at + 1)
        /\ sql' = sql /\ job' = job /\ hist'.runs = hist.runs
    BY <1>7 DEF FileWritten, FileName, PlaceOf
  <2>2. job.docs = {}
    BY <2>1 DEF JobInv, Live, Logs
  <2> QED
    BY <2>1, <2>2 DEF JobInv
<1>8. CASE Idle
  BY <1>8 DEF Idle, JobInv, Live
<1> QED
  BY <1>2, <1>3, <1>4, <1>5, <1>6, <1>7, <1>8, Steps

LEMMA FilesKept ==
    ASSUME TypeOK, RunInv, JobInv, FileInv, [Next]_vars
    PROVE  FileInv'
<1>0. /\ at \in 0 .. 31 /\ hist.runs \in Nat /\ hist.cleared \in Nat
      /\ \A f \in FileName : hist.filed[f] \in Nat /\ PlaceOf(f) \in {19, 23, 27, 31}
      /\ "tamper" \in FileName
  BY Places DEF TypeOK, Hist, FileName, PlaceOf
<1>a. \A f \in FileName :
          /\ hist.filed[f] =< hist.runs
          /\ at \in 1 .. PlaceOf(f) => hist.filed[f] < hist.runs
          /\ at # 0 /\ at \notin 1 .. PlaceOf(f) => hist.filed[f] = hist.runs
          /\ hist.runs \in hist.completed /\ at \notin 1 .. PlaceOf(f) =>
                hist.filed[f] = hist.runs
          /\ \A i \in files[f] : hist.filed[f] < hist.cleared \/ Listed(f, i)
  BY DEF FileInv, Live
<1>b. IsFiniteSet(files["tamper"])
  BY DEF FileInv
<1>c. at # 0 => hist.runs \notin hist.completed
  BY DEF RunInv
<1>1. CASE Started
  <2>1. \A f, i : Listed(f, i)' <=> Listed(f, i)
    BY <1>1 DEF Started, Listed
  <2>2. ASSUME NEW f \in FileName
        PROVE  /\ hist'.filed[f] < hist'.runs /\ at' \in 1 .. PlaceOf(f)
               /\ \A i \in files'[f] : hist'.filed[f] < hist'.cleared \/ Listed(f, i)'
    BY <1>0, <1>1, <1>a, <2>1 DEF Started
  <2> QED
    BY <1>0, <1>1, <1>b, <2>2 DEF Started, FileInv
<1>2. CASE Ended
  <2>1. \A f, i : Listed(f, i)' <=> Listed(f, i)
    BY <1>2 DEF Ended, HistKept, Listed
  <2>2. ~Live'
    BY <1>2, <1>c DEF Ended, HistKept, Live
  <2> QED
    BY <1>0, <1>2, <1>a, <1>b, <2>1, <2>2 DEF Ended, HistKept, FileInv
<1>3. CASE Inserted
  <2>1. \A f, i : Listed(f, i) => Listed(f, i)'
    BY <1>3 DEF Inserted, Grown, HistKept, Listed
  <2>2. \A f \in FileName : at' \in 1 .. PlaceOf(f) <=> at \in 1 .. PlaceOf(f)
    BY <1>0, <1>3 DEF Inserted, Inserts
  <2>3. at # 0 /\ at' # 0
    BY <1>3 DEF Inserted, Inserts
  <2> QED
    BY <1>0, <1>3, <1>a, <1>b, <2>1, <2>2, <2>3 DEF Inserted, HistKept, FileInv, Live
<1>4. CASE TablesCleared
  <2>1. \A f \in FileName : hist'.filed[f] < hist'.cleared /\ hist'.filed[f] < hist'.runs
    BY <1>0, <1>4, <1>a DEF TablesCleared
  <2>2. \A f \in FileName : at' \in 1 .. PlaceOf(f)
    BY <1>0, <1>4 DEF TablesCleared
  <2> QED
    BY <1>0, <1>4, <1>b, <2>1, <2>2 DEF TablesCleared, FileInv
<1>5. CASE RolledBack \/ DocsCleared \/ GraphCleared
  <2>1. /\ at \in 1 .. 3 /\ at' \in {0, 2, 3, 4} /\ sql' = sql /\ files' = files
        /\ hist'.runs = hist.runs /\ hist'.filed = hist.filed
        /\ hist'.cleared = hist.cleared /\ hist'.completed = hist.completed
    BY <1>5 DEF RolledBack, DocsCleared, GraphCleared
  <2>2. \A f, i : Listed(f, i)' <=> Listed(f, i)
    BY <2>1 DEF Listed
  <2>3. \A f \in FileName : hist.filed[f] < hist.runs
    BY <1>0, <1>a, <2>1
  <2>4. \A f \in FileName : at' # 0 => at' \in 1 .. PlaceOf(f)
    BY <1>0, <2>1
  <2> QED
    BY <1>0, <1>a, <1>b, <1>c, <2>1, <2>2, <2>3, <2>4 DEF FileInv, Live
<1>6. CASE Copied \/ DocsInserted
  <2>1. /\ at \in {5, 7, 9, 11, 13, 16, 18, 21, 25, 29, 14, 22, 26, 30}
        /\ at' = 0 \/ at' = at + 1 \/ (at = 11 /\ at' = 10)
    BY <1>6 DEF Copied, DocsInserted, Copies, Logs
  <2>2. \A f, i : Listed(f, i)' <=> Listed(f, i)
    BY <1>6 DEF Listed, Copied, DocsInserted, HistSame, HistKept
  <2>3. \A f \in FileName : at' # 0 => (at' \in 1 .. PlaceOf(f) <=> at \in 1 .. PlaceOf(f))
    BY <1>0, <2>1
  <2>4. files' = files /\ hist'.runs = hist.runs /\ hist'.filed = hist.filed
        /\ hist'.cleared = hist.cleared /\ hist'.completed = hist.completed
    BY <1>6 DEF Copied, DocsInserted, HistSame, HistKept
  <2> QED
    BY <1>0, <1>a, <1>b, <1>c, <2>1, <2>2, <2>3, <2>4 DEF FileInv, Live
<1>7. ASSUME NEW f \in FileName, FileWritten(f) PROVE FileInv'
  <2>1. /\ at = PlaceOf(f) /\ at' = (IF f = "insider" THEN 0 ELSE at + 1)
        /\ sql' = sql /\ files' = [files EXCEPT ![f] = job.found]
        /\ hist'.filed = [hist.filed EXCEPT ![f] = hist.runs]
        /\ hist'.runs = hist.runs /\ hist'.cleared = hist.cleared
    BY <1>7 DEF FileWritten
  <2>2. ASSUME NEW g \in FileName, g # f
        PROVE  /\ hist'.filed[g] = hist.filed[g] /\ files'[g] = files[g]
               /\ at' # 0 => (at' \in 1 .. PlaceOf(g) <=> at \in 1 .. PlaceOf(g))
               /\ at' = 0 => at \notin 1 .. PlaceOf(g)
               /\ \A i \in files'[g] : hist'.filed[g] < hist'.cleared \/ Listed(g, i)'
    <3>1. hist'.filed[g] = hist.filed[g] /\ files'[g] = files[g]
      BY <2>1, <2>2 DEF TypeOK, Hist
    <3>2. \A i : Listed(g, i)' <=> Listed(g, i)
      BY <2>1, <3>1 DEF Listed
    <3>3. PlaceOf(g) # PlaceOf(f)
      BY <2>2 DEF FileName, PlaceOf
    <3>4. /\ at' # 0 => (at' \in 1 .. PlaceOf(g) <=> at \in 1 .. PlaceOf(g))
          /\ at' = 0 => at \notin 1 .. PlaceOf(g)
      BY <1>0, <2>1, <2>2 DEF FileName, PlaceOf
    <3> QED
      BY <1>a, <2>1, <3>1, <3>2, <3>4
  <2>3. /\ hist'.filed[f] = hist.runs /\ files'[f] = job.found
        /\ at' \notin 1 .. PlaceOf(f)
        /\ \A i \in files'[f] : Listed(f, i)'
    <3>1. hist'.filed[f] = hist.runs /\ files'[f] = job.found
      BY <2>1 DEF TypeOK, Hist
    <3>2. at' \notin 1 .. PlaceOf(f)
      BY <1>0, <2>1
    <3>3. ASSUME NEW i \in job.found PROVE Listed(f, i)'
      <4>1. CASE f = "tamper"
        BY <2>1, <3>1, <4>1 DEF JobInv, Listed, PlaceOf
      <4>2. CASE f \in {"break", "cycle"}
        <5>1. at \in {23, 27}
          BY <2>1, <4>2 DEF PlaceOf
        <5> QED
          BY <2>1, <3>1, <4>2, <5>1 DEF JobInv, Listed
      <4>3. CASE f = "insider"
        BY <2>1, <3>1, <4>3 DEF JobInv, Listed, PlaceOf
      <4> QED
        BY <4>1, <4>2, <4>3 DEF FileName
    <3> QED
      BY <3>1, <3>2, <3>3
  <2>4. IsFiniteSet(files'["tamper"])
    <3>1. CASE f = "tamper"
      BY <2>1, <2>3, <3>1 DEF JobInv, PlaceOf
    <3>2. CASE f # "tamper"
      BY <1>0, <1>b, <2>2, <3>2
    <3> QED
      BY <3>1, <3>2
  <2>5. ASSUME NEW g \in FileName
        PROVE  /\ hist'.filed[g] =< hist'.runs
               /\ at' \in 1 .. PlaceOf(g) => hist'.filed[g] < hist'.runs
               /\ Live' /\ at' \notin 1 .. PlaceOf(g) => hist'.filed[g] = hist'.runs
               /\ \A i \in files'[g] : hist'.filed[g] < hist'.cleared \/ Listed(g, i)'
    <3>1. CASE g = f
      BY <1>0, <2>1, <2>3, <3>1
    <3>2. CASE g # f
      <4>1. at # 0
        BY <1>0, <2>1
      <4>2. at' \in 1 .. PlaceOf(g) => at \in 1 .. PlaceOf(g)
        BY <1>0, <2>2, <3>2
      <4>3. at' \notin 1 .. PlaceOf(g) => at \notin 1 .. PlaceOf(g)
        BY <1>0, <2>2, <3>2
      <4> QED
        BY <1>0, <1>a, <2>1, <2>2, <3>2, <4>1, <4>2, <4>3
    <3> QED
      BY <3>1, <3>2
  <2> QED
    BY <2>4, <2>5 DEF FileInv
<1>8. CASE Idle
  <2>1. \A f, i : Listed(f, i)' <=> Listed(f, i)
    BY <1>8 DEF Idle, Listed
  <2>2. Live' <=> Live
    BY <1>8 DEF Idle, Live
  <2> QED
    BY <1>8, <2>1, <2>2 DEF Idle, FileInv
<1> QED
  BY <1>1, <1>2, <1>3, <1>4, <1>5, <1>6, <1>7, <1>8, Steps

LEMMA HasMoreDocs ==
    ASSUME NEW docs, NEW more, NEW n, docs \subseteq more, HasDocs(sql, docs, n)
    PROVE  HasDocs(sql, more, n)
BY DEF HasDocs

LEMMA SameTables ==
    ASSUME sql' = sql
    PROVE  /\ \A d : ToldOf(d)' <=> ToldOf(d)
           /\ AllThings' = AllThings
BY DEF AllThings, ToldOf

(* Nothing of a run, no documents to have. *)
LEMMA NothingToTell ==
    ASSUME NEW docs, NEW n, \A x \in AllThings : x.run # n
    PROVE  HasDocs(sql, docs, n)
BY DEF AllThings, HasDocs

LEMMA DocsKept ==
    ASSUME TypeOK, RunInv, JobInv, DocInv, [Next]_vars
    PROVE  DocInv'
<1>0. /\ at \in 0 .. 31 /\ hist.runs \in Nat /\ hist.cleared \in Nat
      /\ mongo \in SUBSET Docs /\ job.docs \in SUBSET Docs
      /\ \A x \in AllThings \cup mongo : x.run \in Nat
  <2>1. /\ sql.users \in SUBSET Things /\ sql.cases \in SUBSET Things
        /\ sql.items \in SUBSET Things /\ sql.rows \in SUBSET Rows
        /\ sql.marked \in SUBSET Things /\ sql.access \in SUBSET Things
        /\ mongo \in SUBSET Docs
    BY DEF TypeOK, Tables
  <2>2. \A x \in AllThings \cup mongo : x.run \in Nat
    BY <2>1 DEF AllThings, Things, Rows, Docs
  <2> QED
    BY <2>2, Places DEF TypeOK, Hist, Job
<1>a. /\ \A d \in mongo : ToldOf(d) \/ Undone(d) \/ (d.run < hist.cleared /\ hist.unlogged)
      /\ at # 0 => \A d \in job.docs : d.run = hist.runs /\ (ToldOf(d) \/ Undone(d))
      /\ at # 0 => HasDocs(sql, mongo \cup job.docs, hist.runs)
      /\ Live => HasDocs(sql, mongo \cup job.docs, hist.runs)
      /\ ~hist.unset => \A n \in hist.completed : HasDocs(sql, mongo, n)
      /\ at = 2 /\ ~hist.unset => AllThings = {}
  BY DEF DocInv, Live
<1>b. at # 0 => hist.runs \notin hist.completed
  BY DEF RunInv
<1>c. hist'.undone = hist.undone => \A d : Undone(d)' <=> Undone(d)
  BY DEF Undone
<1>1. CASE Started
  <2>1. job'.docs = {}
    BY <1>1 DEF Started, NoJob
  <2>2. HasDocs(sql', mongo' \cup job'.docs, hist'.runs)
    <3>1. \A x \in AllThings : x.run # hist.runs + 1
      BY <1>0 DEF RunInv, OfARun
    <3>2. HasDocs(sql, mongo \cup {}, hist.runs + 1)
      BY <3>1, NothingToTell
    <3> QED
      BY <1>1, <2>1, <3>2, SameTables DEF Started
  <2> QED
    BY <1>1, <1>a, <1>c, <2>1, <2>2, SameTables DEF Started, DocInv
<1>2. CASE Ended
  <2>1. ~Live'
    BY <1>2, <1>b DEF Ended, HistKept, Live
  <2> QED
    BY <1>2, <1>a, <1>c, <2>1, SameTables DEF Ended, HistKept, DocInv
<1>3. CASE Inserted
  <2>1. at # 0 /\ at' # 0 /\ at' # 2 /\ Live /\ job.docs = {}
    BY <1>3 DEF Inserted, Inserts, Live, JobInv, Logs
  <2>2. Grown /\ Queued /\ mongo' = mongo /\ hist'.runs = hist.runs
        /\ hist'.completed = hist.completed /\ hist'.unset = hist.unset
        /\ hist'.cleared = hist.cleared /\ hist'.unlogged = hist.unlogged
        /\ hist.undone \subseteq hist'.undone
    BY <1>3 DEF Inserted, HistKept
  <2>3. ASSUME NEW d \in mongo
        PROVE  ToldOf(d)' \/ Undone(d)' \/ (d.run < hist'.cleared /\ hist'.unlogged)
    <3>1. ToldOf(d) => ToldOf(d)'
      <4>1. d.kind \in {"login", "case", "upload", "custody", "verify", "grant", "tamper",
                        "tamperAlert", "insiderAlert", "insiderCustody", "insiderActivity"}
        BY <1>0 DEF Docs
      <4>2. /\ sql.users \subseteq sql'.users /\ sql.cases \subseteq sql'.cases
            /\ sql.items \subseteq sql'.items /\ sql.rows \subseteq sql'.rows
            /\ sql.marked \subseteq sql'.marked /\ sql.access \subseteq sql'.access
        BY <2>2 DEF Grown
      <4> QED
        BY <4>1, <4>2, Told
    <3>2. Undone(d) => Undone(d)'
      BY <2>2 DEF Undone
    <3> QED
      BY <1>a, <2>2, <3>1, <3>2
  <2>4. HasDocs(sql', mongo' \cup job'.docs, hist'.runs)
    <3>1. HasDocs(sql, mongo, hist.runs)
      <4>1. mongo \cup job.docs = mongo
        BY <2>1
      <4> QED
        BY <1>a, <2>1, <4>1
    <3> QED
      BY <2>2, <3>1 DEF HasDocs, Grown
  <2>5. ASSUME ~hist.unset, NEW n \in hist.completed PROVE HasDocs(sql', mongo', n)
    <3>1. HasDocs(sql, mongo, n) /\ n # hist.runs
      BY <1>a, <1>b, <2>1, <2>5
    <3> QED
      BY <2>2, <3>1 DEF HasDocs, Grown
  <2>6. \A d \in job'.docs : d.run = hist'.runs /\ (ToldOf(d)' \/ Undone(d)')
    BY <2>2 DEF Queued
  <2> QED
    BY <2>1, <2>2, <2>3, <2>4, <2>5, <2>6 DEF DocInv
<1>4. CASE TablesCleared
  <2>1. AllThings' = {} /\ mongo' = mongo
    BY <1>4 DEF TablesCleared, AllThings, NoRows
  <2>2. \A d \in mongo : d.run < hist'.cleared /\ hist'.unlogged
    BY <1>0, <1>4 DEF TablesCleared, RunInv, OfARun
  <2>3. \A docs, n : HasDocs(sql', docs, n)
    BY <1>4 DEF TablesCleared, HasDocs, NoRows
  <2>4. job'.docs = {}
    BY <1>4 DEF TablesCleared, JobInv, NoJob
  <2> QED
    BY <1>4, <2>1, <2>2, <2>3, <2>4 DEF DocInv
<1>5. CASE RolledBack
  BY <1>5, <1>a, <1>c, SameTables DEF RolledBack, DocInv, Live
<1>6. CASE DocsCleared
  <2>1. job'.docs = {} /\ job.docs = {}
    BY <1>6 DEF DocsCleared, JobInv, NoJob
  <2>2. HasDocs(sql', mongo' \cup job'.docs, hist'.runs)
    <3>1. \A x \in AllThings : x.run # hist.runs
      BY <1>0, <1>6 DEF DocsCleared, RunInv, OfARun
    <3> QED
      BY <1>6, <3>1, NothingToTell, SameTables DEF DocsCleared
  <2>3. ASSUME ~hist.unset, NEW n PROVE HasDocs(sql', mongo', n)
    <3>1. AllThings = {}
      BY <1>6, <1>a, <2>3 DEF DocsCleared
    <3> QED
      BY <1>6, <3>1, NothingToTell, SameTables DEF DocsCleared
  <2>4. ASSUME NEW d \in mongo'
        PROVE  ToldOf(d)' \/ Undone(d)' \/ (d.run < hist'.cleared /\ hist'.unlogged)
    BY <1>6, <1>a, <1>c, SameTables DEF DocsCleared
  <2>5. at' # 2
    BY <1>6 DEF DocsCleared
  <2> QED
    BY <1>6, <2>1, <2>2, <2>3, <2>4, <2>5 DEF DocsCleared, DocInv
<1>7. CASE GraphCleared \/ Copied
  <2>1. /\ at # 0 /\ at' # 2 /\ sql' = sql /\ mongo' = mongo /\ job' = job
        /\ hist'.runs = hist.runs /\ hist'.completed = hist.completed
        /\ hist'.undone = hist.undone /\ hist'.cleared = hist.cleared
        /\ hist'.unset = hist.unset /\ hist'.unlogged = hist.unlogged
    BY <1>7 DEF GraphCleared, Copied, Copies, HistSame, HistKept
  <2> QED
    BY <1>a, <1>c, <2>1, SameTables DEF DocInv
<1>8. CASE DocsInserted
  <2>1. /\ at # 0 /\ at' # 2 /\ sql' = sql
        /\ mongo \subseteq mongo' /\ mongo' \subseteq mongo \cup job.docs
        /\ hist'.runs = hist.runs /\ hist'.completed = hist.completed
        /\ hist'.undone = hist.undone /\ hist'.cleared = hist.cleared
        /\ hist'.unset = hist.unset /\ hist'.unlogged = hist.unlogged
    BY <1>8 DEF DocsInserted, Logs, HistSame, HistKept
  <2>2. ASSUME NEW d \in mongo'
        PROVE  ToldOf(d)' \/ Undone(d)' \/ (d.run < hist'.cleared /\ hist'.unlogged)
    BY <1>a, <1>c, <2>1, SameTables
  <2>3. ASSUME ~hist.unset, NEW n \in hist.completed PROVE HasDocs(sql', mongo', n)
    BY <1>a, <2>1, <2>3, HasMoreDocs, SameTables
  <2>4. /\ at' # 0 => job'.docs = {}
        /\ Live' => HasDocs(sql', mongo' \cup job'.docs, hist'.runs)
    <3>1. CASE mongo' = mongo \cup job.docs /\ job' = [job EXCEPT !.docs = {}]
      <4>1. job'.docs = {}
        BY <3>1 DEF TypeOK, Job
      <4>2. mongo' \cup job'.docs = mongo \cup job.docs
        BY <3>1, <4>1
      <4> QED
        BY <1>a, <2>1, <4>1, <4>2, SameTables
    <3>2. CASE at' = 0
      <4>1. ~Live'
        BY <1>b, <2>1, <3>2 DEF Live
      <4> QED
        BY <3>2, <4>1
    <3> QED
      BY <1>8, <3>1, <3>2 DEF DocsInserted
  <2> QED
    BY <2>1, <2>2, <2>3, <2>4 DEF DocInv
<1>9. ASSUME NEW f \in FileName, FileWritten(f) PROVE DocInv'
  <2>1. /\ at \in {19, 23, 27, 31} /\ at' # 2 /\ sql' = sql /\ mongo' = mongo /\ job' = job
        /\ hist'.runs = hist.runs
        /\ hist'.completed = hist.completed \cup (IF f = "insider" THEN {hist.runs} ELSE {})
        /\ hist'.undone = hist.undone /\ hist'.cleared = hist.cleared
        /\ hist'.unset = hist.unset /\ hist'.unlogged = hist.unlogged
    BY <1>9 DEF FileWritten, FileName, PlaceOf
  <2>2. job.docs = {} /\ Live
    BY <2>1 DEF JobInv, Live, Logs
  <2>3. HasDocs(sql, mongo, hist.runs)
    <3>1. mongo \cup job.docs = mongo
      BY <2>2
    <3> QED
      BY <1>a, <2>2, <3>1
  <2>4. \A n \in hist'.completed : n \in hist.completed \/ n = hist.runs
    BY <2>1
  <2>5. HasDocs(sql, mongo \cup job.docs, hist.runs)
    BY <1>a, <2>2
  <2>6. ASSUME ~hist.unset, NEW n \in hist'.completed PROVE HasDocs(sql, mongo, n)
    BY <1>a, <2>3, <2>4, <2>6
  <2> QED
    BY <1>a, <1>c, <2>1, <2>2, <2>5, <2>6, SameTables DEF DocInv
<1>10. CASE Idle
  BY <1>10, <1>a, <1>c, SameTables DEF Idle, DocInv, Live
<1> QED
  BY <1>1, <1>2, <1>3, <1>4, <1>5, <1>6, <1>7, <1>8, <1>9, <1>10, Steps

LEMMA LostKept ==
    ASSUME TypeOK, RunInv, JobInv, LostInv, [Next]_vars
    PROVE  LostInv'
<1>0. /\ at \in 0 .. 31 /\ hist.runs \in Nat
      /\ \A d \in hist.undone : d.run \in Nat /\ d.id \in Int
      /\ sql.rows \subseteq Rows
  BY Places DEF TypeOK, Hist, Docs, Tables
<1>a. /\ \A d \in hist.undone : d.kind = "upload" =>
            /\ d.run =< hist.runs /\ d.run \notin hist.completed
            /\ \A r \in sql.rows : r.run = d.run => r.item < d.id
            /\ at # 0 /\ d.run = hist.runs =>
                  /\ at \in 9 .. 11 /\ d.id \in job.items
                  /\ [id |-> d.id, run |-> d.run] \notin sql.items
      /\ at \in 1 .. 9 => \A r \in sql.rows : r.run # hist.runs
  BY DEF LostInv, LostRow
(* At other places, and when the script has ended, the run has no such     *)
(* document.                                                               *)
<1>b. ASSUME hist'.undone = hist.undone, hist'.runs = hist.runs,
             \/ hist'.completed = hist.completed
             \/ at = 31 /\ hist'.completed = hist.completed \cup {hist.runs},
             sql'.rows \subseteq sql.rows,
             at' = 0 \/ at \notin 9 .. 11, at # 0, at' \in 1 .. 9 => at \in 1 .. 9
      PROVE  LostInv'
  <2>1. ASSUME NEW d \in hist.undone, d.kind = "upload" PROVE LostRow(d)'
    BY <1>0, <1>a, <1>b, <2>1 DEF LostRow
  <2> QED
    BY <1>a, <1>b, <2>1 DEF LostInv
<1>1. CASE Started
  <2>1. \A r \in sql.rows : r.run =< hist.runs /\ r.run \in Nat
    BY <1>0 DEF RunInv, OfARun, AllThings, Rows
  <2> QED
    BY <1>0, <1>1, <1>a, <2>1 DEF Started, LostInv, LostRow
<1>2. CASE Ended
  BY <1>2, <1>b DEF Ended, HistKept
<1>3. CASE Inserted
  <2>1. /\ at \in Inserts /\ at' = at + 1 /\ hist'.runs = hist.runs
        /\ hist'.completed = hist.completed /\ hist.runs \notin hist.completed
        /\ \A r \in sql'.rows : r \in sql.rows \/ r.run = hist.runs
    <3>1. at \in Inserts /\ at' = at + 1 /\ HistKept /\ Grown
      BY <1>3 DEF Inserted
    <3>2. at # 0
      BY <3>1 DEF Inserts
    <3>3. \A r \in sql'.rows : r \in sql.rows \/ r.run = hist.runs
      BY <3>1 DEF Grown
    <3> QED
      BY <3>1, <3>2, <3>3 DEF HistKept, RunInv
  <2>2. /\ \A d \in hist'.undone : d.kind = "upload" /\ d \notin hist.undone =>
              /\ at = 8 /\ d.run = hist.runs /\ d.id \in job'.items
              /\ [id |-> d.id, run |-> d.run] \notin sql'.items
        /\ at \in {4, 6, 8} => sql'.rows = sql.rows
        /\ at = 10 => /\ job'.items = job.items /\ sql'.items = sql.items
                      /\ \A r \in sql'.rows : r \in sql.rows \/ BeforeLost(r.item)
    BY <1>3 DEF Inserted, Undoing
  <2>3. at # 10 => at \notin 9 .. 11 /\ at # 0
    BY <2>1 DEF Inserts
  <2>4. ASSUME NEW d \in hist.undone, d.kind = "upload" PROVE LostRow(d)'
    <3>1. CASE d.run # hist.runs
      BY <1>a, <2>1, <2>4, <3>1 DEF LostRow
    (* The chains of a batch are of items before the one that is lost. *)
    <3>2. CASE d.run = hist.runs
      <4>1. at = 10
        BY <1>a, <2>3, <2>4, <3>2
      <4>2. d.id \in job.items /\ [id |-> d.id, run |-> d.run] \notin sql.items
        BY <1>a, <2>4, <3>2, <4>1
      <4>3. \A x \in sql.items : x.id # d.id
        <5>1. ASSUME NEW x \in sql.items, x.id = d.id PROVE FALSE
          <6>1. x.run = hist.runs /\ x \in Things
            BY <4>1, <4>2, <5>1 DEF JobInv, TypeOK, Tables
          <6>2. x = [id |-> d.id, run |-> d.run]
            BY <3>2, <5>1, <6>1 DEF Things
          <6> QED
            BY <4>2, <6>2
        <5> QED
          BY <5>1
      <4>4. d.id \in Todo
        <5>1. ASSUME NEW r \in job.rows PROVE r.item # d.id
          BY <3>2, <4>1, <4>2 DEF JobInv
        <5> QED
          BY <4>2, <5>1 DEF Todo
      <4>5. \A r \in sql'.rows : r.run = d.run => r.item < d.id
        BY <1>a, <2>2, <2>4, <4>1, <4>3, <4>4 DEF BeforeLost
      <4> QED
        BY <1>a, <2>1, <2>2, <2>4, <4>1, <4>2, <4>5 DEF LostRow
    <3> QED
      BY <3>1, <3>2
  <2>5. ASSUME NEW d \in hist'.undone, d \notin hist.undone, d.kind = "upload"
        PROVE  LostRow(d)'
    <3>2. at = 8 /\ sql'.rows = sql.rows
      BY <2>2, <2>5
    <3>1. \A r \in sql'.rows : r.run # hist.runs
      BY <1>a, <3>2
    <3> QED
      BY <1>0, <2>1, <2>2, <2>5, <3>1 DEF LostRow
  <2>6. at' \in 1 .. 9 => \A r \in sql'.rows : r.run # hist'.runs
    <3>1. at' \in 1 .. 9 => at \in {4, 6, 8} /\ at \in 1 .. 9
      BY <2>1 DEF Inserts
    <3> QED
      BY <1>a, <2>1, <2>2, <3>1
  <2> QED
    BY <2>4, <2>5, <2>6 DEF LostInv
<1>4. CASE TablesCleared \/ RolledBack \/ DocsCleared \/ GraphCleared
  <2>1. at \in 1 .. 3 /\ hist'.undone = hist.undone /\ hist'.runs = hist.runs
        /\ hist'.completed = hist.completed
    BY <1>4 DEF TablesCleared, RolledBack, DocsCleared, GraphCleared
  <2>2. sql'.rows \subseteq sql.rows
    BY <1>4 DEF TablesCleared, RolledBack, DocsCleared, GraphCleared, NoRows
  <2> QED
    BY <1>b, <2>1, <2>2
<1>5. CASE Copied
  <2>1. at \in {14, 22, 26, 30} /\ hist'.undone = hist.undone /\ hist'.runs = hist.runs
        /\ hist'.completed = hist.completed /\ sql' = sql /\ at' = at + 1
    BY <1>5 DEF Copied, Copies, HistSame, HistKept
  <2> QED
    BY <1>b, <2>1
<1>6. CASE DocsInserted
  <2>1. /\ at \in Logs /\ hist'.undone = hist.undone /\ hist'.runs = hist.runs
        /\ hist'.completed = hist.completed /\ sql' = sql /\ job'.items = job.items
        /\ at' \in {0, at + 1} \/ (at = 11 /\ at' = 10)
        /\ at = 11 /\ at' = 12 => Todo = {}
    BY <1>6 DEF DocsInserted, HistSame, HistKept, TypeOK, Job
  <2>2. CASE at' = 0 \/ at \notin 9 .. 11
    BY <1>0, <1>b, <2>1, <2>2 DEF Logs
  <2>3. CASE at' \in 10 .. 11 /\ at \in 9 .. 11
    BY <1>a, <2>1, <2>3 DEF LostInv, LostRow
  (* All chains are made: no item has lost its row. *)
  <2>4. CASE at = 11 /\ at' = 12
    <3>1. \A i \in job.items : [id |-> i, run |-> hist.runs] \in sql.items
      BY <2>1, <2>4 DEF JobInv, Todo
    <3>2. ASSUME NEW d \in hist.undone, d.kind = "upload" PROVE d.run # hist.runs
      <4>1. SUFFICES ASSUME d.run = hist.runs PROVE FALSE
        OBVIOUS
      <4>2. d.id \in job.items /\ [id |-> d.id, run |-> d.run] \notin sql.items
        BY <1>a, <2>4, <3>2, <4>1
      <4> QED
        BY <3>1, <4>1, <4>2
    <3>3. ASSUME NEW d \in hist.undone, d.kind = "upload" PROVE LostRow(d)'
      BY <1>a, <2>1, <2>4, <3>2, <3>3 DEF LostRow
    <3> QED
      BY <2>1, <2>4, <3>3 DEF LostInv
  <2> QED
    BY <1>0, <2>1, <2>2, <2>3, <2>4 DEF Logs
<1>7. ASSUME NEW f \in FileName, FileWritten(f) PROVE LostInv'
  <2>1. /\ at \in {19, 23, 27, 31} /\ (f = "insider" <=> at = 31)
        /\ hist'.undone = hist.undone /\ hist'.runs = hist.runs /\ sql' = sql
        /\ at' \in {0, at + 1}
        /\ hist'.completed = hist.completed \cup (IF f = "insider" THEN {hist.runs} ELSE {})
    BY <1>7 DEF FileWritten, FileName, PlaceOf
  <2>2. hist'.completed = hist.completed
        \/ (at = 31 /\ hist'.completed = hist.completed \cup {hist.runs})
    BY <2>1
  <2> QED
    BY <1>b, <2>1, <2>2
<1>8. CASE Idle
  BY <1>8 DEF Idle, LostInv, LostRow
<1> QED
  BY <1>1, <1>2, <1>3, <1>4, <1>5, <1>6, <1>7, <1>8, Steps

LEMMA AccusedKept ==
    ASSUME TypeOK, RunInv, JobInv, DocInv, AccusedInv, [Next]_vars
    PROVE  AccusedInv'
<1>0. /\ at \in 0 .. 31 /\ hist.runs \in Nat
      /\ \A d \in mongo : d.run \in Nat
  BY Places DEF TypeOK, Hist, Docs
<1>a. Live => /\ \A d \in mongo \cup job.docs : d.run = hist.runs =>
                    /\ d.kind \in TamperKinds => d.id \in Tampered
                    /\ d.kind \in InsiderKinds => d.id \in Insiders
              /\ \A u \in Insiders :
                    [kind |-> "insiderAlert", id |-> u, run |-> hist.runs] \in mongo \cup job.docs
  BY DEF AccusedInv
<1>b. at # 0 => hist.runs \notin hist.completed
  BY DEF RunInv
<1>c. ASSUME at' = 0, at # 0, hist'.runs = hist.runs, hist'.completed = hist.completed
      PROVE  AccusedInv'
  BY <1>b, <1>c DEF AccusedInv, Live
(* As many documents, or fewer, accuse the same ones. *)
<1>d. ASSUME Live' => Live, hist'.runs = hist.runs, Tampered' = Tampered, Insiders' = Insiders,
             mongo' \cup job'.docs \subseteq mongo \cup job.docs,
             mongo \cup job.docs \subseteq mongo' \cup job'.docs \/ Insiders' = {}
      PROVE  AccusedInv'
  BY <1>a, <1>d DEF AccusedInv
<1>1. CASE Started
  <2>1. job'.docs = {} /\ Insiders' = {}
    BY <1>1 DEF Started, NoJob, Insiders
  <2>2. \A d \in mongo : d.run # hist.runs + 1
    BY <1>0 DEF RunInv, OfARun
  <2> QED
    BY <1>1, <2>1, <2>2 DEF Started, AccusedInv
<1>2. CASE Ended
  BY <1>2, <1>c DEF Ended, HistKept
<1>3. CASE Inserted
  <2>1. at # 0 /\ at' # 0 /\ Live /\ job.docs = {} /\ at \in Inserts /\ at' = at + 1
    BY <1>3 DEF Inserted, Inserts, Live, JobInv, Logs
  <2>2. Queued /\ mongo' = mongo /\ files' = files /\ hist'.runs = hist.runs
    BY <1>3 DEF Inserted, HistKept
  <2>3. /\ at = 17 => Tampered = {} /\ Tampered' = job'.found
        /\ at # 17 => Tampered' = Tampered
    BY <2>1, <2>2 DEF Tampered, Inserts
  <2>4. /\ at = 28 => Insiders = {} /\ Insiders' = job'.found
        /\ at # 28 => Insiders' = {} /\ Insiders = {}
    BY <2>1, <2>2 DEF Insiders, Inserts
  <2>5. ASSUME NEW d \in mongo' \cup job'.docs, d.run = hist'.runs
        PROVE  /\ d.kind \in TamperKinds => d.id \in Tampered'
               /\ d.kind \in InsiderKinds => d.id \in Insiders'
    <3>1. CASE d \in mongo
      BY <1>a, <2>1, <2>2, <2>3, <2>4, <2>5, <3>1
    <3>2. CASE d \in job'.docs
      BY <2>2, <2>3, <2>4, <3>2 DEF Queued
    <3> QED
      BY <2>2, <2>5, <3>1, <3>2
  <2>6. ASSUME NEW u \in Insiders'
        PROVE  [kind |-> "insiderAlert", id |-> u, run |-> hist'.runs] \in mongo' \cup job'.docs
    BY <2>2, <2>4, <2>6 DEF Queued
  <2> QED
    BY <2>5, <2>6 DEF AccusedInv
<1>4. CASE TablesCleared \/ RolledBack \/ GraphCleared
  <2>1. /\ at \in {1, 3} /\ at' \in {2, 4} /\ mongo' = mongo /\ job' = job
        /\ hist'.runs = hist.runs
    BY <1>4 DEF TablesCleared, RolledBack, GraphCleared
  <2> QED
    BY <1>d, <2>1 DEF Live, Tampered, Insiders
<1>5. CASE DocsCleared
  <2>1. /\ at = 2 /\ at' \in {0, 3} /\ mongo' \subseteq mongo /\ job' = job
        /\ hist'.runs = hist.runs /\ hist'.completed = hist.completed
    BY <1>5 DEF DocsCleared
  <2> QED
    BY <1>c, <1>d, <2>1 DEF Live, Tampered, Insiders
<1>6. CASE Copied
  <2>1. /\ at \in {14, 22, 26, 30} /\ at' = at + 1 /\ mongo' = mongo /\ job' = job
        /\ files' = files /\ hist'.runs = hist.runs
    BY <1>6 DEF Copied, Copies, HistSame, HistKept
  <2>2. Tampered' = Tampered /\ Insiders' = Insiders
    BY <2>1 DEF Tampered, Insiders
  <2> QED
    BY <1>d, <2>1, <2>2 DEF Live
<1>7. CASE DocsInserted
  <2>1. at \in Logs /\ at # 0 /\ files' = files /\ hist'.runs = hist.runs
        /\ hist'.completed = hist.completed
    BY <1>7 DEF DocsInserted, HistSame, HistKept, Logs
  <2>2. CASE /\ at' = at + 1 \/ (at = 11 /\ at' = 10)
             /\ mongo' = mongo \cup job.docs /\ job' = [job EXCEPT !.docs = {}]
    <3>1. job'.docs = {} /\ job'.found = job.found
      BY <2>2 DEF TypeOK, Job
    <3>2. Tampered' = Tampered /\ Insiders' = Insiders
      BY <2>1, <2>2, <3>1 DEF Tampered, Insiders, Logs
    <3> QED
      BY <1>d, <2>1, <2>2, <3>1, <3>2 DEF Live
  <2>3. CASE at' = 0
    BY <1>c, <2>1, <2>3
  <2> QED
    BY <1>7, <2>2, <2>3 DEF DocsInserted
<1>8. ASSUME NEW f \in FileName, FileWritten(f) PROVE AccusedInv'
  <2>1. /\ at = PlaceOf(f) /\ at' = (IF f = "insider" THEN 0 ELSE at + 1)
        /\ mongo' = mongo /\ job' = job /\ hist'.runs = hist.runs
        /\ files' = [files EXCEPT ![f] = job.found]
    BY <1>8 DEF FileWritten
  <2>2. \A g \in FileName : files'[g] = IF g = f THEN job.found ELSE files[g]
    BY <2>1 DEF TypeOK
  <2>3. Tampered' = Tampered
    BY <2>1, <2>2 DEF Tampered, FileName, PlaceOf
  <2>4. Insiders' = Insiders
    BY <2>1, <2>2 DEF Insiders, FileName, PlaceOf
  <2>5. Live
    BY <2>1 DEF Live, FileName, PlaceOf
  <2> QED
    BY <1>d, <2>1, <2>3, <2>4, <2>5
<1>9. CASE Idle
  BY <1>9, <1>d DEF Idle, Live, Tampered, Insiders
<1> QED
  BY <1>1, <1>2, <1>3, <1>4, <1>5, <1>6, <1>7, <1>8, <1>9, Steps

LEMMA EventsKept ==
    ASSUME TypeOK, RunInv, JobInv, EventInv, [Next]_vars
    PROVE  EventInv'
<1>a. /\ \A r, s \in sql.rows : r.id = s.id => r = s
      /\ ~hist.unswept =>
            /\ \A e \in graph.events : \E r \in sql.rows : StandsFor(e, r)
            /\ \A e, f \in graph.events : e.id = f.id => e = f
            /\ at \in Waiting => \A r \in job.rows : \A e \in graph.events : e.id # r.id
  BY DEF EventInv
(* Most steps leave rows and events as they are. *)
<1>b. ASSUME sql' = sql, graph' = graph, hist'.unswept = hist.unswept,
             at' \in Waiting => job'.rows = {} \/ (at \in Waiting /\ job'.rows = job.rows)
      PROVE  EventInv'
  <2>1. \A e, r : StandsFor(e, r)' <=> StandsFor(e, r)
    BY DEF StandsFor
  <2> QED
    BY <1>a, <1>b, <2>1 DEF EventInv
<1>1. CASE Started
  BY <1>1, <1>b DEF Started, NoJob
<1>2. CASE Ended
  BY <1>2, <1>b DEF Ended, HistKept, Waiting
<1>3. CASE Inserted /\ JobInv'
  <2>1. /\ at \in Inserts /\ at' = at + 1 /\ graph'.events = graph.events
        /\ hist'.unswept = hist.unswept /\ hist'.runs = hist.runs
        /\ sql.rows \subseteq sql'.rows
        /\ Numbered
    BY <1>3 DEF Inserted, HistKept, Grown
  <2>2. ASSUME NEW r \in sql'.rows, NEW s \in sql'.rows, r.id = s.id PROVE r = s
    BY <1>a, <2>1, <2>2 DEF Numbered
  <2>3. ASSUME ~hist.unswept, at' \in Waiting, NEW r \in job'.rows, NEW e \in graph.events
        PROVE  e.id # r.id
    <3>1. at \in {4, 6, 8, 10, 12, 20, 24, 28}
      BY <2>1, <2>3 DEF Inserts, Waiting
    <3>2. CASE at \in Waiting /\ r \in job.rows
      BY <1>a, <2>3, <3>2
    <3>3. CASE ~(at \in Waiting /\ r \in job.rows)
      <4>1. PICK s \in sql.rows : StandsFor(e, s)
        BY <1>a, <2>3
      <4>2. r \notin sql.rows /\ r \in sql'.rows
        <5>1. at \in {10, 20, 24, 28} /\ r \notin sql.rows
          BY <2>1, <2>3, <3>1, <3>3 DEF Numbered, Waiting
        <5>2. at' # 0
          BY <2>1, <5>1
        <5> QED
          BY <1>3, <2>3, <5>1, <5>2 DEF JobInv
      <4>3. r.id # s.id
        BY <2>1, <2>2, <4>2
      <4> QED
        BY <4>1, <4>3 DEF StandsFor
    <3> QED
      BY <3>2, <3>3
  <2> QED
    BY <1>a, <2>1, <2>2, <2>3 DEF EventInv
<1>4. CASE TablesCleared
  BY <1>4 DEF TablesCleared, EventInv, NoRows
<1>5. CASE RolledBack \/ DocsCleared
  <2>1. at' \notin Waiting
    BY <1>5 DEF RolledBack, DocsCleared, Waiting
  <2> QED
    BY <1>5, <1>b, <2>1 DEF RolledBack, DocsCleared
<1>6. CASE GraphCleared
  <2>1. job'.rows = {} /\ sql' = sql
    BY <1>6 DEF GraphCleared, JobInv, NoJob
  <2>2. graph'.events = {} \/ (graph'.events = graph.events /\ hist'.unswept = hist.unswept)
    BY <1>6 DEF GraphCleared
  <2> QED
    BY <1>a, <2>1, <2>2 DEF EventInv
<1>7. CASE Copied
  <2>1. sql' = sql /\ at' = at + 1 /\ hist'.unswept = hist.unswept /\ at \in {14, 22, 26, 30}
    BY <1>7 DEF Copied, HistSame, HistKept, Copies
  <2>2. at' \notin Waiting /\ at \in Waiting /\ \A r \in job.rows : r \in sql.rows
    BY <2>1 DEF Waiting, JobInv
  (* An event there is now was there, or is new and stands for a row that waited. *)
  <2>3. ASSUME NEW e \in graph'.events, ~hist.unswept
        PROVE  \/ e \in graph.events
               \/ \E r \in job.rows : StandsFor(e, r)
    <3>1. CASE \E rows \in SUBSET job.rows :
                  graph'.events = graph.events \cup NewEvents(rows)
      BY <3>1 DEF NewEvents, StandsFor
    <3>2. CASE \E rows \in SUBSET job.rows :
                  graph'.events = MergeEvents(graph.events, rows)
      <4>1. PICK rows \in SUBSET job.rows : e \in MergeEvents(graph.events, rows)
        BY <3>2
      <4>2. \A r \in rows : \A x \in graph.events : x.id # r.id
        BY <1>a, <2>2, <2>3
      <4>3. CASE e \in graph.events
        BY <4>3
      <4>4. CASE \E r \in rows : e = MergedInto(NewEvent(r), r)
        BY <4>4 DEF MergedInto, NewEvent, StandsFor
      <4> QED
        BY <4>1, <4>2, <4>3, <4>4, MergedEvents
    <3> QED
      BY <1>7, <3>1, <3>2 DEF Copied
  <2>4. ASSUME ~hist.unswept, NEW e \in graph'.events
        PROVE  \E r \in sql.rows : StandsFor(e, r)
    BY <1>a, <2>2, <2>3, <2>4
  <2>5. ASSUME ~hist.unswept, NEW e \in graph'.events, NEW f \in graph'.events, e.id = f.id
        PROVE  e = f
    <3>1. CASE e \in graph.events /\ f \in graph.events
      BY <1>a, <2>5, <3>1
    <3>2. CASE e \in graph.events /\ \E r \in job.rows : StandsFor(f, r)
      BY <1>a, <2>2, <2>5, <3>2 DEF StandsFor
    <3>3. CASE f \in graph.events /\ \E r \in job.rows : StandsFor(e, r)
      BY <1>a, <2>2, <2>5, <3>3 DEF StandsFor
    <3>4. CASE e \notin graph.events /\ f \notin graph.events
      <4>1. CASE \E rows \in SUBSET job.rows :
                    graph'.events = graph.events \cup NewEvents(rows)
        <5>1. PICK r \in job.rows, s \in job.rows :
                 /\ e = [id |-> r.id, runs |-> {r.run}, givers |-> {}, insider |-> FALSE]
                 /\ f = [id |-> s.id, runs |-> {s.run}, givers |-> {}, insider |-> FALSE]
          BY <2>5, <3>4, <4>1 DEF NewEvents
        <5>2. r = s
          BY <1>a, <2>2, <2>5, <5>1
        <5> QED
          BY <5>1, <5>2
      <4>2. CASE \E rows \in SUBSET job.rows :
                    graph'.events = MergeEvents(graph.events, rows)
        <5>1. PICK rows \in SUBSET job.rows :
                 e \in MergeEvents(graph.events, rows) /\ f \in MergeEvents(graph.events, rows)
          BY <2>5, <4>2
        <5>2. \A r \in rows : \A x \in graph.events : x.id # r.id
          BY <1>a, <2>2, <2>5
        <5>3. PICK r \in rows, s \in rows :
                 e = MergedInto(NewEvent(r), r) /\ f = MergedInto(NewEvent(s), s)
          BY <3>4, <5>1, <5>2, MergedEvents
        <5>4. e.id = r.id /\ f.id = s.id
          BY <5>3 DEF MergedInto, NewEvent
        <5>5. r = s
          BY <1>a, <2>2, <2>5, <5>4
        <5> QED
          BY <5>3, <5>5
      <4> QED
        BY <1>7, <4>1, <4>2 DEF Copied
    <3> QED
      BY <2>3, <2>5, <3>1, <3>2, <3>3, <3>4
  <2> QED
    BY <1>a, <2>1, <2>2, <2>4, <2>5 DEF EventInv
<1>8. CASE DocsInserted
  <2>1. at' \in Waiting => at \in Waiting /\ job'.rows = job.rows
    <3>1. at' = 0 => at' \notin Waiting
      BY DEF Waiting
    <3>2. CASE (at' = at + 1 \/ (at = 11 /\ at' = 10)) /\ job' = [job EXCEPT !.docs = {}]
      <4>1. job'.rows = job.rows /\ at \in Logs
        BY <1>8, <3>2 DEF TypeOK, Job, DocsInserted
      <4> QED
        BY <3>2, <4>1 DEF Waiting, Logs
    <3> QED
      BY <1>8, <3>1, <3>2 DEF DocsInserted
  <2> QED
    BY <1>8, <1>b, <2>1 DEF DocsInserted, HistSame, HistKept
<1>9. ASSUME NEW f \in FileName, FileWritten(f) PROVE EventInv'
  <2>1. at' \notin Waiting
    BY <1>9 DEF FileWritten, FileName, PlaceOf, Waiting
  <2> QED
    BY <1>9, <1>b, <2>1 DEF FileWritten
<1>10. CASE Idle
  BY <1>10, <1>b DEF Idle
<1> QED
  BY <1>1, <1>2, <1>3, <1>4, <1>5, <1>6, <1>7, <1>8, <1>9, <1>10, Steps

LEMMA SimInit == Init => SimInv
<1> SUFFICES ASSUME Init PROVE SimInv
  OBVIOUS
<1>1. /\ at = 0 /\ sql = NoRows /\ mongo = {} /\ graph.events = {} /\ job = NoJob
      /\ hist.runs = 0 /\ hist.completed = {} /\ hist.cleared = 0
      /\ \A f \in FileName : files[f] = {} /\ hist.filed[f] = 0
  BY DEF Init
<1>2. TypeOK
  BY TypeInit
<1>3. AllThings = {} /\ ~Live
  BY <1>1 DEF AllThings, NoRows, Live
<1>4. RunInv /\ DocInv /\ AccusedInv
  BY <1>1, <1>3 DEF RunInv, DocInv, AccusedInv
<1>8. LostInv
  BY <1>1 DEF Init, LostInv
<1>5. JobInv
  BY <1>1, <1>3 DEF JobInv
<1>6. FileInv
  <2>1. IsFiniteSet(files["tamper"])
    BY <1>1, FS_EmptySet DEF FileName
  <2> QED
    BY <1>1, <1>3, <2>1 DEF FileInv
<1>7. EventInv
  BY <1>1 DEF EventInv, NoRows
<1> QED
  BY <1>2, <1>4, <1>5, <1>6, <1>7, <1>8 DEF SimInv

LEMMA SimNext == SimInv /\ [Next]_vars => SimInv'
BY TypeNext, RunKept, JobStaysKept, FilesKept, DocsKept, LostKept, AccusedKept, EventsKept
   DEF SimInv

THEOREM SimCorrect == Spec => []SimInv
BY SimInit, SimNext, PTL DEF Spec

-----------------------------------------------------------------------------
(* The properties of the runs. *)

(* The variables of the script keep their types. *)
THEOREM TypeCorrect == Spec => []TypeOK
<1>1. SimInv => TypeOK
  BY DEF SimInv
<1> QED
  BY <1>1, SimCorrect, PTL

(* What a file lists is there, unless a clear came after it was written;   *)
(* a completed run has written all of them.                                *)
THEOREM FilesCorrect == Spec => []FilesFollowTables
<1>1. SimInv => FilesFollowTables
  <2> SUFFICES ASSUME SimInv PROVE FilesFollowTables
    OBVIOUS
  <2>1. \A f \in FileName : \A i \in files[f] : hist.filed[f] < hist.cleared \/ Listed(f, i)
    BY DEF SimInv, FileInv
  <2>2. ASSUME hist.runs \in hist.completed, NEW f \in FileName PROVE hist.filed[f] = hist.runs
    <3>1. at = 0 /\ Live
      BY <2>2 DEF SimInv, RunInv, Live
    <3>2. PlaceOf(f) \in Nat /\ at \notin 1 .. PlaceOf(f)
      BY <3>1 DEF FileName, PlaceOf
    <3> QED
      BY <3>1, <3>2 DEF SimInv, FileInv
  <2> QED
    BY <2>1, <2>2 DEF FilesFollowTables, Listed
<1> QED
  BY <1>1, SimCorrect, PTL

(* A document tells of a row of its own run, but for those of rows that    *)
(* were rolled back after they were queued, and for what a clear has left; *)
(* and what a completed run put into PostgreSQL has its documents, until a *)
(* clear rolls back.                                                       *)
THEOREM DocsCorrect == Spec => []DocsMatchRows
<1>1. SimInv => DocsMatchRows
  <2> SUFFICES ASSUME SimInv PROVE DocsMatchRows
    OBVIOUS
  <2>1. \A d \in mongo : ToldOf(d) \/ Undone(d) \/ (d.run < hist.cleared /\ hist.unlogged)
    BY DEF SimInv, DocInv
  <2>2. ~hist.unset => \A n \in hist.completed : HasDocs(sql, mongo, n)
    BY DEF SimInv, DocInv
  <2> QED
    BY <2>1, <2>2 DEF DocsMatchRows, HasDocs, Undone
<1> QED
  BY <1>1, SimCorrect, PTL

(* A run that has lost the row of an item ends at the chain of this item.  *)
THEOREM LostRowCorrect == Spec => []LostRowEndsRun
<1>1. SimInv => LostRowEndsRun
  BY DEF SimInv, LostInv, LostRow, LostRowEndsRun
<1> QED
  BY <1>1, SimCorrect, PTL

(* An event of the graph stands for one row, and no other event does,      *)
(* unless a clear has left events.                                         *)
THEOREM EventsCorrect == Spec => []EventsStandForOneRow
<1>1. SimInv => EventsStandForOneRow
  <2> SUFFICES ASSUME SimInv, ~hist.unswept PROVE EventsStandForOneRow
    BY DEF EventsStandForOneRow
  <2>1. ASSUME NEW e \in graph.events PROVE Cardinality(e.runs) = 1
    <3>1. PICK r \in sql.rows : StandsFor(e, r)
      BY DEF SimInv, EventInv
    <3> QED
      BY <3>1, FS_Singleton DEF StandsFor
  <2>2. \A e, f \in graph.events : e.id = f.id => e = f
    BY DEF SimInv, EventInv
  <2> QED
    BY <2>1, <2>2 DEF EventsStandForOneRow
<1> QED
  BY <1>1, SimCorrect, PTL

(* When the run has completed, the tag and the audit log find all the      *)
(* tampered evidence and MongoDB every insider the files list, and what    *)
(* else the documents accuse is of an earlier run.  The graph accuses      *)
(* nobody who has no insider's row, unless a clear has left events.        *)
THEOREM InjectedCorrect == Spec => []InjectedAreFound
<1>1. SimInv => InjectedAreFound
  <2> SUFFICES ASSUME SimInv PROVE InjectedAreFound
    OBVIOUS
  <2> DEFINE accused == CyberExperiment3(<<>>).mongo
             Earlier(i) == \E d \in mongo : d.id = i /\ d.run < hist.runs
  <2>0. /\ TypeOK /\ RunInv /\ FileInv /\ DocInv /\ AccusedInv /\ EventInv /\ JobInv
        /\ hist.runs \in Nat
        /\ \A d \in mongo : d.run \in Nat /\ d.run =< hist.runs
    BY DEF SimInv, TypeOK, Hist, Docs, RunInv, OfARun
  <2>1. accused = {d.id : d \in {x \in mongo : x.kind \in InsiderKinds}}
    BY DEF CyberExperiment3, Documented, InsiderKinds
  <2>2. /\ CyberExperiment1.sql = IdsOf(sql.marked) \cap files["tamper"]
        /\ CyberExperiment1.mongo = {d.id : d \in {x \in mongo : x.kind \in {"tamper"}}}
                                       \cap files["tamper"]
        /\ RunCyberExperiment1.mongo = {d.id : d \in {x \in mongo : x.kind \in TamperKinds}}
        /\ RunExperiment1.mongo = Cardinality({d \in mongo : d.kind = "tamper"})
    BY DEF CyberExperiment1, RunCyberExperiment1, RunExperiment1, Documented, TamperKinds
  <2>3. ASSUME at = 0, hist.runs \in hist.completed
        PROVE  /\ CyberExperiment1.sql = files["tamper"]
               /\ CyberExperiment1.mongo = files["tamper"]
               /\ \A i \in RunCyberExperiment1.mongo \ files["tamper"] : Earlier(i)
               /\ RunExperiment1.mongo > Cardinality(files["tamper"]) =>
                     \E d \in mongo : d.run < hist.runs
               /\ files["insider"] \subseteq accused
               /\ \A u \in accused \ files["insider"] : Earlier(u)
    <3>1. Live /\ job.docs = {} /\ Tampered = files["tamper"] /\ Insiders = files["insider"]
      BY <2>0, <2>3 DEF Live, JobInv, Logs, Tampered, Insiders
    <3>2. \A d \in mongo : d.run = hist.runs =>
             /\ d.kind \in TamperKinds => d.id \in files["tamper"]
             /\ d.kind \in InsiderKinds => d.id \in files["insider"]
      BY <2>0, <3>1 DEF AccusedInv
    <3>3. HasDocs(sql, mongo, hist.runs)
      <4>1. mongo \cup job.docs = mongo
        BY <3>1
      <4> QED
        BY <2>0, <3>1, <4>1 DEF DocInv
    <3>4. /\ hist.filed["tamper"] = hist.runs
          /\ hist.cleared =< hist.runs /\ hist.cleared \in Nat
      <4>1. "tamper" \in FileName /\ PlaceOf("tamper") = 19
        BY DEF FileName, PlaceOf
      <4> QED
        BY <2>0, <2>3, <3>1, <4>1 DEF FileInv, RunInv, TypeOK, Hist
    <3>5. ASSUME NEW i \in files["tamper"]
          PROVE  /\ [id |-> i, run |-> hist.runs] \in sql.marked
                 /\ [kind |-> "tamper", id |-> i, run |-> hist.runs] \in mongo
      <4>1. "tamper" \in FileName
        BY DEF FileName
      <4>2. [id |-> i, run |-> hist.runs] \in sql.marked
        BY <2>0, <3>4, <4>1 DEF FileInv, Listed
      <4> QED
        BY <3>3, <4>2 DEF HasDocs
    <3>6. CyberExperiment1.sql = files["tamper"]
      <4>1. ASSUME NEW i \in files["tamper"] PROVE i \in IdsOf(sql.marked)
        <5>1. [id |-> i, run |-> hist.runs] \in sql.marked
          BY <3>5
        <5>2. [id |-> i, run |-> hist.runs].id = i
          OBVIOUS
        <5> QED
          BY <5>1, <5>2 DEF IdsOf
      <4> QED
        BY <2>2, <4>1
    <3>7. CyberExperiment1.mongo = files["tamper"]
      <4>1. ASSUME NEW i \in files["tamper"]
            PROVE  i \in {d.id : d \in {x \in mongo : x.kind \in {"tamper"}}}
        <5> DEFINE d == [kind |-> "tamper", id |-> i, run |-> hist.runs]
        <5>1. d \in {x \in mongo : x.kind \in {"tamper"}} /\ d.id = i
          BY <3>5
        <5> QED
          BY <5>1
      <4> QED
        BY <2>2, <4>1
    <3>8. \A i \in RunCyberExperiment1.mongo \ files["tamper"] : Earlier(i)
      BY <2>0, <2>2, <3>2
    <3>9. \A u \in accused \ files["insider"] : Earlier(u)
      BY <2>0, <2>1, <3>2
    <3>10. files["insider"] \subseteq accused
      <4>1. ASSUME NEW u \in files["insider"] PROVE u \in accused
        <5> DEFINE d == [kind |-> "insiderAlert", id |-> u, run |-> hist.runs]
        <5>1. d \in mongo
          BY <2>0, <3>1 DEF AccusedInv
        <5>2. d \in {x \in mongo : x.kind \in InsiderKinds} /\ d.id = u
          BY <5>1 DEF InsiderKinds
        <5> QED
          BY <2>1, <5>2
      <4> QED
        BY <4>1
    <3>11. ASSUME \A d \in mongo : ~(d.run < hist.runs)
           PROVE  ~(RunExperiment1.mongo > Cardinality(files["tamper"]))
      <4> DEFINE tampers == {d \in mongo : d.kind = "tamper"}
                 f == [i \in files["tamper"] |-> [kind |-> "tamper", id |-> i, run |-> hist.runs]]
      <4>1. ASSUME NEW d \in tampers
            PROVE  /\ d.id \in files["tamper"]
                   /\ d = [kind |-> "tamper", id |-> d.id, run |-> hist.runs]
        <5>1. d.run = hist.runs /\ d \in Docs
          BY <2>0, <3>11 DEF TypeOK
        <5> QED
          BY <3>2, <5>1 DEF TamperKinds, Docs
      <4>2. ASSUME NEW i \in files["tamper"]
            PROVE  [kind |-> "tamper", id |-> i, run |-> hist.runs] \in tampers
        BY <3>5
      <4>3. f \in Surjection(files["tamper"], tampers)
        <5> HIDE DEF tampers
        <5> QED
          BY <4>1, <4>2 DEF Surjection
      <4>4. IsFiniteSet(files["tamper"])
        BY <2>0 DEF FileInv
      <4> HIDE DEF tampers, f
      <4>5. Cardinality(tampers) =< Cardinality(files["tamper"])
        BY <4>3, <4>4, FS_Surjection
      <4>6. IsFiniteSet(tampers)
        BY <4>3, <4>4, FS_Surjection
      <4>7. Cardinality(tampers) \in Nat /\ Cardinality(files["tamper"]) \in Nat
        BY <4>4, <4>6, FS_CardinalityType
      <4>8. RunExperiment1.mongo = Cardinality(tampers)
        BY <2>2 DEF tampers
      <4> QED
        BY <4>5, <4>7, <4>8
    <3> QED
      BY <3>6, <3>7, <3>8, <3>9, <3>10, <3>11
  <2>4. ASSUME ~hist.unswept, NEW u \in CyberExperiment3(<<>>).neo4j
        PROVE  \E r \in sql.rows : r.kind = "insider" /\ r.user = u
    <3>1. CyberExperiment3(<<>>).neo4j = UNION {e.givers : e \in {x \in graph.events : x.insider}}
      BY DEF CyberExperiment3
    <3>2. PICK e \in graph.events : e.insider /\ u \in e.givers
      BY <2>4, <3>1
    <3>3. PICK r \in sql.rows : StandsFor(e, r)
      BY <2>0, <2>4 DEF EventInv
    <3> QED
      BY <3>2, <3>3 DEF StandsFor
  <2> HIDE DEF accused, Earlier
  <2> QED
    BY <2>3, <2>4 DEF InjectedAreFound, accused, Earlier
<1> QED
  BY <1>1, SimCorrect, PTL

-----------------------------------------------------------------------------
(* Sums over the users. *)

(* What holds of the empty set, and of each set when it holds of the sets  *)
(* with one element less, holds of a finite set: P is the sets it holds of. *)
LEMMA BySmallerSets ==
    ASSUME NEW S, IsFiniteSet(S), NEW P \in SUBSET (SUBSET S),
           {} \in P,
           \A s \in SUBSET S : s # {} /\ (\A x \in s : s \ {x} \in P) => s \in P
    PROVE  S \in P
<1> DEFINE Others == (SUBSET S) \ P
<1> SUFFICES ASSUME Others # {} PROVE FALSE
  OBVIOUS
<1>1. Others \in SUBSET FiniteSubsetsOf(S)
  BY FS_Subset DEF FiniteSubsetsOf
<1> HIDE DEF Others
<1>2. PICK s \in Others : \A t \in Others : <<t, s>> \notin StrictSubsetOrdering(S)
  BY <1>1, FS_StrictSubsetOrderingWellFounded, WFMin
<1>3. s \in SUBSET S /\ s \notin P /\ s # {}
  BY DEF Others
<1>4. PICK x \in s : s \ {x} \in Others
  BY <1>3 DEF Others
<1>5. <<s \ {x}, s>> \in StrictSubsetOrdering(S)
  BY <1>3 DEF StrictSubsetOrdering
<1> QED
  BY <1>2, <1>4, <1>5

SumOf(f, S) == SumFunctionOnSet(f, S)

(* A unit for each thing that is counted. *)
Units(f, S) == UNION {{x} \X (1 .. f[x]) : x \in S}

LEMMA UnitsOfOne ==
    ASSUME NEW f, NEW x, f[x] \in Nat
    PROVE  IsFiniteSet({x} \X (1 .. f[x])) /\ Cardinality({x} \X (1 .. f[x])) = f[x]
<1>1. IsFiniteSet({x}) /\ Cardinality({x}) = 1
  BY FS_Singleton
<1>2. \A n \in Nat : IsFiniteSet(1 .. n) /\ Cardinality(1 .. n) = n
  BY FS_Interval
<1> DEFINE n == f[x]
<1>3. n \in Nat
  OBVIOUS
<1> HIDE DEF n
<1>4. \A I : IsFiniteSet(I) => /\ IsFiniteSet({x} \X I)
                              /\ Cardinality({x} \X I) = Cardinality({x}) * Cardinality(I)
  BY <1>1, FS_Product
<1>5. IsFiniteSet({x} \X (1 .. n)) /\ Cardinality({x} \X (1 .. n)) = 1 * n
  BY <1>1, <1>2, <1>3, <1>4
<1> QED
  BY <1>3, <1>5 DEF n

LEMMA UnitsAdd ==
    ASSUME NEW f, NEW S, IsFiniteSet(S), \A x \in S : f[x] \in Nat
    PROVE  /\ IsFiniteSet(Units(f, S)) /\ Cardinality(Units(f, S)) \in Nat
           /\ \A x \in S : Cardinality(Units(f, S)) = f[x] + Cardinality(Units(f, S \ {x}))
<1>1. ASSUME NEW T \in SUBSET S PROVE IsFiniteSet(Units(f, T)) /\ Cardinality(Units(f, T)) \in Nat
  <2> DEFINE g == [x \in T |-> {x} \X (1 .. f[x])]
             C == {{x} \X (1 .. f[x]) : x \in T}
  <2>1. IsFiniteSet(T)
    BY FS_Subset
  <2>2. g \in Surjection(T, C)
    BY DEF Surjection
  <2>3. \A c \in C : IsFiniteSet(c)
    BY UnitsOfOne
  <2>4. Units(f, T) = UNION C
    BY DEF Units
  <2> HIDE DEF g, C
  <2>5. IsFiniteSet(C)
    BY <2>1, <2>2, FS_Surjection
  <2>6. IsFiniteSet(UNION C)
    BY <2>3, <2>5, FS_UNION
  <2> QED
    BY <2>4, <2>6, FS_CardinalityType
<1>2. ASSUME NEW x \in S
      PROVE  Cardinality(Units(f, S)) = f[x] + Cardinality(Units(f, S \ {x}))
  <2> DEFINE A == {x} \X (1 .. f[x])
             B == Units(f, S \ {x})
  <2>1. Units(f, S) = A \cup B /\ A \cap B = {}
    BY DEF Units
  <2>2. IsFiniteSet(A) /\ Cardinality(A) = f[x] /\ f[x] \in Nat
    BY UnitsOfOne
  <2>3. IsFiniteSet(B) /\ Cardinality(B) \in Nat
    BY <1>1
  <2> HIDE DEF A, B
  <2>4. Cardinality(A \cup B) = Cardinality(A) + Cardinality(B) - Cardinality(A \cap B)
    BY <2>2, <2>3, FS_Union
  <2>5. Cardinality(A \cap B) = 0
    BY <2>1, FS_EmptySet
  <2> QED
    BY <2>1, <2>2, <2>3, <2>4, <2>5 DEF B
<1> QED
  BY <1>1, <1>2

(* A sum is the number of units: that a function with the equations of the *)
(* fold exists, and that it counts them.                                   *)
LEMMA SumAdds ==
    ASSUME NEW f, NEW S, IsFiniteSet(S), \A x \in S : f[x] \in Nat
    PROVE  /\ SumOf(f, S) \in Nat /\ SumOf(f, {}) = 0
           /\ \A x \in S : SumOf(f, S) = f[x] + SumOf(f, S \ {x})
<1>1. ASSUME NEW T, T \subseteq S PROVE SumOf(f, T) = Cardinality(Units(f, T))
  <2> DEFINE IsSum(it) == it = [s \in SUBSET T |->
                                IF s = {} THEN 0
                                ELSE f[CHOOSE x \in s : TRUE] + it[s \ {CHOOSE x \in s : TRUE}]]
             iter == CHOOSE it : IsSum(it)
             count == [s \in SUBSET T |-> Cardinality(Units(f, s))]
  <2>1. SumOf(f, T) = iter[T]
    BY DEF SumOf, SumFunctionOnSet, FoldFunctionOnSet, MapThenFoldSet
  <2>a. \A s \in SUBSET T : IsFiniteSet(s) /\ \A x \in s : f[x] \in Nat
    BY <1>1, FS_Subset
  <2>b. \A s \in SUBSET T : \A x \in s :
           Cardinality(Units(f, s)) = f[x] + Cardinality(Units(f, s \ {x}))
    BY <2>a, UnitsAdd
  <2>c. Cardinality(Units(f, {})) = 0
    <3>1. Units(f, {}) = {}
      BY DEF Units
    <3> QED
      BY <3>1, FS_EmptySet
  <2>2. IsSum(count)
    <3>1. ASSUME NEW s \in SUBSET T, s # {}
          PROVE  Cardinality(Units(f, s)) = f[CHOOSE x \in s : TRUE]
                                            + Cardinality(Units(f, s \ {CHOOSE x \in s : TRUE}))
      BY <2>b, <3>1
    <3> QED
      BY <2>c, <3>1
  <2>3. IsSum(iter)
    BY <2>2
  <2>4. /\ iter[{}] = 0 /\ count[{}] = 0
        /\ \A s \in SUBSET T : s # {} =>
              \E x \in s : iter[s] = f[x] + iter[s \ {x}] /\ count[s] = f[x] + count[s \ {x}]
    <3> HIDE DEF iter, count
    <3>1. iter[{}] = 0 /\ count[{}] = 0
      BY <2>2, <2>3
    <3>2. ASSUME NEW s \in SUBSET T, s # {}
          PROVE  \E x \in s : iter[s] = f[x] + iter[s \ {x}] /\ count[s] = f[x] + count[s \ {x}]
      <4> DEFINE x == CHOOSE x \in s : TRUE
      <4>1. x \in s
        BY <3>2
      <4>2. iter[s] = f[x] + iter[s \ {x}]
        BY <2>3, <3>2
      <4>3. count[s] = f[x] + count[s \ {x}]
        BY <2>2, <3>2
      <4> HIDE DEF x
      <4> QED
        BY <4>1, <4>2, <4>3
    <3> QED
      BY <3>1, <3>2
  <2>5. count[T] = Cardinality(Units(f, T))
    OBVIOUS
  <2> DEFINE Agree == {s \in SUBSET T : iter[s] = count[s]}
  <2> HIDE DEF iter, count
  <2>6. {} \in Agree /\ \A s \in SUBSET T : s # {} /\ (\A x \in s : s \ {x} \in Agree) => s \in Agree
    BY <2>4
  <2>7. IsFiniteSet(T) /\ Agree \in SUBSET (SUBSET T)
    BY <2>a
  <2> HIDE DEF Agree
  <2>8. T \in Agree
    BY <2>6, <2>7, BySmallerSets
  <2> QED
    BY <2>1, <2>5, <2>8 DEF Agree
<1>2. Units(f, {}) = {}
  BY DEF Units
<1>3. \A x \in S : S \ {x} \subseteq S
  OBVIOUS
<1>4. \A x \in S : SumOf(f, S \ {x}) = Cardinality(Units(f, S \ {x}))
  BY <1>1, <1>3
<1>5. SumOf(f, S) = Cardinality(Units(f, S)) /\ SumOf(f, {}) = Cardinality(Units(f, {}))
  BY <1>1
<1> QED
  BY <1>2, <1>4, <1>5, UnitsAdd, FS_EmptySet

(* The sum of the same number for each. *)
LEMMA SumOfEqual ==
    ASSUME NEW f, NEW S, IsFiniteSet(S), NEW m \in Nat, \A x \in S : f[x] = m
    PROVE  SumOf(f, S) = m * Cardinality(S)
<1>1. ASSUME NEW s \in SUBSET S
      PROVE  /\ IsFiniteSet(s) /\ Cardinality(s) \in Nat /\ SumOf(f, {}) = 0
             /\ \A x \in s : /\ SumOf(f, s) = m + SumOf(f, s \ {x})
                             /\ Cardinality(s) = Cardinality(s \ {x}) + 1
                             /\ Cardinality(s \ {x}) \in Nat
  <2>1. IsFiniteSet(s) /\ \A x \in s : f[x] = m /\ f[x] \in Nat
    BY FS_Subset
  <2>2. Cardinality(s) \in Nat
    BY <2>1, FS_CardinalityType
  <2>3. \A x \in s : IsFiniteSet(s \ {x}) /\ Cardinality(s \ {x}) = Cardinality(s) - 1
    BY <2>1, FS_RemoveElement
  <2>4. \A x \in s : Cardinality(s \ {x}) \in Nat
    BY <2>3, FS_CardinalityType
  <2>5. SumOf(f, {}) = 0 /\ \A x \in s : SumOf(f, s) = f[x] + SumOf(f, s \ {x})
    BY <2>1, SumAdds
  <2>6. \A x \in s : SumOf(f, s) = m + SumOf(f, s \ {x})
    BY <2>1, <2>5
  <2>7. ASSUME NEW x \in s PROVE Cardinality(s) = Cardinality(s \ {x}) + 1
    <3>1. Cardinality(s \ {x}) = Cardinality(s) - 1
      BY <2>3
    <3> QED
      BY <2>2, <3>1
  <2> QED
    BY <2>1, <2>2, <2>4, <2>5, <2>6, <2>7
<1> DEFINE P == {s \in SUBSET S : SumOf(f, s) = m * Cardinality(s)}
<1>2. {} \in P
  <2>1. m * 0 = 0
    OBVIOUS
  <2> QED
    BY <1>1, <2>1, FS_EmptySet
<1>3. ASSUME NEW s \in SUBSET S, s # {}, \A x \in s : s \ {x} \in P PROVE s \in P
  <2>1. PICK x \in s : TRUE
    BY <1>3
  <2>2. /\ SumOf(f, s) = m + SumOf(f, s \ {x}) /\ Cardinality(s) = Cardinality(s \ {x}) + 1
        /\ Cardinality(s \ {x}) \in Nat
    BY <1>1
  <2>3. SumOf(f, s \ {x}) = m * Cardinality(s \ {x})
    BY <1>3
  <2>4. \A k \in Nat : m * (k + 1) = m + m * k
    OBVIOUS
  <2> QED
    BY <2>2, <2>3, <2>4
<1>4. P \in SUBSET (SUBSET S)
  OBVIOUS
<1> HIDE DEF P
<1>5. S \in P
  BY <1>2, <1>3, <1>4, BySmallerSets
<1> QED
  BY <1>5 DEF P

(* The sum of the squares of g * c + h, which is at least k for all in F.  *)
Squared(c) == [u \in DOMAIN c |-> c[u] * c[u]]

LEMMA SumOfSquares ==
    ASSUME NEW c, IsFiniteSet(DOMAIN c), c \in [DOMAIN c -> Nat],
           NEW g \in Int, NEW h \in Int, NEW k \in Nat, NEW F \in SUBSET DOMAIN c,
           \A u \in F : (g * c[u] + h) * (g * c[u] + h) >= k
    PROVE  g * g * SumOf(Squared(c), DOMAIN c) + 2 * g * h * SumOf(c, DOMAIN c)
              + h * h * Cardinality(DOMAIN c) >= k * Cardinality(F)
<1> DEFINE W(s) == g * g * SumOf(Squared(c), s) + 2 * g * h * SumOf(c, s) + h * h * Cardinality(s)
           S == DOMAIN c
           P == {s \in SUBSET S : W(s) >= k * Cardinality(s \cap F)}
<1>0. \A u \in S : c[u] \in Nat /\ Squared(c)[u] = c[u] * c[u] /\ Squared(c)[u] \in Nat
  <2>1. \A n \in Nat : n * n \in Nat
    OBVIOUS
  <2> QED
    BY <2>1 DEF Squared
<1>1. ASSUME NEW s \in SUBSET S
      PROVE  /\ SumOf(c, s) \in Nat /\ SumOf(Squared(c), s) \in Nat /\ Cardinality(s) \in Nat
             /\ SumOf(c, {}) = 0 /\ SumOf(Squared(c), {}) = 0
             /\ \A x \in s : /\ SumOf(c, s) = c[x] + SumOf(c, s \ {x})
                             /\ SumOf(Squared(c), s) = c[x] * c[x] + SumOf(Squared(c), s \ {x})
                             /\ Cardinality(s) = Cardinality(s \ {x}) + 1
  <2>1. IsFiniteSet(s) /\ (\A x \in s : c[x] \in Nat) /\ (\A x \in s : Squared(c)[x] \in Nat)
    BY <1>0, FS_Subset
  <2>2. Cardinality(s) \in Nat
    BY <2>1, FS_CardinalityType
  <2>3. \A x \in s : IsFiniteSet(s \ {x}) /\ Cardinality(s \ {x}) = Cardinality(s) - 1
    BY <2>1, FS_RemoveElement
  <2>4. /\ SumOf(c, s) \in Nat /\ SumOf(c, {}) = 0
        /\ \A x \in s : SumOf(c, s) = c[x] + SumOf(c, s \ {x})
    BY <2>1, SumAdds
  <2>5. /\ SumOf(Squared(c), s) \in Nat /\ SumOf(Squared(c), {}) = 0
        /\ \A x \in s : SumOf(Squared(c), s) = Squared(c)[x] + SumOf(Squared(c), s \ {x})
    BY <2>1, SumAdds
  <2>6. \A x \in s : SumOf(Squared(c), s) = c[x] * c[x] + SumOf(Squared(c), s \ {x})
    <3>1. \A x \in s : Squared(c)[x] = c[x] * c[x]
      BY <1>0
    <3> QED
      BY <2>5, <3>1, Zenon
  <2>7. ASSUME NEW x \in s PROVE Cardinality(s) = Cardinality(s \ {x}) + 1
    <3>1. Cardinality(s \ {x}) = Cardinality(s) - 1
      BY <2>3
    <3> QED
      BY <2>2, <3>1
  <2> QED
    BY <2>2, <2>4, <2>5, <2>6, <2>7, Zenon
<1>2. {} \in P
  <2>1. W({}) = 0
    BY <1>1, FS_EmptySet
  <2>2. {} \cap F = {}
    OBVIOUS
  <2>3. k * 0 = 0
    OBVIOUS
  <2> HIDE DEF W
  <2> QED
    BY <2>1, <2>2, <2>3, FS_EmptySet
<1>3. ASSUME NEW s \in SUBSET S, s # {}, \A x \in s : s \ {x} \in P PROVE s \in P
  <2>1. PICK x \in s : TRUE
    BY <1>3
  <2> DEFINE y == g * c[x] + h
  <2>2. W(s) = W(s \ {x}) + y * y
    <3>1. s \ {x} \in SUBSET S
      OBVIOUS
    <3>2. /\ SumOf(c, s \ {x}) \in Nat /\ SumOf(Squared(c), s \ {x}) \in Nat
          /\ Cardinality(s \ {x}) \in Nat /\ c[x] \in Nat
      BY <1>0, <1>1, <3>1
    <3>3. /\ SumOf(c, s) = c[x] + SumOf(c, s \ {x})
          /\ SumOf(Squared(c), s) = c[x] * c[x] + SumOf(Squared(c), s \ {x})
          /\ Cardinality(s) = Cardinality(s \ {x}) + 1
      BY <1>1
    <3>4. \A v, a, q, n \in Nat :
             g * g * (v * v + q) + 2 * g * h * (v + a) + h * h * (n + 1)
               = (g * g * q + 2 * g * h * a + h * h * n) + (g * v + h) * (g * v + h)
      OBVIOUS
    <3> QED
      BY <3>2, <3>3, <3>4
  <2>3. y \in Int /\ y * y >= 0
    <3>1. g * c[x] + h \in Int
      BY <1>0
    <3> HIDE DEF y
    <3>2. \A z \in Int : z * z >= 0
      OBVIOUS
    <3> QED
      BY <3>1, <3>2 DEF y
  <2>4. W(s \ {x}) >= k * Cardinality((s \ {x}) \cap F)
    BY <1>3
  <2>5. W(s \ {x}) \in Int /\ W(s) \in Int
    <3>1. s \ {x} \in SUBSET S
      OBVIOUS
    <3> QED
      BY <1>1, <3>1
  <2>6. Cardinality(s \cap F) \in Nat /\ Cardinality((s \ {x}) \cap F) \in Nat
    <3>1. s \cap F \in SUBSET S /\ (s \ {x}) \cap F \in SUBSET S
      OBVIOUS
    <3> QED
      BY <1>1, <3>1
  <2>7. CASE x \notin F
    <3>1. (s \ {x}) \cap F = s \cap F
      BY <2>7
    <3> DEFINE n == k * Cardinality(s \cap F)
               yy == y * y
    <3>2. yy \in Int /\ yy >= 0 /\ W(s) = W(s \ {x}) + yy
      BY <2>2, <2>3
    <3>3. n \in Int /\ W(s \ {x}) >= n
      <4>1. \A i \in Nat : k * i \in Int
        OBVIOUS
      <4> HIDE DEF W
      <4> QED
        BY <2>4, <2>6, <3>1, <4>1
    <3> HIDE DEF W, y, n, yy
    <3>4. W(s) >= n
      BY <2>5, <3>2, <3>3
    <3> QED
      BY <3>4 DEF n
  <2>8. CASE x \in F
    <3>1. Cardinality(s \cap F) = Cardinality((s \ {x}) \cap F) + 1
      <4>1. s \cap F \in SUBSET S /\ x \in s \cap F /\ (s \cap F) \ {x} = (s \ {x}) \cap F
        BY <2>8
      <4> QED
        BY <1>1, <4>1
    <3>2. y * y >= k
      BY <2>8
    <3> HIDE DEF W, y
    <3>3. \A n \in Nat : k * (n + 1) = k * n + k /\ k * n \in Int
      OBVIOUS
    <3> DEFINE n == Cardinality((s \ {x}) \cap F)
               yy == y * y
    <3>4. n \in Nat /\ W(s \ {x}) >= k * n /\ yy >= k /\ yy \in Int /\ W(s) = W(s \ {x}) + yy
      BY <2>2, <2>3, <2>4, <2>6, <3>2
    <3> HIDE DEF n, yy
    <3>5. W(s) >= k * (n + 1)
      BY <2>5, <3>3, <3>4
    <3> QED
      BY <3>1, <3>5 DEF n
  <2> QED
    BY <2>7, <2>8
<1>4. P \in SUBSET (SUBSET S)
  OBVIOUS
<1> HIDE DEF P
<1>5. S \in P
  BY <1>2, <1>3, <1>4, BySmallerSets
<1>6. S \cap F = F
  OBVIOUS
<1> QED
  BY <1>5, <1>6 DEF P

-----------------------------------------------------------------------------
(* Who is an outlier. *)

Above(c, u) == Cardinality(DOMAIN c) * c[u] - Total(c)
Spread(c)   == Cardinality(DOMAIN c) * Squares(c) - Total(c) * Total(c)

LEMMA SumsOf ==
    ASSUME NEW c, IsFiniteSet(DOMAIN c), c \in [DOMAIN c -> Nat]
    PROVE  /\ Total(c) = SumOf(c, DOMAIN c) /\ Squares(c) = SumOf(Squared(c), DOMAIN c)
           /\ Total(c) \in Nat /\ Squares(c) \in Nat /\ Cardinality(DOMAIN c) \in Nat
           /\ Spread(c) \in Int /\ \A u \in DOMAIN c : Above(c, u) \in Int
<1>1. Total(c) = SumOf(c, DOMAIN c) /\ Squares(c) = SumOf(Squared(c), DOMAIN c)
  BY DEF Total, Squares, SumOf, SumFunction, Squared
<1>2. \A u \in DOMAIN c : c[u] \in Nat /\ Squared(c)[u] \in Nat
  <2>1. \A n \in Nat : n * n \in Nat
    OBVIOUS
  <2> QED
    BY <2>1 DEF Squared
<1>3. SumOf(c, DOMAIN c) \in Nat /\ SumOf(Squared(c), DOMAIN c) \in Nat
  BY <1>2, SumAdds
<1>4. Cardinality(DOMAIN c) \in Nat
  BY FS_CardinalityType
<1>5. \A n, t, q \in Nat : n * q - t * t \in Int
  OBVIOUS
<1>6. \A n, t, q \in Nat : n * q - t \in Int
  OBVIOUS
<1>7. Spread(c) \in Int
  BY <1>1, <1>3, <1>4, <1>5 DEF Spread
<1>8. \A u \in DOMAIN c : Above(c, u) \in Int
  BY <1>1, <1>2, <1>3, <1>4, <1>6 DEF Above
<1> QED
  BY <1>1, <1>3, <1>4, <1>7, <1>8

(* All counts are the same, and nobody is above the mean; or they spread.  *)
LEMMA SpreadOfEqual ==
    ASSUME NEW c, IsFiniteSet(DOMAIN c), c \in [DOMAIN c -> Nat],
           \A u, v \in DOMAIN c : c[u] = c[v]
    PROVE  \A u \in DOMAIN c : Above(c, u) = 0 /\ Spread(c) = 0
<1> SUFFICES ASSUME NEW u \in DOMAIN c PROVE Above(c, u) = 0 /\ Spread(c) = 0
  OBVIOUS
<1> DEFINE m == c[u]
           n == Cardinality(DOMAIN c)
<1>1. m \in Nat /\ m * m \in Nat /\ n \in Nat
  BY FS_CardinalityType
<1>2. \A v \in DOMAIN c : c[v] = m /\ Squared(c)[v] = m * m
  BY DEF Squared
<1>3. Total(c) = m * n /\ Squares(c) = (m * m) * n
  <2> HIDE DEF m
  <2> QED
    BY <1>1, <1>2, SumOfEqual, SumsOf
<1>4. \A a, b \in Nat : /\ b * a - a * b = 0
                        /\ b * ((a * a) * b) - (a * b) * (a * b) = 0
  OBVIOUS
<1> HIDE DEF n
<1>5. n * m - Total(c) = 0 /\ n * Squares(c) - Total(c) * Total(c) = 0
  <2> HIDE DEF m
  <2> QED
    BY <1>1, <1>3, <1>4
<1> QED
  BY <1>5 DEF Above, Spread, m, n

LEMMA SpreadOfOthers ==
    ASSUME NEW c, IsFiniteSet(DOMAIN c), c \in [DOMAIN c -> Nat],
           NEW u \in DOMAIN c, NEW v \in DOMAIN c, c[u] # c[v]
    PROVE  Spread(c) > 0 /\ Cardinality(DOMAIN c) > 1
<1> DEFINE n == Cardinality(DOMAIN c)
           t == Total(c)
           q == Squares(c)
<1>1. n \in Nat /\ t \in Nat /\ q \in Nat
  BY SumsOf
<1>2. n > 1
  <2>1. IsFiniteSet({u, v}) /\ Cardinality({u, v}) = 2
    <3>1. u # v
      OBVIOUS
    <3>2. IsFiniteSet({u}) /\ Cardinality({u}) = 1
      BY FS_Singleton
    <3>3. IsFiniteSet({u} \cup {v}) /\ Cardinality({u} \cup {v}) = 1 + 1
      BY <3>1, <3>2, FS_AddElement
    <3>4. {u} \cup {v} = {u, v}
      OBVIOUS
    <3> QED
      BY <3>3, <3>4
  <2>2. {u, v} \in SUBSET DOMAIN c
    OBVIOUS
  <2>3. 2 =< n
    BY <2>1, <2>2, FS_Subset
  <2> HIDE DEF n
  <2> QED
    BY <1>1, <2>3
<1>3. ASSUME NEW w \in DOMAIN c PROVE n * Spread(c) >= Above(c, w) * Above(c, w)
  <2> DEFINE a == n * c[w] - t
             k == a * a
  <2>1. a \in Int /\ k \in Nat
    <3>1. c[w] \in Nat
      OBVIOUS
    <3>2. \A x, y, z \in Nat : x * y - z \in Int
      OBVIOUS
    <3>3. \A x \in Int : x * x \in Nat
      OBVIOUS
    <3> HIDE DEF n, t
    <3>4. a \in Int
      BY <1>1, <3>1, <3>2
    <3> HIDE DEF a
    <3> QED
      BY <3>3, <3>4
  <2>2. n \in Int /\ 0 - t \in Int
    BY <1>1
  <2>3. \A x \in {w} : (n * c[x] + (0 - t)) * (n * c[x] + (0 - t)) >= k
    <3>1. n * c[w] + (0 - t) = a
      <4>1. \A x, y, z \in Nat : x * y + (0 - z) = x * y - z
        OBVIOUS
      <4> HIDE DEF n, t
      <4> QED
        BY <1>1, <4>1
    <3> HIDE DEF a
    <3>2. k >= k
      BY <2>1
    <3> QED
      BY <3>1, <3>2
  <2>4. {w} \in SUBSET DOMAIN c /\ Cardinality({w}) = 1
    BY FS_Singleton
  <2> HIDE DEF k, n, t
  <2>5. n * n * SumOf(Squared(c), DOMAIN c) + 2 * n * (0 - t) * SumOf(c, DOMAIN c)
           + (0 - t) * (0 - t) * Cardinality(DOMAIN c) >= k * Cardinality({w})
    BY <2>1, <2>2, <2>3, <2>4, SumOfSquares
  <2>6. SumOf(Squared(c), DOMAIN c) = q /\ SumOf(c, DOMAIN c) = t /\ Cardinality(DOMAIN c) = n
    BY SumsOf DEF n, t
  <2> HIDE DEF q
  <2>7. n * n * q + 2 * n * (0 - t) * t + (0 - t) * (0 - t) * n >= k
    BY <2>1, <2>4, <2>5, <2>6
  <2>8. \A x, y, z \in Nat : x * x * z + 2 * x * (0 - y) * y + (0 - y) * (0 - y) * x
                               = x * (x * z - y * y)
    OBVIOUS
  <2>9. n * (n * q - t * t) >= k
    BY <1>1, <2>7, <2>8
  <2> QED
    BY <2>9 DEF Spread, Above, k, n, t, q
<1>4. Spread(c) \in Int /\ Above(c, u) \in Int /\ Above(c, v) \in Int
  BY SumsOf
<1>5. CASE Spread(c) =< 0
  <2>1. \A s, x \in Int : s =< 0 /\ n * s >= x * x => x = 0
    <3> HIDE DEF n
    <3>1. \A s \in Int : s =< 0 => n * s =< 0
      BY <1>1
    <3>2. \A x \in Int : x * x =< 0 => x = 0
      OBVIOUS
    <3>3. \A x, s \in Int : n * s \in Int /\ x * x \in Int
      BY <1>1
    <3> QED
      BY <3>1, <3>2, <3>3
  <2>2. Above(c, u) = 0 /\ Above(c, v) = 0
    BY <1>3, <1>4, <1>5, <2>1
  <2>3. \A x, y \in Nat : n * x - t = 0 /\ n * y - t = 0 => x = y
    <3> HIDE DEF n, t
    <3>1. \A x, y \in Nat : x < y => n * x < n * y
      <4>1. \A x, y \in Nat : x < y => n * (y - x) > 0 /\ n * (y - x) = n * y - n * x
        BY <1>1, <1>2
      <4>2. \A x \in Nat : n * x \in Nat
        BY <1>1
      <4> QED
        BY <4>1, <4>2
    <3>2. \A x \in Nat : n * x \in Nat
      BY <1>1
    <3>3. \A x, y \in Nat : n * x = n * y => x = y
      BY <3>1, <3>2
    <3> QED
      BY <1>1, <3>2, <3>3
  <2>4. c[u] \in Nat /\ c[v] \in Nat
    OBVIOUS
  <2> QED
    BY <2>2, <2>3, <2>4 DEF Above
<1> QED
  BY <1>2, <1>4, <1>5

(* Chebyshev's inequality, for one side: who is at least sqrt(num / den)   *)
(* deviations above the mean are not more than one of 1 + num / den.       *)
LEMMA FewAreAbove ==
    ASSUME NEW c, IsFiniteSet(DOMAIN c), c \in [DOMAIN c -> Nat], Spread(c) > 0,
           NEW num \in Nat \ {0}, NEW den \in Nat \ {0}, NEW F \in SUBSET DOMAIN c,
           \A u \in F : /\ Above(c, u) >= 0
                        /\ den * Above(c, u) * Above(c, u) >= num * Spread(c)
    PROVE  (num + den) * Cardinality(F) =< den * Cardinality(DOMAIN c)
<1> DEFINE n == Cardinality(DOMAIN c)
           t == Total(c)
           q == Squares(c)
           s == Spread(c)
<1>1. n \in Nat /\ t \in Nat /\ q \in Nat /\ s \in Nat /\ s > 0 /\ s = n * q - t * t
  BY SumsOf DEF Spread
<1>2. IsFiniteSet(F) /\ Cardinality(F) \in Nat
  BY FS_Subset, FS_CardinalityType
<1>3. CASE F = {}
  <2>1. Cardinality(F) = 0
    BY <1>3, FS_EmptySet
  <2>2. \A x, y, z \in Nat : (x + y) * 0 =< y * z
    OBVIOUS
  <2> QED
    BY <1>1, <2>1, <2>2
<1>4. CASE F # {}
  <2> DEFINE Far == {Above(c, u) : u \in F}
  <2>1. PICK a \in Far : \A x \in Far : a =< x
    <3>1. Far \in SUBSET Nat
      BY SumsOf
    <3>2. Far # {}
      BY <1>4
    <3> HIDE DEF Far
    <3>3. PICK a \in Far : \A x \in Far : ~(<<x, a>> \in OpToRel(<, Nat))
      <4> HIDE DEF OpToRel
      <4> QED
        BY <3>1, <3>2, NatLessThanWellFounded, WFMin
    <3>4. \A x \in Far : ~(x < a)
      BY <3>1, <3>3 DEF OpToRel
    <3>5. \A x \in Far : x \in Nat
      BY <3>1
    <3> QED
      BY <3>4, <3>5
  <2>2. a \in Nat /\ den * a * a >= num * s /\ \A u \in F : Above(c, u) \in Nat /\ a =< Above(c, u)
    BY <2>1, SumsOf
  <2> DEFINE g == a * n
             h == s - a * t
             k == (a * a + s) * (a * a + s)
  <2> HIDE DEF Far, n, t, q, s
  <2>3. g \in Int /\ h \in Int /\ k \in Nat
    <3>1. \A x, y, z \in Nat : x * y \in Int /\ x - y * z \in Int
                               /\ (x * x + y) * (x * x + y) \in Nat
      OBVIOUS
    <3> QED
      BY <1>1, <2>2, <3>1
  <2>4. ASSUME NEW u \in F PROVE (g * c[u] + h) * (g * c[u] + h) >= k
    <3> DEFINE b == n * c[u] - t
    <3>1. b \in Nat /\ a =< b
      BY <2>2 DEF Above, n, t
    <3>2. c[u] \in Nat
      OBVIOUS
    <3>3. g * c[u] + h = a * b + s
      <4>1. \A w, x, y, z, r \in Nat : (w * x) * y + (r - w * z) = w * (x * y - z) + r
        OBVIOUS
      <4> QED
        BY <1>1, <2>2, <3>2, <4>1
    <3> HIDE DEF b
    <3>4. \A x, y, z \in Nat : x =< y => (x * y + z) * (x * y + z) >= (x * x + z) * (x * x + z)
      <4> TAKE x, y, z \in Nat
      <4> HAVE x =< y
      <4> DEFINE p == x * x + z
                 r == x * y + z
      <4>1. x * x =< x * y
        OBVIOUS
      <4>2. p \in Nat /\ r \in Nat /\ p =< r
        BY <4>1
      <4> HIDE DEF p, r
      <4>3. p * p =< r * r
        <5>1. p * p =< p * r
          BY <4>2
        <5>2. p * r =< r * r
          BY <4>2
        <5> QED
          BY <4>2, <5>1, <5>2
      <4> QED
        BY <4>2, <4>3 DEF p, r
    <3> HIDE DEF g, h
    <3> QED
      BY <1>1, <2>2, <3>1, <3>3, <3>4
  <2> HIDE DEF g, h, k
  <2>5. g * g * SumOf(Squared(c), DOMAIN c) + 2 * g * h * SumOf(c, DOMAIN c)
           + h * h * Cardinality(DOMAIN c) >= k * Cardinality(F)
    BY <2>3, <2>4, SumOfSquares
  <2>6. SumOf(Squared(c), DOMAIN c) = q /\ SumOf(c, DOMAIN c) = t /\ Cardinality(DOMAIN c) = n
    BY SumsOf DEF n, t, q
  <2> DEFINE far == a * a + s
             m == Cardinality(F)
  <2>7. g * g * q + 2 * g * h * t + h * h * n = (n * s) * far
    <3>1. \A x, y, z, w, r \in Int : r = y * w - z * z =>
             (x * y) * (x * y) * w + 2 * (x * y) * (r - x * z) * z + (r - x * z) * (r - x * z) * y
               = (y * r) * (x * x + r)
      OBVIOUS
    <3> QED
      BY <1>1, <2>2, <3>1 DEF g, h
  <2>8. far \in Nat /\ far > 0 /\ m \in Nat /\ n * s \in Nat
    <3>1. \A x, y \in Nat : y > 0 => x * x + y \in Nat /\ x * x + y > 0
      OBVIOUS
    <3>2. \A x, y \in Nat : x * y \in Nat
      OBVIOUS
    <3> QED
      BY <1>1, <1>2, <2>2, <3>1, <3>2
  <2>9. (n * s) * far >= (far * far) * m
    BY <2>5, <2>6, <2>7 DEF k
  <2> HIDE DEF far, m
  <2>10. n * s >= far * m
    <3>1. \A x, y, z \in Nat : y > 0 /\ x * y >= (y * y) * z => x >= y * z
      <4> TAKE x, y, z \in Nat
      <4> HAVE y > 0 /\ x * y >= (y * y) * z
      <4> DEFINE w == y * z
      <4>1. w \in Nat /\ (y * y) * z = w * y
        OBVIOUS
      <4> HIDE DEF w
      <4>2. x * y >= w * y
        BY <4>1
      <4>3. ~(x < w)
        BY <4>1, <4>2
      <4> QED
        BY <4>1, <4>3 DEF w
    <3> QED
      BY <2>8, <2>9, <3>1
  <2>11. den * far >= (num + den) * s
    <3>1. \A x, y, z, w \in Nat : x * y * y >= z * w => x * (y * y + w) >= (z + x) * w
      OBVIOUS
    <3> QED
      BY <1>1, <2>2, <3>1 DEF far
  <2>12. \A x, y, z, w, v \in Nat :
            z > 0 /\ y * z >= w * v /\ x * w >= (num + x) * z => (num + x) * v =< x * y
    <3> TAKE x, y, z, w, v \in Nat
    <3> HAVE z > 0 /\ y * z >= w * v /\ x * w >= (num + x) * z
    <3> DEFINE l == num + x
    <3>0. l \in Nat
      OBVIOUS
    <3> HIDE DEF l
    <3>1. x * (y * z) >= x * (w * v)
      <4> DEFINE i == y * z
                 j == w * v
      <4>1. i \in Nat /\ j \in Nat /\ i >= j
        OBVIOUS
      <4> HIDE DEF i, j
      <4> QED
        BY <4>1 DEF i, j
    <3>2. (x * w) * v >= (l * z) * v
      <4> DEFINE i == x * w
                 j == l * z
      <4>1. i \in Nat /\ j \in Nat /\ i >= j
        BY <3>0 DEF l
      <4> HIDE DEF i, j
      <4> QED
        BY <4>1 DEF i, j
    <3> DEFINE i == x * y
               j == l * v
    <3>3. i \in Nat /\ j \in Nat /\ x * (y * z) = i * z /\ x * (w * v) = (x * w) * v
          /\ (l * z) * v = j * z
      BY <3>0
    <3>4. (x * w) * v \in Nat
      OBVIOUS
    <3> HIDE DEF i, j
    <3>5. i * z >= j * z
      BY <3>1, <3>2, <3>3, <3>4
    <3>6. ~(i < j)
      BY <3>3, <3>5
    <3> QED
      BY <3>3, <3>6 DEF i, j, l
  <2>13. (num + den) * m =< den * n
    BY <1>1, <2>8, <2>10, <2>11, <2>12
  <2> QED
    BY <2>13 DEF m, n
<1> QED
  BY <1>3, <1>4

(* However the counts are, either everybody is flagged, when all counts    *)
(* are equal, or at most one user of 1 + k^2, with k deviations: in each   *)
(* of the three scripts.                                                   *)
THEOREM OutliersCorrect == Spec => []FewAreOutliers
<1>1. TypeOK => FewAreOutliers
  <2> SUFFICES ASSUME TypeOK, profile # <<>> PROVE FewAreOutliers
    BY DEF FewAreOutliers
  <2> DEFINE n == Cardinality(DOMAIN profile)
             Few(flagged, num, den) ==
                IF \A u, v \in DOMAIN profile : profile[u] = profile[v]
                THEN flagged = DOMAIN profile
                ELSE (num + den) * Cardinality(flagged) =< den * n
  <2>1. IsFiniteSet(DOMAIN profile) /\ profile \in [DOMAIN profile -> Nat]
    BY RunsAssumption DEF TypeOK
  <2>2. /\ Total(profile) \in Nat /\ Squares(profile) \in Nat /\ n \in Nat
        /\ Spread(profile) \in Int /\ \A u \in DOMAIN profile : Above(profile, u) \in Int
    BY <2>1, SumsOf
  <2>3. ASSUME NEW num \in Nat \ {0}, NEW den \in Nat \ {0}, NEW sample \in BOOLEAN
        PROVE  Few(Outliers(profile, num, den, sample), num, den)
    <3> DEFINE F == Outliers(profile, num, den, sample)
    <3>1. F = {u \in DOMAIN profile :
                 /\ Above(profile, u) >= 0
                 /\ IF sample
                    THEN den * Above(profile, u) * Above(profile, u) * (n - 1)
                            >= num * n * Spread(profile)
                    ELSE den * Above(profile, u) * Above(profile, u) >= num * Spread(profile)}
      BY DEF Outliers, Above, Spread
    <3> HIDE DEF F, n
    <3>2. CASE \A u, v \in DOMAIN profile : profile[u] = profile[v]
      <4>1. \A u \in DOMAIN profile : Above(profile, u) = 0 /\ Spread(profile) = 0
        BY <2>1, <3>2, SpreadOfEqual
      <4>2. /\ den * 0 * 0 >= num * 0
            /\ den * 0 * 0 * (n - 1) >= num * n * 0
        BY <2>2
      <4>3. \A u \in DOMAIN profile : u \in F
        BY <3>1, <4>1, <4>2
      <4>4. F = DOMAIN profile
        BY <3>1, <4>3
      <4> QED
        BY <3>2, <4>4 DEF F
    <3>3. CASE ~\A u, v \in DOMAIN profile : profile[u] = profile[v]
      <4>1. Spread(profile) > 0 /\ n > 1
        BY <2>1, <3>3, SpreadOfOthers DEF n
      <4>2. \A x, m, s \in Nat :
               m > 1 /\ s > 0 /\ x * (m - 1) >= num * m * s => x >= num * s
        <5> TAKE x, m, s \in Nat
        <5> HAVE m > 1 /\ s > 0 /\ x * (m - 1) >= num * m * s
        <5> DEFINE y == num * s
        <5>1. y \in Nat /\ num * m * s = y * (m - 1) + y
          OBVIOUS
        <5> HIDE DEF y
        <5>2. x * (m - 1) >= y * (m - 1)
          <6>1. y * (m - 1) \in Nat /\ x * (m - 1) \in Nat
            BY <5>1
          <6> QED
            BY <5>1, <6>1
        <5>3. ~(x < y)
          BY <5>1, <5>2
        <5> QED
          BY <5>1, <5>3 DEF y
      <4>3. ASSUME NEW u \in F
            PROVE  /\ Above(profile, u) >= 0
                   /\ den * Above(profile, u) * Above(profile, u) >= num * Spread(profile)
        <5> DEFINE a == Above(profile, u)
                   x == den * a * a
        <5>1. a >= 0 /\ a \in Int
          BY <2>2, <3>1
        <5>2. x \in Nat
          <6>1. \A y \in Nat : den * y * y \in Nat
            OBVIOUS
          <6> HIDE DEF a
          <6> QED
            BY <5>1, <6>1
        <5> HIDE DEF x
        <5>3. IF sample THEN x * (n - 1) >= num * n * Spread(profile)
                        ELSE x >= num * Spread(profile)
          BY <3>1 DEF x
        <5>4. x >= num * Spread(profile)
          BY <2>2, <4>1, <4>2, <5>2, <5>3
        <5> QED
          BY <5>1, <5>4 DEF x
      <4>4. F \in SUBSET DOMAIN profile
        BY <3>1
      <4>5. (num + den) * Cardinality(F) =< den * n
        BY <2>1, <4>1, <4>3, <4>4, FewAreAbove DEF n
      <4> QED
        BY <3>3, <4>5 DEF F
    <3> QED
      BY <3>2, <3>3
  <2>4. /\ Few(CyberExperiment3(profile).sql, 9, 4)
        /\ Few(RunExperiment3(profile), 4, 1)
        /\ Few(RunCyberExperiment3(profile), 4, 1)
    <3>1. /\ CyberExperiment3(profile).sql = Outliers(profile, 9, 4, FALSE)
          /\ RunExperiment3(profile) = Outliers(profile, 4, 1, FALSE)
          /\ RunCyberExperiment3(profile) = Outliers(profile, 4, 1, TRUE)
      BY DEF CyberExperiment3, RunExperiment3, RunCyberExperiment3
    <3>2. 9 \in Nat \ {0} /\ 4 \in Nat \ {0} /\ 1 \in Nat \ {0}
      OBVIOUS
    <3> HIDE DEF Few
    <3> QED
      BY <2>3, <3>1, <3>2
  <2> QED
    BY <2>4 DEF FewAreOutliers
<1> QED
  BY <1>1, TypeCorrect, PTL

=============================================================================
