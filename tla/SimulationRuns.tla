--------------------------- MODULE SimulationRuns ---------------------------
(***************************************************************************)
(* simulate_data.py, run again and again, with and without --clear: the    *)
(* rows, documents, graph events and files with ids that its runs leave,   *)
(* and what experiments 1 and 3 of the three scripts find in them.         *)
(*                                                                         *)
(* Each part of main() commits to PostgreSQL, inserts its documents in     *)
(* MongoDB, copies to Neo4j, writes the ids it has injected to a file.     *)
(* What PostgreSQL and MongoDB raise ends the script; what Neo4j raises is *)
(* printed.  A clear deletes the rows and sets the sequences back, so the  *)
(* next run hands out the same ids.                                        *)
(*                                                                         *)
(* run is not stored anywhere: it tells the things of one run from those   *)
(* of another that have the same id.  Numbers up to 0 are those of users,  *)
(* cases, evidence and logs that are not simulated.                        *)
(***************************************************************************)
EXTENDS Integers, Sequences, FiniteSets, Functions

CONSTANTS
    NUsers,      \* N_USERS; N_CASES and the anomalies of a kind are 1
    MaxRuns,     \* bound: runs of the script
    MaxUploads,  \* bound: uploads of evidence, in all runs
    MaxFaults,   \* bound: what may go wrong
    Profiles     \* the counts of experiment 3 that are tried, functions of users

ASSUME RunsAssumption ==
    /\ NUsers \in Nat \ {0, 1}
    /\ MaxRuns \in Nat /\ MaxUploads \in Nat /\ MaxFaults \in Nat
    /\ \A p \in Profiles : IsFiniteSet(DOMAIN p) /\ p \in [DOMAIN p -> Nat]

VARIABLES
    at,       \* position in Script of the step that comes next; 0 when it does not run
    sql,      \* the tables of PostgreSQL
    seq,      \* the sequences of PostgreSQL
    mongo,    \* the documents
    graph,    \* Evidence nodes, CustodyEvent nodes, evidence with a mismatch event
    files,    \* sim_results/*.txt
    job,      \* the local variables of main() and of the part that runs
    profile,  \* the counts that experiment 3 looks at
    hist      \* history; undone are documents of rows that were rolled back

vars == <<at, sql, seq, mongo, graph, files, job, profile, hist>>

FileName == {"tamper", "break", "cycle", "insider"}

(* main(): the stages of its parts, one after another. *)
Script ==
    <<<<"clear", "sql">>, <<"clear", "log">>, <<"clear", "copy">>,
      <<"users", "sql">>, <<"users", "log">>,
      <<"cases", "sql">>, <<"cases", "log">>,
      <<"evidence", "sql">>, <<"evidence", "log">>,
      <<"custody", "sql">>, <<"custody", "log">>,
      <<"verify", "sql">>, <<"verify", "log">>,
      <<"sync", "copy">>,
      <<"access", "sql">>, <<"access", "log">>,
      <<"tamper", "sql">>, <<"tamper", "log">>, <<"tamper", "file">>,
      <<"break", "sql">>, <<"break", "log">>, <<"break", "copy">>, <<"break", "file">>,
      <<"cycle", "sql">>, <<"cycle", "log">>, <<"cycle", "copy">>, <<"cycle", "file">>,
      <<"insider", "sql">>, <<"insider", "log">>, <<"insider", "copy">>, <<"insider", "file">>>>

At(part, stage) == at # 0 /\ Script[at] = <<part, stage>>
Advance         == at' = IF at = Len(Script) THEN 0 ELSE at + 1

NoJob  == [users |-> {}, items |-> {}, docs |-> {}, rows |-> {}, found |-> {}]
NoRows == [users |-> {}, cases |-> {}, items |-> {}, rows |-> {}, marked |-> {},
           history |-> {}, access |-> {}]

Init ==
    /\ at = 0 /\ sql = NoRows /\ seq = [cases |-> 1, items |-> 1, rows |-> 1]
    /\ mongo = {} /\ graph = [nodes |-> {}, events |-> {}, mismatch |-> {}]
    /\ files = [f \in FileName |-> {}]
    /\ job = NoJob /\ profile = <<>>
    /\ hist = [runs |-> 0, uploads |-> 0, faults |-> 0, completed |-> {}, cleared |-> 0,
               unset |-> FALSE, unlogged |-> FALSE, unswept |-> FALSE, undone |-> {},
               filed |-> [f \in FileName |-> 0]]

MayFail == hist.faults < MaxFaults

Doc(kind, ids)   == {[kind |-> kind, id |-> i, run |-> hist.runs] : i \in ids}
Thing(ids)       == {[id |-> i, run |-> hist.runs] : i \in ids}
IdsOf(things)    == {x.id : x \in things}
Row(id, item, user, kind) ==
    [id |-> id, run |-> hist.runs, item |-> item, user |-> user, kind |-> kind]

LastId(things) == CHOOSE n \in {0} \cup IdsOf(things) : \A i \in IdsOf(things) : i =< n

-----------------------------------------------------------------------------
Start(clear) ==
    /\ at = 0 /\ hist.runs < MaxRuns /\ hist.uploads < MaxUploads /\ profile = <<>>
    /\ hist' = [hist EXCEPT !.runs = @ + 1]
    /\ at' = IF clear THEN 1 ELSE 4
    /\ job' = NoJob
    /\ UNCHANGED <<sql, seq, mongo, graph, files, profile>>

(* A statement raises, or the process is killed: what is not committed is  *)
(* lost.                                                                   *)
Stop ==
    /\ at # 0 /\ MayFail
    /\ at' = 0
    /\ hist' = [hist EXCEPT !.faults = @ + 1]
    /\ UNCHANGED <<sql, seq, mongo, graph, files, job, profile>>

(* clear_sim_data, up to the commit: everything simulated is deleted, and  *)
(* the sequences are set behind what is left.                              *)
ClearTables ==
    /\ At("clear", "sql")
    /\ sql' = NoRows
    /\ seq' = [cases |-> 1, items |-> 1, rows |-> 1]
    /\ hist' = [hist EXCEPT !.cleared = hist.runs, !.unset = FALSE,
                            !.unlogged = TRUE, !.unswept = TRUE]
    /\ Advance
    /\ UNCHANGED <<mongo, graph, files, job, profile>>

(* A statement about the sequences raises: "non-fatal", but the rollback   *)
(* brings the rows back, while setval is not undone.                       *)
ClearRollsBack ==
    /\ At("clear", "sql") /\ MayFail
    /\ seq' \in {seq, [seq EXCEPT !.cases = 1], [seq EXCEPT !.cases = 1, !.items = 1],
                 [cases |-> 1, items |-> 1, rows |-> 1]}
    /\ hist' = [hist EXCEPT !.faults = @ + 1, !.unset = TRUE]
    /\ Advance
    /\ UNCHANGED <<sql, mongo, graph, files, job, profile>>

(* The order in which the collections are emptied, by kinds of documents. *)
Emptied == <<{"verify", "tamper", "grant"}, {"case", "insiderActivity"},
             {"custody", "insiderCustody"}, {"upload"}, {"login"},
             {"tamperAlert", "insiderAlert"}>>

ClearDocs ==
    /\ At("clear", "log")
    /\ \/ /\ mongo' = {}
          /\ hist' = [hist EXCEPT !.unlogged = FALSE]
          /\ Advance
       \/ /\ MayFail
          /\ \E n \in 1 .. Len(Emptied) - 1 :
                mongo' = {d \in mongo : \A k \in 1 .. n : d.kind \notin Emptied[k]}
          /\ hist' = [hist EXCEPT !.faults = @ + 1]
          /\ at' = 0
    /\ UNCHANGED <<sql, seq, graph, files, job, profile>>

(* Mutant: only Evidence nodes are deleted. *)
ClearGraphNodes ==
    /\ At("clear", "copy")
    /\ graph' = [graph EXCEPT !.nodes = {n \in graph.nodes : ~n.sim}]
    /\ hist' = [hist EXCEPT !.unswept = FALSE]
    /\ Advance
    /\ UNCHANGED <<sql, seq, mongo, files, job, profile>>

(* MATCH (n) WHERE n.sim = true DETACH DELETE n: an Evidence node has the  *)
(* flag only since sync_neo4j.                                             *)
ClearGraph ==
    /\ At("clear", "copy")
    /\ \/ /\ graph' = [nodes |-> {n \in graph.nodes : ~n.sim}, events |-> {}, mismatch |-> {}]
          /\ hist' = [hist EXCEPT !.unswept = FALSE]
       \/ /\ MayFail
          /\ hist' = [hist EXCEPT !.faults = @ + 1]
          /\ UNCHANGED graph
    /\ Advance
    /\ UNCHANGED <<sql, seq, mongo, files, job, profile>>

-----------------------------------------------------------------------------
(* create_users: user_id has no sequence. *)
CreateUsers ==
    LET ids == LastId(sql.users) + 1 .. LastId(sql.users) + NUsers IN
    /\ At("users", "sql")
    /\ sql' = [sql EXCEPT !.users = @ \cup Thing(ids)]
    /\ job' = [job EXCEPT !.users = ids, !.docs = Doc("login", ids)]
    /\ Advance
    /\ UNCHANGED <<seq, mongo, graph, files, profile, hist>>

(* create_cases: an id that is taken raises, and nextval is not undone. *)
CreateCases ==
    /\ At("cases", "sql")
    /\ seq' = [seq EXCEPT !.cases = @ + 1]
    /\ IF seq.cases \in IdsOf(sql.cases)
       THEN at' = 0 /\ UNCHANGED <<sql, job>>
       ELSE /\ sql' = [sql EXCEPT !.cases = @ \cup Thing({seq.cases})]
            /\ job' = [job EXCEPT !.docs = Doc("case", {seq.cases})]
            /\ Advance
    /\ UNCHANGED <<mongo, graph, files, profile, hist>>

(* create_evidence: how many uploads depends on the evidence the cases have *)
(* already.  Each row is committed; one that raises, as it does when its id *)
(* is taken, is skipped.  When the UPDATE after the upload of its file      *)
(* raises, the transaction is aborted, and the commit in the handler rolls  *)
(* the INSERT back without a word: the id, the documents and the node stay. *)
(* neo_add_evidence may fail for each.  The file in the blob store is left  *)
(* out: a row whose upload raises is committed without it, and is evidence  *)
(* like any other.                                                          *)
CreateEvidence ==
    LET Create(made, kept, nodes) ==
            /\ sql' = [sql EXCEPT !.items = @ \cup Thing(kept)]
            /\ job' = [job EXCEPT !.items = made, !.docs = Doc("upload", made)]
            /\ graph' = [graph EXCEPT !.nodes = @ \cup
                           {[id |-> i, sim |-> FALSE] : i \in nodes \ IdsOf(graph.nodes)}]
        Note(n, faults, lost) == hist' = [hist EXCEPT !.uploads = @ + n, !.faults = @ + faults,
                                                      !.undone = @ \cup lost]
    IN  /\ At("evidence", "sql")
        /\ \E n \in 1 .. MaxUploads - hist.uploads :
              LET free == (seq.items .. seq.items + n - 1) \ IdsOf(sql.items) IN
              /\ seq' = [seq EXCEPT !.items = @ + n]
              /\ \/ Create(free, free, free) /\ Note(n, 0, {})
                 \/ /\ MayFail
                    /\ \E i \in free :
                          LET others == free \ {i} IN
                          \/ Create(others, others, others) /\ Note(n, 1, {})
                          \/ Create(free, others, free) /\ Note(n, 1, Doc("upload", {i}))
                          \/ Create(free, free, others) /\ Note(n, 1, {})
        /\ Advance
        /\ UNCHANGED <<mongo, files, profile>>

(* INSERTs of one transaction: the rows get the next ids, or one of them   *)
(* is taken and the script ends.  earlier are rows that are copied along.  *)
InsertRows(new, docs, found, earlier) ==
    LET rows == {[r EXCEPT !.id = seq.rows + @] : r \in new} IN
    /\ seq' = [seq EXCEPT !.rows = @ + Cardinality(new)]
    /\ IF IdsOf(rows) \cap IdsOf(sql.rows) # {}
       THEN at' = 0 /\ UNCHANGED <<sql, job>>
       ELSE /\ sql' = [sql EXCEPT !.rows = @ \cup rows]
            /\ job' = [job EXCEPT !.rows = earlier \cup rows, !.found = found,
                                  !.docs = docs \cup {[kind |-> "custody", id |-> r.id,
                                                       run |-> r.run] : r \in
                                              {x \in rows : x.kind # "insider"}}]
            /\ Advance
    /\ UNCHANGED <<mongo, graph, files, profile, hist>>

(* The k-th smallest of the items gets the k-th row. *)
Rank(i, ids) == Cardinality({j \in ids : j < i})

(* Mutant: an id whose row is not there is passed over. *)
TodoThere == (job.items \cap IdsOf(sql.items)) \ {r.item : r \in job.rows}

(* The items of the run that have no chain yet. *)
Todo == job.items \ {r.item : r \in job.rows}

(* create_custody_events: one row stands for the chain of an item.  Every  *)
(* MONGO_BATCH_SIZE events are committed, and their documents inserted, in *)
(* the order of the items.                                                 *)
CreateCustodyEvents ==
    /\ At("custody", "sql")
    /\ \E batch \in SUBSET (Todo \cap IdsOf(sql.items)) :
          /\ batch # {} \/ Todo = {}
          /\ \A i \in batch, j \in Todo \ batch : i < j
          /\ InsertRows({Row(Rank(i, batch), i, 0, "custody") : i \in batch}, {}, {}, job.rows)

(* ev_info[ev_id] raises a KeyError for an id whose row is not there, and  *)
(* the events that are not committed yet are lost.                         *)
CustodyOfLostRow ==
    /\ At("custody", "sql")
    /\ LET lost == Todo \ IdsOf(sql.items) IN
       /\ lost # {}
       /\ seq' = [seq EXCEPT !.rows = @ + Cardinality({i \in Todo : \A j \in lost : i < j})]
    /\ at' = 0
    /\ UNCHANGED <<sql, mongo, graph, files, job, profile, hist>>

(* create_verification_history: a random result for a sample of the items. *)
CreateVerificationHistory ==
    /\ At("verify", "sql")
    /\ \E differ \in SUBSET job.items :
          sql' = [sql EXCEPT !.history = @ \cup Thing(differ)]
    /\ job' = [job EXCEPT !.docs = Doc("verify", job.items)]
    /\ Advance
    /\ UNCHANGED <<seq, mongo, graph, files, profile, hist>>

(* sync_neo4j CREATEs an event node for each row of custody_list, whatever *)
(* the graph has; what it copies until Neo4j raises stays.                 *)
SyncNeo4j ==
    LET Copy(nodes, rows, differ) ==
            [nodes    |-> {n \in graph.nodes : n.id \notin nodes}
                             \cup {[id |-> i, sim |-> TRUE] : i \in nodes},
             events   |-> graph.events \cup
                             {[id |-> r.id, runs |-> {r.run}, givers |-> {}, insider |-> FALSE]
                                 : r \in rows},
             mismatch |-> graph.mismatch \cup Thing(differ)]
        differ == {i \in job.items : i \in IdsOf(sql.history)}
    IN  /\ At("sync", "copy")
        /\ \/ graph' = Copy(job.items, job.rows, differ) /\ UNCHANGED hist
           \/ /\ MayFail
              /\ graph' \in {graph, Copy(job.items, {}, {}), Copy(job.items, job.rows, {})}
              /\ hist' = [hist EXCEPT !.faults = @ + 1]
        /\ Advance
        /\ UNCHANGED <<sql, seq, mongo, files, job, profile>>

(* Mutant: the documents of a case are inserted only when nothing raised. *)
CreateCaseAccessQuietly ==
    /\ At("access", "sql")
    /\ sql' = [sql EXCEPT !.access = @ \cup Thing(IdsOf(sql.users))]
    /\ job' = [job EXCEPT !.docs = {}]
    /\ Advance
    /\ UNCHANGED <<seq, mongo, graph, files, profile, hist>>

(* create_case_access: a grant that raises rolls back the grants of the    *)
(* case before it, whose documents are queued already.  All simulated      *)
(* users are external here, and granted access to the case of the run.     *)
CreateCaseAccess ==
    LET members == IdsOf(sql.users) IN
    /\ At("access", "sql")
    /\ \/ /\ sql' = [sql EXCEPT !.access = @ \cup Thing(members)]
          /\ job' = [job EXCEPT !.docs = Doc("grant", members)]
          /\ UNCHANGED hist
       \/ /\ MayFail
          /\ \E u \in members :
                LET before == {v \in members : v < u} IN
                /\ sql' = [sql EXCEPT !.access = @ \cup Thing(members \ (before \cup {u}))]
                /\ job' = [job EXCEPT !.docs = Doc("grant", members \ {u})]
                /\ hist' = [hist EXCEPT !.faults = @ + 1, !.undone = @ \cup Doc("grant", before)]
    /\ Advance
    /\ UNCHANGED <<seq, mongo, graph, files, profile>>

-----------------------------------------------------------------------------
(* inject_tampered_hashes *)
InjectTamperedHashes ==
    /\ At("tamper", "sql")
    /\ \E targets \in SUBSET job.items :
          /\ Cardinality(targets) = IF job.items = {} THEN 0 ELSE 1
          /\ sql' = [sql EXCEPT !.marked = @ \cup Thing(targets)]
          /\ job' = [job EXCEPT !.docs = Doc("tamper", targets) \cup Doc("tamperAlert", targets),
                                !.found = targets]
    /\ Advance
    /\ UNCHANGED <<seq, mongo, graph, files, profile, hist>>

(* inject_broken_chains draws from all simulated rows, those of earlier    *)
(* runs included.                                                          *)
InjectBrokenChains ==
    /\ At("break", "sql")
    /\ \/ \E r \in sql.rows, u \in job.users : InsertRows({Row(0, r.item, u, "gap")}, {}, {r.item}, {})
       \/ sql.rows = {} /\ InsertRows({}, {}, {}, {})

(* inject_cycles: one row stands for the three. *)
InjectCycles ==
    /\ At("cycle", "sql")
    /\ \/ \E i \in job.items, u \in job.users : InsertRows({Row(0, i, u, "cycle")}, {}, {i}, {})
       \/ job.items = {} /\ InsertRows({}, {}, {}, {})

(* Mutant: the alert is left out. *)
InsiderDocsQuietly(pattern, u, targets) ==
    IF pattern = "rapid_access" /\ targets # {} THEN Doc("insiderCustody", {u}) ELSE {}

(* The documents of one insider: his rows are told of in custody_logs,     *)
(* case_activity_logs or both, depending on the pattern.                   *)
InsiderDocs(pattern, u, targets) ==
    Doc("insiderAlert", {u})
        \cup (IF targets # {} /\ pattern # "cross_case" THEN Doc("insiderCustody", {u}) ELSE {})
        \cup (IF targets # {} /\ pattern # "off_hours" THEN Doc("insiderActivity", {u}) ELSE {})

(* inject_insider_misuse *)
InjectInsiderMisuse ==
    /\ At("insider", "sql")
    /\ \E u \in job.users, pattern \in {"rapid_access", "off_hours", "cross_case"} :
          InsertRows({Row(Rank(i, job.items), i, u, "insider") : i \in job.items},
                     InsiderDocs(pattern, u, job.items), {u}, {})

(* insert_many, collection by collection; then the next batch of events is *)
(* made, if there is one.                                                  *)
InsertDocs ==
    /\ at # 0 /\ Script[at][2] = "log" /\ Script[at][1] # "clear"
    /\ \/ /\ mongo' = mongo \cup job.docs
          /\ job' = [job EXCEPT !.docs = {}]
          /\ IF At("custody", "log") /\ Todo # {} THEN at' = at - 1 ELSE Advance
          /\ UNCHANGED hist
       \/ /\ MayFail
          /\ \E kind \in {d.kind : d \in job.docs} :
                mongo' = mongo \cup {d \in job.docs : d.kind = kind}
          /\ hist' = [hist EXCEPT !.faults = @ + 1]
          /\ at' = 0
          /\ UNCHANGED job
    /\ UNCHANGED <<sql, seq, graph, files, profile>>

(* MERGE (ce:CustodyEvent {custody_id}) with its edges and flags, for each *)
(* of these rows: every event node with its id, or a new one.              *)
MergeEvents(events, rows) ==
    LET new(r)   == [id |-> r.id, runs |-> {}, givers |-> {}, insider |-> FALSE]
        known(r) == {e \in events : e.id = r.id}
    IN  {e \in events : e.id \notin IdsOf(rows)} \cup
            UNION {{[e EXCEPT !.runs = @ \cup {r.run}, !.givers = @ \cup {r.user},
                              !.insider = @ \/ r.kind = "insider"]
                       : e \in IF known(r) = {} THEN {new(r)} ELSE known(r)} : r \in rows}

(* _neo4j_sync_coc_rows: the rows whose Evidence node is there; an         *)
(* exception ends the loop and is printed.                                 *)
SyncRows ==
    LET there == {r \in job.rows : r.item \in IdsOf(graph.nodes)}
        Merge(rows) == graph' = [graph EXCEPT !.events = MergeEvents(@, rows)]
    IN  /\ at # 0 /\ Script[at][2] = "copy" /\ Script[at][1] \notin {"clear", "sync"}
        /\ \/ Merge(there) /\ UNCHANGED hist
           \/ /\ MayFail
              /\ \E n \in 0 .. Cardinality(there) - 1 :
                    Merge({r \in there : Rank(r.id, IdsOf(there)) < n})
              /\ hist' = [hist EXCEPT !.faults = @ + 1]
        /\ Advance
        /\ UNCHANGED <<sql, seq, mongo, files, job, profile>>

(* Mutant: the ids are added to those in the file. *)
WriteIdsAppending ==
    /\ at # 0 /\ Script[at][2] = "file"
    /\ files' = [files EXCEPT ![Script[at][1]] = @ \cup job.found]
    /\ hist' = [hist EXCEPT !.filed[Script[at][1]] = hist.runs,
                            !.completed = @ \cup IF at = Len(Script) THEN {hist.runs} ELSE {}]
    /\ Advance
    /\ UNCHANGED <<sql, seq, mongo, graph, job, profile>>

(* _write_ids overwrites the file. *)
WriteIds ==
    /\ at # 0 /\ Script[at][2] = "file"
    /\ files' = [files EXCEPT ![Script[at][1]] = job.found]
    /\ hist' = [hist EXCEPT !.filed[Script[at][1]] = hist.runs,
                            !.completed = @ \cup IF at = Len(Script) THEN {hist.runs} ELSE {}]
    /\ Advance
    /\ UNCHANGED <<sql, seq, mongo, graph, job, profile>>

(* Experiment 3 looks at the counts of 200 users, which the ids here do    *)
(* not determine: any counts, and nothing else happens then.               *)
Profile ==
    /\ at = 0 /\ hist.runs = 0 /\ profile = <<>>
    /\ profile' \in Profiles
    /\ UNCHANGED <<at, sql, seq, mongo, graph, files, job, hist>>

Next ==
    \/ \E clear \in BOOLEAN : Start(clear)
    \/ Stop
    \/ ClearTables \/ ClearRollsBack \/ ClearDocs \/ ClearGraph
    \/ CreateUsers \/ CreateCases \/ CreateEvidence
    \/ CreateCustodyEvents \/ CustodyOfLostRow
    \/ CreateVerificationHistory \/ SyncNeo4j \/ CreateCaseAccess
    \/ InjectTamperedHashes \/ InjectBrokenChains \/ InjectCycles \/ InjectInsiderMisuse
    \/ InsertDocs \/ SyncRows \/ WriteIds
    \/ Profile

Spec == Init /\ [][Next]_vars

-----------------------------------------------------------------------------
(* Experiment 1: which evidence was tampered with?  A query of             *)
(* verification results, of PostgreSQL or of the graph, finds what a       *)
(* verification before the tampering happened to find.                     *)
Documented(kinds) == {d.id : d \in {x \in mongo : x.kind \in kinds}}
Mismatches        == IdsOf(sql.history) \cap IdsOf(sql.items)

(* cyber_experiments.py: by the tag, the graph, the audit log; only what   *)
(* the file lists is counted.                                              *)
CyberExperiment1 ==
    [sql   |-> IdsOf(sql.marked) \cap files["tamper"],
     neo4j |-> IdsOf(graph.mismatch) \cap files["tamper"],
     mongo |-> Documented({"tamper"}) \cap files["tamper"]]

(* run_experiments.py: rows and documents are counted, whatever they are   *)
(* about.                                                                  *)
RunExperiment1 ==
    [sql   |-> Cardinality(sql.history),
     neo4j |-> Cardinality(graph.mismatch),
     mongo |-> Cardinality({d \in mongo : d.kind = "tamper"})]

(* run_cyber_experiments.py: what is found, of which the rest of the       *)
(* script counts the part the file lists as true.                          *)
RunCyberExperiment1 ==
    [sql   |-> Mismatches,
     neo4j |-> IdsOf(graph.mismatch),
     mongo |-> Documented({"tamper", "tamperAlert"})]

-----------------------------------------------------------------------------
(* Experiment 3: who is an insider? *)

Total(counts)   == SumFunction(counts)
Squares(counts) == SumFunction([u \in DOMAIN counts |-> counts[u] * counts[u]])

(* Mutant: the threshold is the mean. *)
OutliersAboveMean(counts, num, den, sample) ==
    {u \in DOMAIN counts : Cardinality(DOMAIN counts) * counts[u] >= Total(counts)}

(* Who has at least mean + sqrt(num / den) * stdev events, in integers;    *)
(* stdev is that of a sample, or of the whole.                             *)
Outliers(counts, num, den, sample) ==
    LET n        == Cardinality(DOMAIN counts)
        above(u) == n * counts[u] - Total(counts)
        spread   == n * Squares(counts) - Total(counts) * Total(counts)
    IN  {u \in DOMAIN counts :
            /\ above(u) >= 0
            /\ IF sample THEN den * above(u) * above(u) * (n - 1) >= num * n * spread
                         ELSE den * above(u) * above(u) >= num * spread}

(* cyber_experiments.py: 1.5 deviations in SQL; every user MongoDB has a   *)
(* document of an insider for; every giver of an event flagged as an       *)
(* insider's.  Its two other signals, hours and number of cases, are left  *)
(* out.                                                                    *)
CyberExperiment3(counts) ==
    [sql   |-> Outliers(counts, 9, 4, FALSE),
     mongo |-> Documented({"insiderAlert", "insiderCustody", "insiderActivity"}),
     neo4j |-> UNION {e.givers : e \in {x \in graph.events : x.insider}}]

(* run_experiments.py: two deviations of the whole, for each store; of at  *)
(* most 50 users.                                                          *)
RunExperiment3(counts) == Outliers(counts, 4, 1, FALSE)

(* run_cyber_experiments.py: two deviations of a sample. *)
RunCyberExperiment3(counts) == Outliers(counts, 4, 1, TRUE)

-----------------------------------------------------------------------------
Things == [id: Int, run: Nat]
Rows   == [id: Int, run: Nat, item: Int, user: Int, kind: {"custody", "gap", "cycle", "insider"}]
Docs   == [kind: {"login", "case", "upload", "custody", "verify", "grant", "tamper",
                  "tamperAlert", "insiderAlert", "insiderCustody", "insiderActivity"},
           id: Int, run: Nat]
Events == [id: Int, runs: SUBSET Nat, givers: SUBSET Int, insider: BOOLEAN]

Tables == [users: SUBSET Things, cases: SUBSET Things, items: SUBSET Things, rows: SUBSET Rows,
           marked: SUBSET Things, history: SUBSET Things, access: SUBSET Things]
Graph  == [nodes: SUBSET [id: Int, sim: BOOLEAN], events: SUBSET Events, mismatch: SUBSET Things]
Job    == [users: SUBSET Int, items: SUBSET Int, docs: SUBSET Docs, rows: SUBSET Rows,
           found: SUBSET Int]
Hist   == [runs: Nat, uploads: Nat, faults: Nat, completed: SUBSET Nat, cleared: Nat, unset: BOOLEAN,
           unlogged: BOOLEAN, unswept: BOOLEAN, undone: SUBSET Docs, filed: [FileName -> Nat]]

TypeOK ==
    /\ at \in 0 .. Len(Script)
    /\ sql \in Tables
    /\ seq \in [cases: Int, items: Int, rows: Int]
    /\ mongo \in SUBSET Docs
    /\ graph \in Graph
    /\ files \in [FileName -> SUBSET Int]
    /\ job \in Job /\ IsFiniteSet(job.items)
    /\ profile \in {<<>>} \cup Profiles
    /\ hist \in Hist

(* A file lists what some run has injected, and it is still there, unless  *)
(* a later clear took the rows and the next injection has not been reached *)
(* yet: then the ids in it are those of other evidence, or of none.        *)
FilesFollowTables ==
    /\ \A f \in FileName : \A i \in files[f] :
          \/ hist.filed[f] < hist.cleared
          \/ /\ f = "tamper"  => [id |-> i, run |-> hist.filed[f]] \in sql.marked
             /\ f = "insider" => [id |-> i, run |-> hist.filed[f]] \in sql.users
             /\ f \in {"break", "cycle"} =>
                   \E r \in sql.rows : r.item = i /\ r.run = hist.filed[f]
    /\ hist.runs \in hist.completed => \A f \in FileName : hist.filed[f] = hist.runs

(* The thing of PostgreSQL a document tells of. *)
ToldOf(d) ==
    LET thing == [id |-> d.id, run |-> d.run] IN
    CASE d.kind \in {"login", "insiderAlert", "insiderCustody", "insiderActivity"} ->
            thing \in sql.users
      [] d.kind = "case" -> thing \in sql.cases
      [] d.kind \in {"upload", "verify"} -> thing \in sql.items
      [] d.kind \in {"tamper", "tamperAlert"} -> thing \in sql.marked
      [] d.kind = "grant" -> thing \in sql.access
      [] d.kind = "custody" -> \E r \in sql.rows : r.id = d.id /\ r.run = d.run

(* A document tells of a row of its own run, but for those of rows that    *)
(* were rolled back after they were queued, and for what a clear that      *)
(* stopped has left, whose ids will be those of other rows.  And what a    *)
(* completed run has put into PostgreSQL has its documents, until a clear  *)
(* rolls back: that keeps the rows and deletes the documents.              *)
DocsMatchRows ==
    LET TellOf(table, kind) ==
            \A x \in sql[table] :
                x.run \in hist.completed => [kind |-> kind, id |-> x.id, run |-> x.run] \in mongo
    IN  /\ \A d \in mongo :
              \/ ToldOf(d)
              \/ d \in hist.undone
              \/ d.run < hist.cleared /\ hist.unlogged
        /\ ~hist.unset =>
              /\ TellOf("users", "login") /\ TellOf("cases", "case") /\ TellOf("items", "upload")
              /\ TellOf("marked", "tamper") /\ TellOf("access", "grant")
              /\ \A r \in sql.rows : r.run \in hist.completed /\ r.kind # "insider" =>
                    [kind |-> "custody", id |-> r.id, run |-> r.run] \in mongo

(* A run that has lost the row of an item without a word never completes:  *)
(* it ends at the chain of this item, and only items before it have rows   *)
(* of custody.                                                             *)
LostRowEndsRun ==
    \A d \in hist.undone : d.kind = "upload" =>
        /\ d.run \notin hist.completed
        /\ \A r \in sql.rows : r.run = d.run => r.item < d.id

(* An event of the graph stands for one row, and no other event for the    *)
(* same one: only events that a clear has left are merged with, or stand   *)
(* beside, those of rows that got the same ids.                            *)
EventsStandForOneRow ==
    \/ hist.unswept
    \/ /\ \A e \in graph.events : Cardinality(e.runs) = 1
       /\ \A e, f \in graph.events : e.id = f.id => e = f

(* When the run has completed, the tag and the audit log find all the      *)
(* tampered evidence and MongoDB every insider the files list, and what    *)
(* else the documents accuse is of an earlier run.  The graph accuses      *)
(* nobody who has no insider's row, unless a clear has left events.        *)
InjectedAreFound ==
    LET Earlier(i) == \E d \in mongo : d.id = i /\ d.run < hist.runs
        accused    == CyberExperiment3(<<>>).mongo
    IN  /\ at = 0 /\ hist.runs \in hist.completed =>
              /\ CyberExperiment1.sql = files["tamper"] /\ CyberExperiment1.mongo = files["tamper"]
              /\ \A i \in RunCyberExperiment1.mongo \ files["tamper"] : Earlier(i)
              /\ RunExperiment1.mongo > Cardinality(files["tamper"]) =>
                    \E d \in mongo : d.run < hist.runs
              /\ files["insider"] \subseteq accused
              /\ \A u \in accused \ files["insider"] : Earlier(u)
        /\ ~hist.unswept =>
              \A u \in CyberExperiment3(<<>>).neo4j :
                  \E r \in sql.rows : r.kind = "insider" /\ r.user = u

(* However the counts are, either everybody is flagged, when all counts    *)
(* are equal, or at most one user of 1 + k^2: two deviations can never     *)
(* find more than a fifth of the users.                                    *)
FewAreOutliers ==
    profile # <<>> =>
        LET n == Cardinality(DOMAIN profile)
            Few(flagged, num, den) ==
                IF \A u, v \in DOMAIN profile : profile[u] = profile[v]
                THEN flagged = DOMAIN profile
                ELSE (num + den) * Cardinality(flagged) =< den * n
        IN  /\ Few(CyberExperiment3(profile).sql, 9, 4)
            /\ Few(RunExperiment3(profile), 4, 1)
            /\ Few(RunCyberExperiment3(profile), 4, 1)

=============================================================================
