---------------------------- MODULE CustodyAudit ----------------------------
(***************************************************************************)
(* One piece of evidence, the requests that transfer and seal it, and what *)
(* the readers of CustodyReaders say about it meanwhile.                   *)
(*                                                                         *)
(* The rows of coc_logs are ordered by the start of the transaction, the   *)
(* events of the graph by the clock of the handler, which it reads after   *)
(* the commit (routes/custody.py:291): the two orders may differ.  A page  *)
(* that sends several statements sees a later database with each.          *)
(***************************************************************************)
EXTENDS CustodyReaders, SequencesExt

CONSTANTS
    Uploader,   \* evidence.uploader_id
    Creator,    \* cases.created_by
    Sealers,    \* users who may seal
    Verifiers,  \* users who may verify
    Worker,     \* requests that may be served at the same time
    Reporting,  \* workers that may also be asked for reports
    FaultSets,  \* what may go wrong: one of these sets of faults, in each behaviour
    MaxRows,    \* bound: transfers that begin
    MaxSeals,   \* bound: seals and unseals
    MaxChecks   \* bound: verification events

FaultKind == {"sql", "neo4j", "crash"}

ASSUME AuditAssumption ==
    /\ Uploader \in User /\ Creator \in User
    /\ Sealers \subseteq User /\ Verifiers \subseteq User /\ Reporting \subseteq Worker
    /\ FaultSets \subseteq SUBSET FaultKind
    /\ MaxRows \in Nat /\ MaxSeals \in Nat /\ MaxChecks \in Nat

VARIABLES
    begun,    \* PostgreSQL's clock: the transfers that have begun
    stamped,  \* the handlers' clock: how often it was read
    sealed,   \* evidence.is_sealed
    rows,     \* committed rows of coc_logs, in timestamp order
    graph,    \* the graph around the evidence node
    pc,       \* the statement each worker executes next
    job,      \* the local variables of the request each worker serves
    faults,   \* the faults of this behaviour
    seals,    \* history: number of seals and unseals committed
    overlaps  \* history: the pairs of transfers that were served at the same time

postgres == <<begun, sealed, rows>>
history  == <<faults, seals, overlaps>>
vars     == <<postgres, stamped, graph, pc, job, history>>

NoJob  == <<>>
Row    == [id: Nat, from: User, to: User, ts: Nat]
Event  == [id: Nat, from: User \cup {None}, to: User \cup {None}, ts: Nat]
Report == [counted: Seq(Row), listed: Seq(Row)]
Graph  == [node: BOOLEAN, linked: BOOLEAN, created: BOOLEAN, uploaded: BOOLEAN,
           events: Seq(Event), verified: Seq(Verifiers)]

TransferSteps == {"readHolder", "commit", "stamp", "graph"}
SealSteps     == {"stampSeal", "graphSeal"}
ReportSteps   == {"list", "answer"}

(* The writes of the upload to Neo4j may be done, and may have failed; and *)
(* so may those of neo_create_case, two runs as well, of which the second  *)
(* makes the CREATED edge.                                                 *)
Init ==
    /\ begun = 0 /\ stamped = 0 /\ sealed = FALSE /\ rows = <<>>
    /\ \E node, created, uploaded \in BOOLEAN :
          /\ uploaded => node
          /\ graph = [node |-> node, linked |-> node, created |-> created,
                      uploaded |-> uploaded, events |-> <<>>, verified |-> <<>>]
    /\ pc = [w \in Worker |-> "idle"]
    /\ job = [w \in Worker |-> NoJob]
    /\ faults \in FaultSets
    /\ seals = 0 /\ overlaps = {}

MayFail(fault) == fault \in faults

Goto(w, step) == pc' = [pc EXCEPT ![w] = step]

Respond(w) ==
    /\ pc' = [pc EXCEPT ![w] = "idle"]
    /\ job' = [job EXCEPT ![w] = NoJob]

-----------------------------------------------------------------------------
(* POST /custody/transfer, as in ChainOfCustody, without the case status.  *)

(* The row of this request will have this timestamp; it also stands for    *)
(* its log_id.                                                             *)
BeginTransfer(w, u) ==
    /\ pc[w] = "idle" /\ begun < MaxRows
    /\ begun' = begun + 1
    /\ Goto(w, "readHolder")
    /\ job' = [job EXCEPT ![w] = [id |-> begun', from |-> None, to |-> u, ts |-> begun']]
    /\ overlaps' = overlaps \cup
          {{begun', job[v].id} : v \in {x \in Worker : pc[x] \in TransferSteps}}
    /\ UNCHANGED <<stamped, sealed, rows, graph, faults, seals>>

Holder == IF rows = <<>> THEN Uploader ELSE rows[Len(rows)].to

(* The seal and the last row, two statements; nothing the first could miss *)
(* changes what the second returns.                                        *)
ReadHolder(w) ==
    /\ pc[w] = "readHolder"
    /\ IF sealed
       THEN Respond(w)
       ELSE /\ Goto(w, "commit")
            /\ job' = [job EXCEPT ![w].from = Holder]
    /\ UNCHANGED <<postgres, stamped, graph, history>>

(* The commit, whose answer may be lost; the row takes its place in        *)
(* timestamp order.                                                        *)
CommitTransfer(w) ==
    /\ pc[w] = "commit"
    /\ \E k \in 0 .. Len(rows) :
          /\ \A i \in DOMAIN rows : i =< k <=> rows[i].ts < job[w].ts
          /\ rows' = InsertAt(rows, k + 1, job[w])
    /\ \/ Goto(w, "stamp") /\ UNCHANGED job
       \/ MayFail("sql") /\ Respond(w)
    /\ UNCHANGED <<begun, stamped, sealed, graph, history>>

TransferFails(w) ==
    /\ MayFail("sql")
    /\ pc[w] \in {"readHolder", "commit"}
    /\ Respond(w)
    /\ UNCHANGED <<postgres, stamped, graph, history>>

(* Mutant: later events have earlier timestamps. *)
StampBackwards(w) ==
    /\ pc[w] = "stamp"
    /\ stamped' = stamped + 1
    /\ job' = [job EXCEPT ![w].ts = MaxRows + MaxSeals - stamped]
    /\ Goto(w, "graph")
    /\ UNCHANGED <<postgres, graph, history>>

(* The list of the mirror calls is built: _now_ist() is evaluated. *)
Stamp(w) ==
    /\ pc[w] = "stamp"
    /\ stamped' = stamped + 1
    /\ job' = [job EXCEPT ![w].ts = stamped']
    /\ Goto(w, "graph")
    /\ UNCHANGED <<postgres, graph, history>>

(* neo_add_custody_event and neo_seal_evidence MATCH the Evidence node and *)
(* its case.                                                               *)
NeoCreate(event) ==
    \/ /\ graph.linked
       /\ graph' = [graph EXCEPT !.events = Append(@, event)]
    \/ /\ ~graph.linked \/ MayFail("neo4j")
       /\ UNCHANGED graph

GraphCustody(w) ==
    /\ pc[w] = "graph"
    /\ NeoCreate(job[w])
    /\ Respond(w)
    /\ UNCHANGED <<postgres, stamped, history>>

-----------------------------------------------------------------------------
(* POST /evidence/<id>/seal and /unseal: the UPDATE commits, the logs are  *)
(* written (one that raises ends the request), then the event, whose only  *)
(* user is the one who seals.                                              *)
ChangeSeal(w) ==
    /\ pc[w] = "idle" /\ seals < MaxSeals
    /\ sealed' = ~sealed
    /\ seals' = seals + 1
    /\ Goto(w, "stampSeal")
    /\ UNCHANGED <<begun, stamped, rows, graph, job, faults, overlaps>>

StampSeal(w, u) ==
    /\ pc[w] = "stampSeal"
    /\ stamped' = stamped + 1
    /\ job' = [job EXCEPT ![w] = [id |-> MaxRows + stamped', from |-> u, to |-> None,
                                  ts |-> stamped']]
    /\ Goto(w, "graphSeal")
    /\ UNCHANGED <<postgres, graph, history>>

GraphSeal(w) ==
    /\ pc[w] = "graphSeal"
    /\ NeoCreate(job[w])
    /\ Respond(w)
    /\ UNCHANGED <<postgres, stamped, history>>

-----------------------------------------------------------------------------
(* GET /reports?case_id=...: a statement counts the rows, a later one      *)
(* lists them; each reads what is committed by then.                       *)
CountRows(w) ==
    /\ pc[w] = "idle" /\ w \in Reporting /\ begun > 0
    /\ job' = [job EXCEPT ![w] = [counted |-> rows, listed |-> <<>>]]
    /\ Goto(w, "list")
    /\ UNCHANGED <<postgres, stamped, graph, history>>

ListRows(w) ==
    /\ pc[w] = "list"
    /\ job' = [job EXCEPT ![w].listed = rows]
    /\ Goto(w, "answer")
    /\ UNCHANGED <<postgres, stamped, graph, history>>

ShowReport(w) ==
    /\ pc[w] = "answer"
    /\ Respond(w)
    /\ UNCHANGED <<postgres, stamped, graph, history>>

-----------------------------------------------------------------------------
(* The process of a request is killed. *)
Crash(w) ==
    /\ MayFail("crash")
    /\ pc[w] # "idle"
    /\ Respond(w)
    /\ UNCHANGED <<postgres, stamped, graph, history>>

(* The upload of the evidence gets to its Neo4j writes: neo_add_evidence is*)
(* two runs of their own, the node with its case, then the UPLOADED edge.  *)
(* Either may raise, and nothing tries again: it may never come.           *)
NeoAddEvidence ==
    /\ ~graph.node
    /\ graph' = [graph EXCEPT !.node = TRUE, !.linked = TRUE]
    /\ UNCHANGED <<postgres, stamped, pc, job, history>>

NeoAddUploaded ==
    /\ graph.node /\ ~graph.uploaded
    /\ graph' = [graph EXCEPT !.uploaded = TRUE]
    /\ UNCHANGED <<postgres, stamped, pc, job, history>>

(* neo_add_verification_event of a request that has verified the evidence; *)
(* without the node and its case it creates nothing.                       *)
NeoAddVerification(u) ==
    /\ graph.linked
    /\ Len(graph.verified) < MaxChecks
    /\ graph' = [graph EXCEPT !.verified = Append(@, u)]
    /\ UNCHANGED <<postgres, stamped, pc, job, history>>

Continue(w) ==
    \/ ReadHolder(w) \/ CommitTransfer(w) \/ TransferFails(w) \/ Stamp(w) \/ GraphCustody(w)
    \/ \E u \in Sealers : StampSeal(w, u)
    \/ GraphSeal(w)
    \/ ListRows(w) \/ ShowReport(w)

Next ==
    \/ \E w \in Worker :
          \/ \E u \in User : BeginTransfer(w, u)
          \/ ChangeSeal(w)
          \/ CountRows(w)
          \/ Continue(w)
          \/ Crash(w)
    \/ NeoAddEvidence \/ NeoAddUploaded
    \/ \E u \in Verifiers : NeoAddVerification(u)

Spec == Init /\ [][Next]_vars

-----------------------------------------------------------------------------
JobOK(w) ==
    /\ pc[w] = "idle" => job[w] = NoJob
    /\ pc[w] \in {"readHolder", "graphSeal"} => job[w] \in Event
    /\ pc[w] = "readHolder" => job[w].to # None
    /\ pc[w] \in TransferSteps \ {"readHolder"} => job[w] \in Row
    /\ pc[w] \in TransferSteps => job[w].id \in 1 .. begun
    /\ pc[w] \in ReportSteps => job[w] \in Report

TypeOK ==
    /\ begun \in Nat /\ stamped \in Nat /\ seals \in Nat
    /\ sealed \in BOOLEAN
    /\ rows \in Seq(Row)
    /\ graph \in Graph
    /\ pc \in [Worker -> {"idle"} \cup TransferSteps \cup SealSteps \cup ReportSteps]
    /\ DOMAIN job = Worker /\ \A w \in Worker : JobOK(w)
    /\ faults \subseteq FaultKind
    /\ \A p \in overlaps : p \subseteq 1 .. begun

Chain == NeoChain(graph)

Mirrored == {Chain[i].id : i \in DOMAIN Chain}

(* Every transfer the graph shows is a committed row with its giver and    *)
(* its recipient, once; two of them are in another order than in           *)
(* PostgreSQL only when their requests were served at the same time.       *)
EventsFollowRows ==
    LET Transfers == {i \in DOMAIN graph.events : graph.events[i].to # None}
        E(i) == graph.events[i]
    IN  /\ \A i \in Transfers : \E k \in DOMAIN rows :
              rows[k].id = E(i).id /\ rows[k].from = E(i).from /\ rows[k].to = E(i).to
        /\ \A i, j \in Transfers :
              i # j => /\ E(i).id # E(j).id
                       /\ E(i).ts < E(j).ts /\ E(j).id < E(i).id
                             => {E(i).id, E(j).id} \in overlaps

(* The custody view and the endpoint of the anomalies say the same of the  *)
(* evidence, whether Neo4j answers or not, when the graph holds each row,  *)
(* in the order of the rows, and no seal: the same gaps.  Who is shown as  *)
(* having received it twice has, whatever the graph misses.                *)
ReadersAgree ==
    LET complete == Ids(Chain) = Ids(rows) IN
    /\ complete => ViewGaps(rows, graph, TRUE) = ViewGaps(rows, graph, FALSE)
    /\ complete /\ Len(graph.events) = Len(Chain) =>
          GapAnomalies(WholeChain(rows, graph)) = Gaps(rows)
    /\ \A u \in NeoCycles(graph) : Cardinality(Received(rows, u)) > 1

(* The graph page leaves out what is committed only when it is not in      *)
(* Neo4j: rows that are not mirrored, the creator, the uploader.  It adds  *)
(* nothing to it but seals and verifications.                              *)
GraphShowsTheRows ==
    LET shown  == ShownGraph(rows, graph, Uploader, Creator, TRUE)
        stored == SqlGraph(rows, Uploader, Creator)
        Unmirrored == {r \in Elements(rows) : r.id \notin Mirrored}
        Seals  == {e \in Elements(graph.events) : e.to = None}
    IN  IF graph.node
        THEN /\ stored \ shown = EventEdges(Unmirrored)
                                    \cup (IF graph.created THEN {} ELSE Created(Creator))
                                    \cup (IF graph.uploaded THEN {} ELSE Uploaded(Uploader))
             /\ shown \ stored = EventEdges(Seals)
                                    \cup Verified(graph.verified)
        ELSE shown = stored

(* A gap the custody view shows of the graph and the anomaly endpoint does *)
(* not, is at two transfers with a seal or an unseal between them.         *)
OnlySealsHideGaps ==
    LET full == WholeChain(rows, graph) IN
    \A i \in Gaps(Chain) :
        \/ \E k \in GapAnomalies(full) : full[k].id = Chain[i].id
        \/ \E k \in DOMAIN full :
              /\ full[k].to = None
              /\ Chain[i].ts < full[k].ts /\ full[k].ts < Chain[i + 1].ts

(* What the full chain or the network of a user leaves out of PostgreSQL   *)
(* has one of two causes: it is not mirrored, and the graph holds other    *)
(* events of them; or the query raised, after an earlier event of the      *)
(* chain, or after the user's own transfers, had been read.                *)
OmissionsHaveACause ==
    \A r \in Elements(rows) :
        /\ \A read \in 0 .. Len(graph.events) :
              LET full == FullChain(rows, graph, read) IN
              (\A k \in DOMAIN full : full[k].id # r.id) =>
                 /\ read > 0
                 /\ \/ r.id \notin Mirrored
                    \/ \E e \in Elements(graph.events) :
                          e.id = r.id /\ \A k \in DOMAIN full : full[k].ts < e.ts
        /\ \A answered \in 0 .. 2 :
              LET taker == Network(rows, graph, r.to, answered)
                  giver == Network(rows, graph, r.from, answered)
                  Has(u) == \E e \in Elements(graph.events) : u \in {e.from, e.to}
              IN  /\ r.id \notin taker.received =>
                        \/ r.id \notin Mirrored /\ Has(r.to)
                        \/ answered = 1 /\ Sent(graph.events, r.to) # {}
                  /\ r.id \notin giver.sent =>
                        r.id \notin Mirrored /\ answered > 0 /\ Has(r.from)

(* The cycle rule of the anomaly endpoint says nothing the gap rule has    *)
(* not said: of a chain in which every event has two users it reports a    *)
(* step only where the step before is a gap.                               *)
CyclesNeedGaps ==
    \A i \in CycleAnomalies(rows) : i - 1 \in Gaps(rows)

(* Two users who hand the evidence to each other and back are reported, as *)
(* an exchange or under another cycle of the chain: what is dropped as     *)
(* already flagged leaves at least one cycle in the answer.                *)
ExchangesAreReported ==
    (\E i, j \in DOMAIN rows : i < j /\ rows[i].from = rows[j].to /\ rows[i].to = rows[j].from)
        => CycleAnomalies(rows) \cup Exchanges(rows) # {}

(* The report lists every row it has counted: rows never vanish between    *)
(* its statements.                                                         *)
ReportListsWhatItCounts ==
    \A w \in Worker : pc[w] = "answer" =>
        {job[w].counted[i].id : i \in DOMAIN job[w].counted}
            \subseteq {job[w].listed[i].id : i \in DOMAIN job[w].listed}

=============================================================================
