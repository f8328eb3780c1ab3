--------------------------- MODULE CustodyReaders ---------------------------
(***************************************************************************)
(* What the pages and endpoints say about the custody of one piece of      *)
(* evidence: its chain, the gaps and cycles of the chain, the graph.  They *)
(* are pure functions of the rows of coc_logs and of the graph, and two    *)
(* detectors of one thing are two different functions.                     *)
(*                                                                         *)
(* An event is a record with an id, a giver, a recipient and a timestamp;  *)
(* a seal event of the graph has no recipient.  A chain is a sequence of   *)
(* events in timestamp order.  A graph is a record: node, whether the      *)
(* Evidence node is there; linked, whether a Case has a HAS_EVIDENCE edge  *)
(* to it; created and uploaded, whether the case has its CREATED and the   *)
(* evidence its UPLOADED edge; events, its CustodyEvent nodes; verified,   *)
(* the users of its VerificationEvent nodes.                               *)
(*                                                                         *)
(* A query that raises raises while it is sent or while its records are    *)
(* read.  The argument up says whether the query of a reader that discards *)
(* what it has read is answered; read and answered say how far a reader    *)
(* gets that keeps it.  All queries of one page see one graph.             *)
(***************************************************************************)
EXTENDS Integers, Sequences, FiniteSets

CONSTANTS
    User,   \* user_id: small numbers, because one detector looks for their digits
    None    \* no user: the recipient of a seal event

ASSUME ReadersAssumption == None \notin User

(* ORDER BY timestamp, which leaves events of one timestamp in any order: *)
(* that of their ids and its reverse stand for it.                         *)
Precedes(a, b, reverse) ==
    \/ a.ts < b.ts
    \/ a.ts = b.ts /\ IF reverse THEN b.id < a.id ELSE a.id < b.id

(* The n-th event is the one that n - 1 others precede. *)
ByTime(events, reverse) ==
    LET Position(e) == Cardinality({x \in events : Precedes(x, e, reverse)}) + 1
    IN  [n \in 1 .. Cardinality(events) |-> CHOOSE e \in events : Position(e) = n]

Elements(seq) == {seq[i] : i \in DOMAIN seq}

Steps(chain) == 1 .. Len(chain) - 1
Ids(chain)   == [i \in DOMAIN chain |-> chain[i].id]

Received(chain, u) == {i \in DOMAIN chain : chain[i].to = u}

-----------------------------------------------------------------------------
(* dbs/neo4j_db.py *)

IsTransfer(e) == e.from # None /\ e.to # None

(* neo_get_custody_chain: the events that have a case, a giver and a       *)
(* recipient.                                                              *)
NeoChain(g) ==
    IF g.linked THEN ByTime({e \in Elements(g.events) : IsTransfer(e)}, FALSE) ELSE <<>>

(* neo_detect_custody_gaps; the custody view has the same loop over the    *)
(* rows, for when this one raises.                                         *)
Gaps(chain) == {i \in Steps(chain) : chain[i].to # chain[i + 1].from}

(* Mutant: who gave it more than once. *)
NeoCyclesOfGivers(g) ==
    {u \in User : g.linked /\ Cardinality({i \in DOMAIN g.events : g.events[i].from = u}) > 1}

(* neo_detect_cycles: who received the evidence more than once. *)
NeoCycles(g) == {u \in User : g.linked /\ Cardinality(Received(g.events, u)) > 1}

(* A graph for the browser is the set of its edges: its nodes, which are   *)
(* tagged, are the evidence and what the edges join.                       *)
EdgesOf(e) ==
    {<<<<"ev">>, <<"ce", e.id>>>>}
        \cup {<<<<"user", u>>, <<"ce", e.id>>>> : u \in {e.from} \ {None}}
        \cup {<<<<"ce", e.id>>, <<"user", u>>>> : u \in {e.to} \ {None}}

HasEvidence    == {<<<<"case">>, <<"ev">>>>}
Created(u)     == {<<<<"user", u>>, <<"case">>>>}
Uploaded(u)    == {<<<<"user", u>>, <<"ev">>>>}
Verified(by)   == UNION {{<<<<"ev">>, <<"ve", i>>>>, <<<<"user", by[i]>>, <<"ve", i>>>>} :
                            i \in DOMAIN by}
EventEdges(es) == UNION {EdgesOf(e) : e \in es}

(* neo_get_graph_data: the uploader's edge is looked for beside the case,  *)
(* everything else behind the HAS_EVIDENCE edge.                           *)
NeoGraph(g, uploader, creator) ==
    (IF g.uploaded THEN Uploaded(uploader) ELSE {})
        \cup IF g.linked
             THEN HasEvidence \cup EventEdges(Elements(g.events))
                     \cup (IF g.created THEN Created(creator) ELSE {})
                     \cup Verified(g.verified)
             ELSE {}

-----------------------------------------------------------------------------
(* routes/custody.py *)

(* _build_graph_from_sql: the rows, the case and both its users; PostgreSQL*)
(* has verifications, but this graph does not.                             *)
SqlGraph(rows, uploader, creator) ==
    HasEvidence \cup Created(creator) \cup Uploaded(uploader)
        \cup EventEdges(Elements(rows))

(* Mutant: the graph of Neo4j, node or no node. *)
ShownGraphOfNeo(rows, g, uploader, creator, up) ==
    IF up THEN NeoGraph(g, uploader, creator) ELSE SqlGraph(rows, uploader, creator)

(* custody_view and custody_graph_api: the graph of Neo4j, unless it has   *)
(* no Evidence node or a query raises.                                     *)
ShownGraph(rows, g, uploader, creator, up) ==
    IF up /\ g.node THEN NeoGraph(g, uploader, creator)
                    ELSE SqlGraph(rows, uploader, creator)

(* custody_view: the gaps of the graph's chain; of the rows only when the  *)
(* query raises.                                                           *)
ViewGaps(rows, g, up) == IF up THEN Gaps(NeoChain(g)) ELSE Gaps(rows)

-----------------------------------------------------------------------------
(* cyber/query_interface.py *)

(* Mutant: no fallback. *)
FullChainNoFallback(rows, g, read) == SubSeq(ByTime(Elements(g.events), FALSE), 1, read)

(* query_full_custody_chain: the events of the graph, seals too, of which  *)
(* read are appended before the query ends or raises; the rows when that   *)
(* is none.                                                                *)
FullChain(rows, g, read) ==
    IF read = 0 THEN rows ELSE SubSeq(ByTime(Elements(g.events), FALSE), 1, read)

(* The query ends. *)
WholeChain(rows, g) == FullChain(rows, g, Len(g.events))

(* Mutant: the loop ends one step early. *)
GapAnomaliesShort(chain) ==
    {i \in Gaps(chain) : /\ i < Len(chain) - 1
                         /\ chain[i].to # None /\ chain[i + 1].from # None}

(* query_detect_suspicious_transitions, rule 1: a gap, where both sides of *)
(* the step have a user.                                                   *)
GapAnomalies(chain) ==
    {i \in Gaps(chain) : chain[i].to # None /\ chain[i + 1].from # None}

(* Mutant: the step before is not excepted. *)
CycleAnomaliesAdjacent(chain) ==
    {i \in DOMAIN chain :
        LET earlier == Received(chain, chain[i].from) \cap 1 .. i IN
        /\ chain[i].from # None
        /\ earlier # {} /\ \A j \in earlier : j =< i - 1}

(* Rule 2: seen_as_receiver holds the last reception of each user, step i  *)
(* included; a giver whose last reception is older than the step before i. *)
CycleAnomalies(chain) ==
    {i \in DOMAIN chain :
        LET earlier == Received(chain, chain[i].from) \cap 1 .. i IN
        /\ chain[i].from # None
        /\ earlier # {} /\ \A j \in earlier : j < i - 1}

(* The step numbers in the description of a cycle of rule 2. *)
StepsNamed(chain, i) ==
    {i} \cup {j \in Received(chain, chain[i].from) \cap 1 .. i :
                 \A k \in Received(chain, chain[i].from) \cap 1 .. i : k =< j}

(* Mutant: the recipient has received before. *)
ExchangedReceivers(chain, i) ==
    /\ \E j \in 1 .. i - 1 : chain[j].to = chain[i].to
    /\ \E k \in DOMAIN chain :
          chain[k].from = chain[i].to /\ chain[k].to = chain[i].from

(* Rule 3: the recipient has given before, and the reverse transfer is in  *)
(* the chain.                                                              *)
Exchanged(chain, i) ==
    /\ \E j \in 1 .. i - 1 : chain[j].from = chain[i].to
    /\ \E k \in DOMAIN chain :
          chain[k].from = chain[i].to /\ chain[k].to = chain[i].from

(* It is dropped when the id of one of the two users occurs, as text, in   *)
(* the description of a cycle that was found before: descriptions of rule  *)
(* 2 name steps by their numbers, those of rule 3 users by their ids.      *)
(* Exact for ids and steps of one digit.                                   *)
Exchanges(chain) ==
    LET named == UNION {StepsNamed(chain, i) : i \in CycleAnomalies(chain)}
        Users(i) == {chain[i].from, chain[i].to}
        flagged[i \in 0 .. Len(chain)] ==
            IF i = 0 THEN {}
            ELSE LET before == flagged[i - 1] IN
                 IF /\ Exchanged(chain, i)
                    /\ Users(i) \cap (named \cup UNION {Users(j) : j \in before}) = {}
                 THEN before \cup {i}
                 ELSE before
    IN  flagged[Len(chain)]

(* query_user_custody_network: what a user sent and what he received, two  *)
(* queries, of which answered are before one raises; from the rows when    *)
(* the graph has given neither.                                            *)
Sent(chain, u) == {chain[i].id : i \in {j \in DOMAIN chain : chain[j].from = u}}
Got(chain, u)  == {chain[i].id : i \in Received(chain, u)}

Network(rows, g, u, answered) ==
    LET sent == IF answered >= 1 THEN Sent(g.events, u) ELSE {}
        got  == IF answered = 2 THEN Got(g.events, u) ELSE {}
    IN  IF sent \cup got # {} THEN [sent |-> sent, received |-> got]
                              ELSE [sent |-> Sent(rows, u), received |-> Got(rows, u)]

=============================================================================
