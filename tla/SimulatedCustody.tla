-------------------------- MODULE SimulatedCustody --------------------------
(***************************************************************************)
(* What simulate_data.py makes of the custody of one simulated piece of    *)
(* evidence, in the order of main(): a chain without gaps, its copy in     *)
(* Neo4j, and then the anomalies, each with a copy of its own.  The        *)
(* experiment scripts and the pages of the application look for them.      *)
(*                                                                         *)
(* The two copies draw the edge of the giver in opposite directions: the   *)
(* first sync (ce)-[:FROM]->(u), the injections and the application        *)
(* (u)-[:FROM]->(ce).  A query for the latter finds no giver in an event   *)
(* of the first sync: its from is None, and back holds the user.           *)
(*                                                                         *)
(* The rows of coc_logs are kept in the order of their log_id.  Hours and  *)
(* minutes are abstracted to their order; that of the timestamps as text,  *)
(* which the graph has, is the same as long as the session's time zone is  *)
(* UTC.                                                                    *)
(*                                                                         *)
(* Assumed: phase 2 of create_custody_events makes no event.  It fills up  *)
(* to N_CUSTODY = 3000 events, which the ten of each piece of evidence     *)
(* exceed unless fewer than 300 of the 1000 planned pieces came into being.*)
(***************************************************************************)
EXTENDS CustodyReaders, SequencesExt

CONSTANTS
    Events,     \* MIN_EVENTS_PER_EV
    Actors,     \* MIN_ACTORS_PER_EV, or the number of users if that is less
    MaxTime,    \* bound: the timestamps of these events are 1 .. MaxTime
    MaxDelay,   \* bound: the hours between the last event and an injected gap
    MaxFailures \* bound: how many of the syncs with Neo4j may fail

ASSUME SimulatedAssumption ==
    /\ Events \in Nat \ {0} /\ Actors \in 1 .. Cardinality(User)
    /\ MaxTime \in Nat /\ MaxDelay \in Nat /\ MaxFailures \in Nat
    /\ IsFiniteSet(User) /\ Cardinality(User) > 1

VARIABLES
    pc,       \* the step of main() that comes next
    rows,     \* committed rows of coc_logs for the evidence
    graph,    \* the graph around the evidence node
    pending,  \* neo4j_rows of the injection that runs: rows to be copied
    broken,   \* the evidence is listed in broken_chain_ids.txt
    cyclic,   \* the evidence is listed in cycle_ids.txt
    failures  \* history: number of syncs that failed

vars == <<pc, rows, graph, pending, broken, cyclic, failures>>

Kind  == {"custody", "gap", "cycle", "insider"}
Row   == [id: Nat, from: User, to: User, ts: Nat, kind: Kind]
Event == [id: Nat, from: User \cup {None}, to: User, ts: Nat,
          back: User \cup {None}, kind: Kind]

Times(kind) == {rows[i].ts : i \in {j \in DOMAIN rows : rows[j].kind = kind}}
LastTime    == CHOOSE t \in {r.ts : r \in Range(rows)} : \A r \in Range(rows) : r.ts =< t

(* create_evidence calls neo_add_evidence and ignores what it raises: the  *)
(* HAS_EVIDENCE edge comes from there only.                                *)
Init ==
    /\ pc = "custody" /\ rows = <<>> /\ pending = <<>>
    /\ broken = FALSE /\ cyclic = FALSE
    /\ failures \in 0 .. IF MaxFailures > 0 THEN 1 ELSE 0
    /\ graph = [node |-> failures = 0, linked |-> failures = 0, events |-> <<>>]

NewRow(k, from, to, ts, kind) ==
    [id |-> Len(rows) + k, from |-> from, to |-> to, ts |-> ts, kind |-> kind]

-----------------------------------------------------------------------------
(* create_custody_events: a sample of the users take turns, at sorted      *)
(* random times, of which two may be the same.                             *)
CreateCustodyEvents ==
    /\ pc = "custody"
    /\ \E pool \in [1 .. Actors -> User], time \in [1 .. Events -> 1 .. MaxTime] :
          /\ \A i, j \in 1 .. Actors : i # j => pool[i] # pool[j]
          /\ \A i \in 1 .. Events - 1 : time[i] =< time[i + 1]
          /\ LET Actor(i) == pool[(i % Actors) + 1] IN
             rows' = [i \in 1 .. Events |->
                         NewRow(i, Actor(i - 1), Actor(i), time[i], "custody")]
    /\ pc' = "sync"
    /\ UNCHANGED <<graph, pending, broken, cyclic, failures>>

(* The node of a row; who is at the end of each kind of FROM edge. *)
Copy(r, from, back) ==
    [id |-> r.id, from |-> from, to |-> r.to, ts |-> r.ts, back |-> back, kind |-> r.kind]

(* Mutant: the edge of the giver as the application draws it. *)
FirstCopyForward(r) == Copy(r, r.from, None)

FirstCopy(r) == Copy(r, None, r.from)

(* sync_neo4j: one try around everything, so what raises leaves a prefix.  *)
(* It MERGEs the Evidence node, with an IN_CASE edge, and CREATEs the      *)
(* events.                                                                 *)
SyncNeo4j ==
    /\ pc = "sync"
    /\ \/ /\ graph' = [graph EXCEPT !.node = TRUE,
                                    !.events = [i \in DOMAIN rows |-> FirstCopy(rows[i])]]
          /\ UNCHANGED failures
       \/ /\ failures < MaxFailures
          /\ failures' = failures + 1
          /\ \/ UNCHANGED graph
             \/ \E k \in 0 .. Len(rows) - 1 :
                   graph' = [graph EXCEPT !.node = TRUE,
                                          !.events = [i \in 1 .. k |-> FirstCopy(rows[i])]]
    /\ pc' = "break"
    /\ UNCHANGED <<rows, pending, broken, cyclic>>

-----------------------------------------------------------------------------
(* The injections. *)

(* An injection commits its rows, then copies them. *)
Inject(new, next) ==
    /\ rows' = rows \o new
    /\ pending' = new
    /\ pc' = next
    /\ UNCHANGED <<graph, failures>>

(* Mutant: the giver is anybody. *)
InjectBrokenChainByAnyone ==
    /\ pc = "break"
    /\ \E from, to \in User, d \in 1 .. MaxDelay :
          /\ from # to
          /\ Inject(<<NewRow(1, from, to, LastTime + d, "gap")>>, "copyGap")
          /\ broken' = TRUE
    /\ UNCHANGED cyclic

(* inject_broken_chains: the event after the last one is given by somebody *)
(* who did not receive it.  ORDER BY timestamp DESC LIMIT 1 returns any of *)
(* the rows with the last timestamp.                                       *)
InjectBrokenChain ==
    /\ pc = "break"
    /\ \E i \in DOMAIN rows, from, to \in User, d \in 1 .. MaxDelay :
          /\ rows[i].ts = LastTime
          /\ from # rows[i].to /\ from # to
          /\ Inject(<<NewRow(1, from, to, LastTime + d, "gap")>>, "copyGap")
          /\ broken' = TRUE
    /\ UNCHANGED cyclic

(* a gives to b, b back to a, a to b again, after everything else. *)
CycleRows(a, b) ==
    <<NewRow(1, a, b, LastTime + 1, "cycle"),
      NewRow(2, b, a, LastTime + 2, "cycle"),
      NewRow(3, a, b, LastTime + 3, "cycle")>>

(* inject_cycles *)
InjectCycle ==
    /\ pc = "cycle"
    /\ \E a, b \in User :
          /\ a # b
          /\ Inject(CycleRows(a, b), "copyCycle")
    /\ cyclic' = TRUE
    /\ UNCHANGED broken

(* inject_insider_misuse: rapid and cross-case accesses are from a user to *)
(* himself, an off-hours transfer is to somebody else, each at a random    *)
(* time.  At most one of them is on this evidence here.                    *)
InjectInsider ==
    /\ pc = "insider"
    /\ \E u, to \in User, t \in 1 .. MaxTime + MaxDelay :
          Inject(<<NewRow(1, u, to, t, "insider")>>, "copyInsider")
    /\ UNCHANGED <<broken, cyclic>>

(* The evidence is not among those an injection draws. *)
NotDrawn ==
    /\ pc \in {"break", "cycle", "insider"}
    /\ pc' = CASE pc = "break" -> "cycle" [] pc = "cycle" -> "insider" [] OTHER -> "over"
    /\ UNCHANGED <<rows, graph, pending, broken, cyclic, failures>>

SecondCopy(r) == Copy(r, r.from, None)

(* The events that n rows add; without the Evidence node the MATCH finds   *)
(* nothing, and nothing raises.                                            *)
MirrorRows(n) ==
    graph.events \o IF graph.node THEN [i \in 1 .. n |-> SecondCopy(pending[i])] ELSE <<>>

(* _neo4j_sync_coc_rows: a statement for each row, which raises or not;    *)
(* then the file is written and the next injection begins.                 *)
Neo4jSyncCocRows ==
    /\ pc \in {"copyGap", "copyCycle", "copyInsider"}
    /\ \/ /\ graph' = [graph EXCEPT !.events = MirrorRows(Len(pending))]
          /\ UNCHANGED failures
       \/ /\ failures < MaxFailures
          /\ failures' = failures + 1
          /\ \E n \in 0 .. Len(pending) - 1 : graph' = [graph EXCEPT !.events = MirrorRows(n)]
    /\ pending' = <<>>
    /\ pc' = CASE pc = "copyGap" -> "cycle" [] pc = "copyCycle" -> "insider" [] OTHER -> "over"
    /\ UNCHANGED <<rows, broken, cyclic>>

Next ==
    \/ CreateCustodyEvents \/ SyncNeo4j
    \/ InjectBrokenChain \/ InjectCycle \/ InjectInsider \/ NotDrawn
    \/ Neo4jSyncCocRows

Spec == Init /\ [][Next]_vars

-----------------------------------------------------------------------------
(* Experiment 2 of the three scripts: is the evidence among what a query   *)
(* returns?  LIMIT, which cuts long answers short, is left out.            *)

SqlChain(reverse) == ByTime(Elements(rows), reverse)

(* Mutant: LEAD(to_user_id), the next recipient instead of the next giver. *)
LeadGapOfRecipients(reverse) ==
    \E i \in Steps(SqlChain(reverse)) : SqlChain(reverse)[i].to # SqlChain(reverse)[i + 1].to

(* LEAD(from_user_id) OVER (PARTITION BY evidence_id ORDER BY timestamp) *)
LeadGap(reverse) == Gaps(SqlChain(reverse)) # {}

(* The giver of one event is the recipient of another, earlier or later. *)
SelfJoin(events) ==
    \E i, j \in DOMAIN events : i # j /\ events[i].from = events[j].to

(* GROUP BY evidence_id, to_user_id HAVING COUNT > 1 *)
ReceivedTwice(events) == \E u \in User : Cardinality(Received(events, u)) > 1

(* Mutant: the giver is compared with the giver. *)
GraphGapOfGivers ==
    \E i, j \in DOMAIN graph.events :
        LET a == graph.events[i]  b == graph.events[j] IN
        /\ a.ts < b.ts /\ b.from # None /\ a.from # None /\ a.from # b.from
        /\ \A k \in DOMAIN graph.events :
              ~(a.ts < graph.events[k].ts /\ graph.events[k].ts < b.ts)

(* Two events with none strictly between them, of which the recipient of   *)
(* the first is not the giver of the second.                               *)
GraphGap ==
    \E i, j \in DOMAIN graph.events :
        LET a == graph.events[i]  b == graph.events[j] IN
        /\ a.ts < b.ts /\ b.from # None /\ a.to # b.from
        /\ \A k \in DOMAIN graph.events :
              ~(a.ts < graph.events[k].ts /\ graph.events[k].ts < b.ts)

(* cyber_experiments.py: detections count only when injected. *)
CyberExperiment2(reverse) ==
    [sqlGap   |-> broken /\ LeadGap(reverse),  neoGap   |-> broken /\ GraphGap,
     sqlCycle |-> cyclic /\ SelfJoin(rows),    neoCycle |-> cyclic /\ SelfJoin(graph.events)]

(* run_experiments.py: whatever a query returns counts as found. *)
RunExperiment2(reverse) ==
    [sqlGap   |-> LeadGap(reverse),     neoGap   |-> GraphGap,
     sqlCycle |-> ReceivedTwice(rows),  neoCycle |-> ReceivedTwice(graph.events)]

(* run_cyber_experiments.py: the queries of run_experiments.py, counted    *)
(* as in cyber_experiments.py.                                             *)
RunCyberExperiment2(reverse) ==
    [sqlGap   |-> broken /\ LeadGap(reverse),     neoGap   |-> broken /\ GraphGap,
     sqlCycle |-> cyclic /\ ReceivedTwice(rows),  neoCycle |-> cyclic /\ ReceivedTwice(graph.events)]

-----------------------------------------------------------------------------
TypeOK ==
    /\ pc \in {"custody", "sync", "break", "copyGap", "cycle", "copyCycle", "insider",
               "copyInsider", "over"}
    /\ rows \in Seq(Row) /\ pending \in Seq(Row)
    /\ \A i \in DOMAIN rows : rows[i].id = i
    /\ graph \in [node: BOOLEAN, linked: BOOLEAN, events: Seq(Event)]
    /\ broken \in BOOLEAN /\ cyclic \in BOOLEAN
    /\ failures \in 0 .. MaxFailures

Copied(i) == \E k \in DOMAIN graph.events : graph.events[k].id = rows[i].id

EndOfChain == CHOOSE t \in Times("custody") : \A s \in Times("custody") : s =< t
GapTime    == CHOOSE t \in Times("gap") : TRUE

(* The window function misses an injected gap only when the row of an      *)
(* insider has come to lie before the injected row, or the last rows       *)
(* before it have one timestamp and their order is anybody's guess.        *)
GapsAreMissedForAReason ==
    broken =>
        \/ \E t \in Times("insider") : EndOfChain =< t /\ t =< GapTime
        \/ \E i, j \in DOMAIN rows :
              i # j /\ rows[i].kind = "custody" /\ rows[j].kind = "custody"
                    /\ rows[i].ts = EndOfChain /\ rows[j].ts = EndOfChain
        \/ \A reverse \in BOOLEAN : LeadGap(reverse)

(* What is copied is found.  The graph query has no trouble with equal     *)
(* timestamps: it finds every injected gap of which the rows at its two    *)
(* ends are copied, but for an insider strictly between them.  An injected *)
(* cycle is found by each of the SQL queries, and by those on the graph    *)
(* once two, or all three, of its rows are copied.                         *)
CopiesAreFound ==
    LET ends     == {i \in DOMAIN rows : rows[i].kind = "gap" \/ rows[i].ts = EndOfChain}
        copied   == {i \in DOMAIN rows : rows[i].kind = "cycle" /\ Copied(i)}
        cyber    == CyberExperiment2(TRUE)
        runCyber == RunCyberExperiment2(TRUE)
    IN  /\ broken /\ (\A i \in ends : Copied(i)) =>
              \/ \E t \in Times("insider") : EndOfChain < t /\ t < GapTime
              \/ runCyber.neoGap
        /\ cyclic =>
              /\ cyber.sqlCycle /\ runCyber.sqlCycle
              /\ Cardinality(copied) > 1 => cyber.neoCycle
              /\ Cardinality(copied) > 2 => runCyber.neoCycle

(* The self join does not tell a cycle from an ordinary chain: it returns  *)
(* every simulated item, since its second giver is its first recipient.    *)
SelfJoinReturnsEverything ==
    rows # <<>> /\ Events > 1 => SelfJoin(rows)

(* The custody view does not see a simulated chain while the graph answers:*)
(* its chain has the injected events only, so that no gap it shows involves*)
(* another row, and an injected gap that is the only anomaly is not shown. *)
(* Two others do show that gap, at the injected event, unless times are    *)
(* equal: the view's own SQL fallback, when the graph does not answer, and *)
(* the anomaly endpoint, whose chain has the events of the first sync too, *)
(* without their giver: when that is read from the rows, or when the ends  *)
(* of the gap are copied.                                                  *)
ViewMissesInjectedGaps ==
    /\ \A i \in DOMAIN NeoChain(graph) : NeoChain(graph)[i].kind # "custody"
    /\ broken /\ ~cyclic /\ Times("insider") = {} =>
          /\ ViewGaps(SqlChain(FALSE), graph, TRUE) = {}
          /\ Cardinality(Times("custody")) = Events =>
                /\ ViewGaps(SqlChain(FALSE), graph, FALSE) # {}
                /\ \A read \in {0, Len(graph.events)} :
                      read = 0 \/ (Copied(Events) /\ Copied(Events + 1)) =>
                         LET chain == FullChain(SqlChain(FALSE), graph, read) IN
                         \E k \in GapAnomalies(chain) : chain[k + 1].kind = "gap"

(* What run_experiments.py counts as a recall is not: of an item without   *)
(* an injected gap it counts a gap only because of a cycle, an insider or  *)
(* two rows of one timestamp.                                              *)
FalseGapsHaveACause ==
    ~cyclic /\ Times("insider") = {} /\ Cardinality(Times("custody")) = Events =>
        \A reverse \in BOOLEAN :
            RunExperiment2(reverse).sqlGap => CyberExperiment2(reverse).sqlGap

=============================================================================
