------------------------- MODULE ChainOfCustodyInv -------------------------
(***************************************************************************)
(* The inductive invariants behind the properties of ChainOfCustody, one   *)
(* for each group of properties, and the refinement of CustodyLedger.      *)
(***************************************************************************)
EXTENDS ChainOfCustody

(* The steps of a transfer whose row is written but not mirrored yet, and  *)
(* those that have passed the case check, the seal check, the holder read. *)
Mirroring     == {"logCustody", "graphCustody", "logTransfer"}
PastCaseCheck == {"checkSeal", "readHolder", "insert", "commit"}
PastSealCheck == {"readHolder", "insert", "commit"}
HolderKnown   == {"insert", "commit"}

(* The clock: nothing committed or begun lies in its future, and no two    *)
(* transfers begin at the same instant.                                    *)
ClockInv ==
    /\ \A r \in cocLogs : r.ts < r.at /\ r.at =< clock
    /\ \A s \in sealLog : s.at =< clock
    /\ \A s \in statusLog : s.at =< clock
    /\ \A w \in Worker : pc[w] \in Uncommitted => job[w].ts =< clock
    /\ \A q, r \in cocLogs : q.ts = r.ts => q = r
    /\ \A w \in Worker, r \in cocLogs : pc[w] \in Uncommitted => job[w].ts # r.ts
    /\ \A v, w \in Worker :
          pc[v] \in Uncommitted /\ pc[w] \in Uncommitted /\ job[v].ts = job[w].ts
             => v = w

(* log_id: every value drawn is below the sequence, and belongs to one row *)
(* or to one request.                                                      *)
IdInv ==
    /\ \A r \in cocLogs : r.id < nextLogId
    /\ \A w \in Worker : pc[w] = "commit" => job[w].id < nextLogId
    /\ \A w \in Worker, r \in cocLogs : pc[w] = "commit" => job[w].id # r.id
    /\ \A v, w \in Worker :
          pc[v] = "commit" /\ pc[w] = "commit" /\ job[v].id = job[w].id => v = w

(* A request that has reached the mirror writes has its row committed.     *)
LedgerInv ==
    /\ MirrorsFollowLedger
    /\ ReportedIsCommitted
    /\ \A w \in Worker :
          pc[w] \in Mirroring => CopyOf(job[w]) \in {CopyOf(r) : r \in cocLogs}

(* The giver a request has read is the uploader or has received a row.     *)
GiverInv ==
    /\ GiverHeldIt
    /\ \A w \in Worker :
          pc[w] \in HolderKnown =>
              \/ job[w].from = Uploader[job[w].ev]
              \/ \E q \in RowsOf(job[w].ev) : q.to = job[w].from

(* Unsealed evidence has an unseal after each of its seals; a request past *)
(* the seal check has seen one after each seal that preceded it.           *)
Undone(s, t) ==
    \E u \in sealLog : u.ev = s.ev /\ u.action = "unseal" /\ s.at < u.at /\ u.at < t

SealInv ==
    /\ SealStopsLaterTransfers
    /\ \A s \in sealLog :
          s.action = "seal" /\ ~sealed[s.ev] => Undone(s, clock + 1)
    /\ \A w \in Worker, s \in sealLog :
          /\ pc[w] \in PastSealCheck /\ s.ev = job[w].ev
          /\ s.action = "seal" /\ s.at < job[w].ts
          => Undone(s, clock + 1)

(* The same for the case: a status that is not closed came after every     *)
(* closing.                                                                *)
Reopened(s, t) ==
    \E u \in statusLog : u.case = s.case /\ u.status # "closed" /\ s.at < u.at /\ u.at < t

CloseInv ==
    /\ CloseStopsLaterTransfers
    /\ \A s \in statusLog :
          s.status = "closed" /\ caseStatus[s.case] # "closed" => Reopened(s, clock + 1)
    /\ \A w \in Worker, s \in statusLog :
          /\ pc[w] \in PastCaseCheck /\ s.case = CaseOf[job[w].ev]
          /\ s.status = "closed" /\ s.at < job[w].ts
          => Reopened(s, clock + 1)

(* A request whose transaction has met no commit of another transfer of    *)
(* its evidence knows the recipient of the last row.                       *)
Latest(p) == \A q \in RowsOf(p.ev) : q.ts =< p.ts

HolderInv ==
    /\ GapNeedsOverlap
    /\ \A w \in Worker :
          /\ pc[w] \in HolderKnown
          /\ \A q \in RowsOf(job[w].ev) : q.at =< job[w].ts
          => \A p \in RowsOf(job[w].ev) : Latest(p) => p.to = job[w].from

(* The conjunction.                                                        *)
InductiveInv ==
    /\ ClockInv
    /\ IdInv
    /\ LedgerInv
    /\ GiverInv
    /\ SealInv
    /\ CloseInv
    /\ HolderInv

-----------------------------------------------------------------------------
Ledger == INSTANCE CustodyLedger WITH
    ledger <- {CopyOf(r) : r \in cocLogs},
    documents <- custodyDocs,
    events <- graphTransfers

(* The handlers, with every failure and every interleaving, implement the  *)
(* ledger: rows appear with fresh ids and a giver who held the evidence,   *)
(* never change and never vanish, and only rows are mirrored.              *)
ImplementsLedger == Ledger!Spec

=============================================================================
