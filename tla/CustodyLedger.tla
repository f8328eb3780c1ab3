--------------------------- MODULE CustodyLedger ---------------------------
(***************************************************************************)
(* What the chain of custody promises, whatever the requests, failures and *)
(* crashes behind it: a ledger of transfers that only grows, in which each *)
(* giver is the uploader or an earlier recipient, and two stores that hold *)
(* copies of ledger entries and nothing else.  ChainOfCustody implements   *)
(* it with the rows of coc_logs, MongoDB's custody_logs and the transfer   *)
(* events of Neo4j.                                                        *)
(***************************************************************************)
EXTENDS Naturals

CONSTANTS Evidence, User, Uploader

VARIABLES ledger, documents, events

vars == <<ledger, documents, events>>

Init == ledger = {} /\ documents = {} /\ events = {}

Holders(e) == {Uploader[e]} \cup {x.to : x \in {y \in ledger : y.ev = e}}

(* One new entry, under an id of its own, from somebody who held it. *)
Transfer ==
    /\ \E x \in ledger' :
          /\ x.id \in Nat /\ x.ev \in Evidence /\ x.to \in User
          /\ \A y \in ledger : y.id # x.id
          /\ x.from \in Holders(x.ev)
          /\ ledger' = ledger \cup {x}
    /\ UNCHANGED <<documents, events>>

CopyToDocuments(x) ==
    /\ documents' = documents \cup {x}
    /\ UNCHANGED <<ledger, events>>

CopyToEvents(x) ==
    /\ events' = events \cup {x}
    /\ UNCHANGED <<ledger, documents>>

Next ==
    \/ Transfer
    \/ \E x \in ledger : CopyToDocuments(x) \/ CopyToEvents(x)

Spec == Init /\ [][Next]_vars

=============================================================================
