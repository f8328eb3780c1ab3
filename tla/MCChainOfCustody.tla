------------------------- MODULE MCChainOfCustody -------------------------
(* Instances of ChainOfCustody for TLC: functions for the constants that a *)
(* cfg cannot write, and the symmetry of workers and of the users who did  *)
(* not upload anything.                                                    *)
EXTENDS ChainOfCustodyInv, TLC

CONSTANTS alice, bob, carol

OneCase == [e \in Evidence |-> CHOOSE c \in Case : TRUE]
AliceUploads == [e \in Evidence |-> alice]

WorkersAndRecipients == Permutations(Worker) \cup Permutations(User \ {alice})
WorkersAndEvidence == Permutations(Worker) \cup Permutations(Evidence)

=============================================================================
