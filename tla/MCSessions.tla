----------------------------- MODULE MCSessions -----------------------------
(* An instance of Sessions for TLC: requests are interchangeable, and so   *)
(* are processes.                                                          *)
EXTENDS Sessions, TLC

Symmetry == Permutations(Worker) \cup Permutations(Process)

=============================================================================
