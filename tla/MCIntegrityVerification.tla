---------------------- MODULE MCIntegrityVerification ----------------------
(* Instances of IntegrityVerification for TLC: workers are interchangeable. *)
EXTENDS IntegrityVerification, TLC

Symmetry == Permutations(Worker)

=============================================================================
