------------------------- MODULE MCEvidenceUpload -------------------------
(* Instances of EvidenceUpload for TLC: workers, file names and contents   *)
(* are interchangeable.                                                    *)
EXTENDS EvidenceUpload, TLC

Symmetry == Permutations(Worker) \cup Permutations(FileName) \cup Permutations(Content)

=============================================================================
