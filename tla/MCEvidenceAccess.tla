-------------------------- MODULE MCEvidenceAccess --------------------------
(* An instance of EvidenceAccess for TLC: nothing fails, or PostgreSQL and *)
(* the bucket do, or MongoDB and the processes.                            *)
EXTENDS EvidenceAccess

FaultSetsTried == {{}, {"sql", "storage"}, {"mongo", "crash"}}

=============================================================================
