--------------------------- MODULE MCCustodyAudit ---------------------------
EXTENDS CustodyAudit

WorkersAlike == Permutations(Worker)

=============================================================================
