------------------------- MODULE MCSimulatedCustody -------------------------
EXTENDS SimulatedCustody

UsersAlike == Permutations(User)

=============================================================================
