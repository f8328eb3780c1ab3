-------------------------- MODULE MCSimulationRuns --------------------------
EXTENDS SimulationRuns

AllProfiles == [1 .. 5 -> 0 .. 3]

=============================================================================
