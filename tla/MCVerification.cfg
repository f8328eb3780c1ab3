\* Two requests at a time on two pieces of evidence: PostgreSQL and processes fail,
\* or MongoDB and Neo4j do.
SPECIFICATION Spec
CONSTANTS
    Evidence = {1, 2}
    Worker = {w1, w2}
    None = None
    Limit = 2
    Age = 1
    FaultSets = {{"sql", "crash"}, {"mongo", "neo4j"}}
    MaxClock = 2
SYMMETRY Symmetry
INVARIANTS
    GoesBackOnlyByOverlap
    EventsHaveHistory
    OnlySealsDeadlock
