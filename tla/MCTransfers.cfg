\* Two concurrent requests on one piece of evidence, PostgreSQL, Neo4j and processes may fail.
SPECIFICATION Spec
CONSTANTS
    alice = alice
    bob = bob
    carol = carol
    User = {alice, bob, carol}
    Worker = {w1, w2}
    Evidence = {e1}
    Case = {c1}
    None = None
    CaseOf <- OneCase
    Uploader <- AliceUploads
    FaultSets = {{"sql", "neo4j", "crash"}}
    MaxClock = 4
SYMMETRY WorkersAndRecipients
INVARIANTS
    GapNeedsOverlap
    SealStopsLaterTransfers
    CloseStopsLaterTransfers
PROPERTY ImplementsLedger
