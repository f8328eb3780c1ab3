\* Two pieces of evidence; nothing fails, or anything may.
SPECIFICATION FairSpec
CONSTANTS
    alice = alice
    bob = bob
    carol = carol
    User = {alice, bob}
    Worker = {w1, w2}
    Evidence = {e1, e2}
    Case = {c1}
    None = None
    CaseOf <- OneCase
    Uploader <- AliceUploads
    FaultSets = {{}, {"sql", "mongo", "neo4j", "crash"}}
    MaxClock = 2
INVARIANT LogsTellTheTruth
PROPERTIES
    CloseSealsAll
    TransfersReachMirrors
