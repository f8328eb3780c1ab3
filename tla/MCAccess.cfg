\* A lawyer and an investigator, two requests at a time.
SPECIFICATION Spec
CONSTANTS
    Open = {ivy}
    Restricted = {lee}
    Worker = {w1, w2}
    FaultSets <- FaultSetsTried
    MaxRequests = 1
    MaxChanges = 3
INVARIANTS
    OnlyEntitledAreServed
    NothingLeavesUnlogged
    AuditFollowsTable
