\* Two concurrent requests on one piece of evidence.
SPECIFICATION Spec
CONSTANTS
    User = {1, 2, 3}
    None = None
    Uploader = 1
    Creator = 3
    Sealers = {2}
    Verifiers = {}
    Worker = {w1, w2}
    Reporting = {}
    FaultSets = {{}, {"sql", "neo4j", "crash"}}
    MaxRows = 3
    MaxSeals = 1
    MaxChecks = 0
SYMMETRY WorkersAlike
\* Requests are bounded, and nobody has to ask for more.
CHECK_DEADLOCK FALSE
INVARIANTS
    EventsFollowRows
    ReadersAgree
    OnlySealsHideGaps
    OmissionsHaveACause
    CyclesNeedGaps
    ExchangesAreReported
