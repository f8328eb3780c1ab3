\* One browser, two processes, two requests at a time: logins and writes beside
\* logouts and restarts, or failed logins over time.
SPECIFICATION Spec
CONSTANTS
    User = {ivy, lee}
    Writers = {ivy}
    Demo = Demo
    None = None
    Browser = {b1}
    Process = {p1, p2}
    Worker = {w1, w2}
    KindSets = {{"login", "demo", "logout", "add"}, {"fail"}}
    FaultSets = {{}, {"sql", "neo4j"}, {"mongo"}}
    Threshold = 2
    Window = 1
    MaxRequests = 3
    MaxKeys = 3
    MaxClock = 2
SYMMETRY Symmetry
\* Requests are bounded, and browsers may stop asking.
CHECK_DEADLOCK FALSE
INVARIANTS
    DemoWritesNothing
    LogoutHolds
    AlertsAreSpaced
    BruteForceIsRaised
