\* Two requests at a time on two pieces of evidence: every one is answered, when
\* nothing goes wrong and when processes die.
SPECIFICATION FairSpec
CONSTANTS
    Evidence = {1, 2}
    Worker = {w1, w2}
    None = None
    Limit = 2
    Age = 1
    FaultSets = {{}, {"crash"}}
    MaxClock = 3
PROPERTY VerificationsEnd
