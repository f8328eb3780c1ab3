\* One run of the simulator, seen from one piece of evidence.
SPECIFICATION Spec
CONSTANTS
    User = {u1, u2, u3}
    None = None
    Events = 3
    Actors = 2
    MaxTime = 3
    MaxDelay = 2
    MaxFailures = 1
SYMMETRY UsersAlike
\* The script ends.
CHECK_DEADLOCK FALSE
INVARIANTS
    GapsAreMissedForAReason
    CopiesAreFound
    ViewMissesInjectedGaps
    FalseGapsHaveACause
