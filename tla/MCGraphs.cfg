\* Reports, verifications and a graph that may miss an edge, beside two requests.
SPECIFICATION Spec
CONSTANTS
    User = {1, 2}
    None = None
    Uploader = 1
    Creator = 2
    Sealers = {2}
    Verifiers = {1}
    Worker = {w1, w2}
    Reporting = {w1, w2}
    FaultSets = {{}, {"sql", "neo4j", "crash"}}
    MaxRows = 2
    MaxSeals = 1
    MaxChecks = 1
SYMMETRY WorkersAlike
INVARIANT GraphShowsTheRows
