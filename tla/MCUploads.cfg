\* Two concurrent uploads and edits of the case: only mirrors fail, or
\* PostgreSQL and processes do, or the bucket does.
SPECIFICATION Spec
CONSTANTS
    Worker = {w1, w2}
    FileName = {f1, f2}
    Content = {b1, b2}
    FaultSets = {{"mongo", "neo4j"}, {"sql", "crash"}, {"storage", "network"}}
    MaxClock = 3
SYMMETRY Symmetry
INVARIANTS
    OneRowPerPath
    RowsAreReadable
    TwinsOverlap
    NoOrphans
    LateUploadsOverlapClosing
