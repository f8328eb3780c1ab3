\* One upload of which a statement fails.
SPECIFICATION Spec
CONSTANTS
    Worker = {w1, w2}
    FileName = {f1}
    Content = {b1}
    FaultSets = {{"sql"}}
    MaxClock = 2
INVARIANT MetadataIsInDB
