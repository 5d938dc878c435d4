CONSTANTS
    Ino = {i1}
    NoFile = NoFile
    LineLen = 2
    Chunk = 3
    BatchSize = 2
    MaxVersion = 1
    MaxSize = 4
    MaxCrashes = 1
    MaxFailures = 0
    MayTruncate = FALSE
SPECIFICATION Spec
INVARIANTS
    CountedOnce
