CONSTANTS
    Ino = {i1, i2}
    NoFile = NoFile
    LineLen = 2
    Chunk = 5
    BatchSize = 2
    MaxVersion = 2
    MaxSize = 6
    MaxCrashes = 1
    MaxFailures = 1
    MayTruncate = TRUE
SPECIFICATION FairSpec
INVARIANTS
    PositionIsSound
    RecountNeedsCrash
PROPERTIES
    SavedNeverBack
    EveryLineSettles
ACTION_CONSTRAINT Logs
