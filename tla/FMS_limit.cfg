SPECIFICATION Spec
CONSTANTS
    w1 = w1
    w2 = w2
    NoFile = NoFile
    Path <- Paths6
    Token <- Tokens4
    Writer <- Writers
    RecordSizes = {1, 3}
    MaxSize = 3
    MaxRecord = 3
    MaxFileSize = 2
    StorageLimit = 4
    SizeMod = 1000
    CountDigits = 10
    BatchSize = 1
    InOrder = TRUE
    SameSecond = FALSE
    FastRestart = FALSE
    MaxRuns = 1
INVARIANTS
    WriteFileBounded
PROPERTIES
    ImplementsStore
    DeletesOldestFirst
SYMMETRY WriterSymmetry
CHECK_DEADLOCK FALSE
