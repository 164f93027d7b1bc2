SPECIFICATION Spec
CONSTANTS
    w1 = w1
    w2 = w2
    NoFile = NoFile
    Path <- Paths8
    Token <- Tokens6
    Writer <- OneWriter
    RecordSizes = {1}
    MaxSize = 1
    MaxRecord = 5
    MaxFileSize = 1
    StorageLimit = 100
    SizeMod = 1000
    CountDigits = 10
    BatchSize = 1
    InOrder = TRUE
    SameSecond = FALSE
    FastRestart = FALSE
    MaxRuns = 1
PROPERTIES
    DeletesOnlyWhenFull
CHECK_DEADLOCK FALSE
