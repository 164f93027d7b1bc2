SPECIFICATION FairSpec
CONSTANTS
    w1 = w1
    w2 = w2
    NoFile = NoFile
    Path <- Paths6
    Token <- Tokens5
    Writer <- OneWriter
    RecordSizes = {1}
    MaxSize = 1
    MaxRecord = 4
    MaxFileSize = 3
    StorageLimit = 100
    SizeMod = 1000
    CountDigits = 10
    BatchSize = 2
    InOrder = TRUE
    SameSecond = FALSE
    FastRestart = FALSE
    MaxRuns = 2
INVARIANTS
    TypeOK
    SentTokensResolve
    StagedXorTracked
    WriteFileProtected
    StoredFilesExist
    NoFileStranded
    NothingSkipped
PROPERTIES
    ImplementsStore
    EventuallyUploaded
CHECK_DEADLOCK FALSE
