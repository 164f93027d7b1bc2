SPECIFICATION UploadSpec
CONSTANTS
    w1 = w1
    NoFile = NoFile
    Path <- ThreePerSecond
    Token <- Tokens6
    Writer <- OneWriter
    RecordSizes = {1}
    MaxSize = 1
    MaxRecord = 3
    MaxFileSize = 2
    StorageLimit = 100
    SizeMod = 1000
    CountDigits = 10
    BatchSize = 2
    InOrder = FALSE
    SameSecond = TRUE
    FastRestart = TRUE
    MaxRuns = 2
    QueueSize = 1
    Time <- Older
    OneDay = 5
    TwoWeeks = 8
    DeleteStaleData = TRUE
    Outcomes = {"SUCCESS", "FAIL"}
INVARIANTS
    TokenHasOneHolder
    StoredFilesExist
    AckedWasUploaded
    StagedXorTracked
    
CHECK_DEADLOCK FALSE
