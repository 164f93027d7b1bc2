SPECIFICATION UploadSpec
CONSTANTS
    w1 = w1
    NoFile = NoFile
    Path <- Paths5
    Token <- Tokens6
    Writer <- OneWriter
    RecordSizes = {1}
    MaxSize = 1
    MaxRecord = 2
    MaxFileSize = 2
    StorageLimit = 100
    SizeMod = 1000
    CountDigits = 10
    BatchSize = 2
    InOrder = TRUE
    SameSecond = FALSE
    FastRestart = FALSE
    MaxRuns = 1
    QueueSize = 1
    Time <- OneInstant
    OneDay = 5
    TwoWeeks = 10
    DeleteStaleData = FALSE
    Outcomes = {"SUCCESS"}
INVARIANTS
    AckedWasUploaded
CHECK_DEADLOCK FALSE
