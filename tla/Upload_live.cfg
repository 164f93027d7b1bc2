SPECIFICATION FairUploadSpec
CONSTANTS
    w1 = w1
    NoFile = NoFile
    Path <- Paths5
    Token <- Tokens6
    Writer <- OneWriter
    RecordSizes = {1}
    MaxSize = 1
    MaxRecord = 2
    MaxFileSize = 1
    StorageLimit = 1
    SizeMod = 1000
    CountDigits = 10
    BatchSize = 1
    InOrder = TRUE
    SameSecond = FALSE
    FastRestart = FALSE
    MaxRuns = 1
    QueueSize = 1
    Time <- Ascending
    OneDay = 5
    TwoWeeks = 10
    DeleteStaleData = FALSE
    Outcomes <- AllOutcomes
INVARIANTS
    UploadTypeOK
    QueueBounded
PROPERTIES
    TokensComeBack
CHECK_DEADLOCK FALSE
