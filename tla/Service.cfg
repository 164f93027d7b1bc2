SPECIFICATION FairSpec
CONSTANTS
    r1 = r1
    r2 = r2
    r3 = r3
    Record <- Records3
    MaxBatchSize <- MaxBatch
    TriggerSize <- Trigger
    QueueSize <- StreamSize
    PublisherStops <- LogStops
    MaxStarts = 2
INVARIANTS
    TypeOK
    NothingLost
    OnlyEarlyTwice
    QueueBounded
PROPERTIES
    ShutdownReturns
    QueuedIsWorkedOn
CHECK_DEADLOCK FALSE
