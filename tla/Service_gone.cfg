SPECIFICATION Spec
CONSTANTS
    r1 = r1
    r2 = r2
    r3 = r3
    Record <- Records2
    MaxBatchSize <- MaxBatch
    TriggerSize <- Trigger
    QueueSize <- StreamSize
    PublisherStops <- LogStops
    MaxStarts = 1
INVARIANTS
    RunningMeansAlive
CHECK_DEADLOCK FALSE
