SPECIFICATION FairSpec
CONSTANTS
    app1 = app1
    app3 = app3
    app2 = app2
    streamer = streamer
    QueueName <- Queues
    Producer <- Producers
    QueueOf <- SinkOf
    Direct <- Direct1
    Priority <- Priorities
    MaxQueueSize <- Sizes
    Cleared <- FileQueue
INVARIANTS
    TypeOK
    QueueBounded
    BlockedProducersAwaited
    OvertakenOnce
PROPERTIES
    TasksAreTaken
    ProducersReturn
