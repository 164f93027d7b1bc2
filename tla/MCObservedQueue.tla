-------------------------- MODULE MCObservedQueue --------------------------
(* The two queues of a service, each with room for one task: application   *)
(* threads write to the batcher's, the streamer to its own.                *)
EXTENDS ObservedQueue, ServiceFactory

CONSTANTS app1, app2, app3, streamer

Options == [file_upload_batch_size |-> 1, file_max_queue_size |-> 1,
            batch_max_queue_size |-> 2, batch_trigger_publish_size |-> 1,
            stream_max_queue_size |-> 1]
LogService == CreateLogService(Options)

(* Both factories wire their services alike.                               *)
ASSUME SameWiring ==
    /\ Options \in UploaderOptions
    /\ \A field \in {"max_size", "sink", "priority"} :
         LogService[field] = createMetricService(Options)[field]

Queues     == DOMAIN LogService.priority
Producers  == {app1, app2, app3, streamer}
Stage(p)   == IF p = streamer THEN "streamer" ELSE "batcher"
SinkOf     == [p \in Producers |-> LogService.sink[Stage(p)]]
Direct1    == {app2}
Priorities == LogService.priority
Sizes      == LogService.max_size
FileQueue  == {LogService.sink["streamer"]}
=============================================================================
