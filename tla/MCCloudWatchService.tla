------------------------ MODULE MCCloudWatchService ------------------------
(* Small instances of the service for logs.                                *)
EXTENDS CloudWatchService, ServiceFactory

CONSTANTS r1, r2, r3

Records2 == {r1, r2}
Records3 == {r1, r2, r3}

Options == [file_upload_batch_size |-> 1, file_max_queue_size |-> 1,
            batch_max_queue_size |-> 2, batch_trigger_publish_size |-> 1,
            stream_max_queue_size |-> 1]
LogService == CreateLogService(Options)
ASSUME ValidOptions == Options \in UploaderOptions

MaxBatch   == LogService.max_batch
Trigger    == LogService.trigger
StreamSize == LogService.max_size[LogService.sink["batcher"]]
LogStops   == Stops(LogService.publisher)
=============================================================================
