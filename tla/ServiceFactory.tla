--------------------------- MODULE ServiceFactory ---------------------------
(***************************************************************************)
(* The services as LogServiceFactory and MetricServiceFactory put them     *)
(* together: which stage writes to which queue, how many tasks fit on it,  *)
(* at which priority the work thread takes them off, and with which        *)
(* publisher, batcher and file manager.  The instances of ObservedQueue    *)
(* and CloudWatchService are built from what these operators return.       *)
(***************************************************************************)
EXTENDS Naturals, TLC

UploaderOptions ==
    [file_upload_batch_size : Nat, file_max_queue_size : Nat,
     batch_max_queue_size : Nat, batch_trigger_publish_size : Nat,
     stream_max_queue_size : Nat]

LOWEST_PRIORITY  == 0
HIGHEST_PRIORITY == 4

(* setSink and addSource: each stage has a queue, the monitor has both.    *)
Sinks == ("batcher" :> "stream") @@ ("streamer" :> "file")
Sources == ("stream" :> HIGHEST_PRIORITY) @@ ("file" :> LOWEST_PRIORITY)
MaxSizes(options) == ("stream" :> options.stream_max_queue_size)
                  @@ ("file" :> options.file_max_queue_size)

Pipeline(options) ==
    [max_batch    |-> options.batch_max_queue_size,
     trigger      |-> options.batch_trigger_publish_size,
     upload_batch |-> options.file_upload_batch_size,
     max_size     |-> MaxSizes(options),
     sink         |-> Sinks,
     priority     |-> Sources]

CreateLogService(options) ==
    [publisher |-> "LogPublisher", file_manager |-> "LogFileManager"] @@ Pipeline(options)

createMetricService(options) ==
    [publisher |-> "MetricPublisher", file_manager |-> "MetricFileManager"] @@ Pipeline(options)

(* shutdown() of a MetricPublisher returns without Publisher::shutdown.    *)
Stops(publisher) == publisher # "MetricPublisher"
=============================================================================
