------------------------- MODULE CloudWatchService -------------------------
(***************************************************************************)
(* CloudWatchService (cloudwatch_service.h) with its batcher               *)
(* (data_batcher.h, log_batcher.cpp, metric_batcher.cpp), the stream queue *)
(* and its work thread (service.h): callers batch records, a full batch    *)
(* becomes a task on the queue, the work thread has it published, and what *)
(* cannot be is written to the file manager.  One owner starts the service *)
(* and shuts it down.                                                      *)
(*                                                                         *)
(* A record is given to the service once.  What an attempt to publish does *)
(* is the subject of LogPublisher and MetricPublisher, the queue that of   *)
(* ObservedQueue, the file manager and its streamer that of FileUpload.    *)
(***************************************************************************)
EXTENDS Naturals, Sequences, FiniteSets

CONSTANTS
    Record,
    MaxBatchSize,       \* max_allowable_batch_size_
    TriggerSize,        \* trigger_batch_size_
    QueueSize,          \* max_queue_size_ of the stream queue
    PublisherStops,     \* does shutdown() stop the publisher (logs), or nothing (metrics)
    MaxStarts           \* bound: times start() is called

(* validateConfigurableSizes; kDefaultTriggerSize, which never triggers, is *)
(* above any maximum.                                                       *)
kDefaultTriggerSize == MaxBatchSize + 1
ValidSizes(max, trigger) ==
    /\ max # 0 /\ trigger # 0
    /\ trigger = kDefaultTriggerSize \/ trigger < max

ASSUME ServiceAssumption ==
    /\ IsFiniteSet(Record)
    /\ MaxBatchSize \in Nat /\ TriggerSize \in Nat /\ ValidSizes(MaxBatchSize, TriggerSize)
    /\ QueueSize \in Nat \ {0}
    /\ PublisherStops \in BOOLEAN
    /\ MaxStarts \in Nat

VARIABLES
    service_state, should_run, publisher_state, batcher_state,
    owner,              \* where the owner is in start or shutdown
    thread,             \* where runnable_thread_ is; "none" when it is not joinable
    starts,
    fresh,              \* records nobody has given to the service
    batch,              \* batched_data_
    publishing,         \* where the caller that holds mtx is in publishBatchedData
    queue,              \* the data of the tasks on the stream queue
    task,               \* the data of the task the work thread has
    stored,             \* records given to the file manager
    uploaded, dropped,
    \* history
    early,              \* records in a batch that was cancelled with the batcher not STARTED
    repeated            \* records stored or uploaded more than once

lifecycle == <<service_state, should_run, publisher_state, batcher_state, owner, starts>>
batchVars == <<fresh, batch, publishing>>
results   == <<stored, uploaded, dropped, early, repeated>>
vars == <<lifecycle, thread, batchVars, queue, task, results>>

State == {"CREATED", "STARTED", "SHUTDOWN"}

TypeOK ==
    /\ service_state \in State /\ publisher_state \in State /\ batcher_state \in State
    /\ should_run \in {"yes", "no"}
    /\ owner \in {"idle", "startBatcher", "spawn", "started",
                  "stopThread", "stopPublisher", "lockPublisher", "stopBatcher", "empty", "join"}
    /\ thread \in {"none", "check", "dequeue", "notify", "taken", "attempt", "publish", "ended"}
    /\ starts \in 0..MaxStarts
    /\ fresh \subseteq Record
    /\ batch \subseteq Record /\ Cardinality(batch) <= MaxBatchSize
    /\ publishing \in {"no", "look", "enqueue", "wait", "woken"}
    /\ queue \in Seq(SUBSET Record)
    /\ task \subseteq Record
    /\ stored \subseteq Record /\ uploaded \subseteq Record /\ dropped \subseteq Record
    /\ early \subseteq Record /\ repeated \subseteq Record

Repeats(S) == repeated' = repeated \cup (S \cap (stored \cup uploaded))
Store(S)   == stored' = stored \cup S /\ Repeats(S) /\ UNCHANGED <<uploaded, dropped>>

(* The function publishBatchedData gives to a task: what is uploaded,      *)
(* given up, or written to the file manager.                               *)
OnStatus(status, data) ==
    \/ status = "SUCCESS" /\ uploaded' = uploaded \cup data /\ Repeats(data)
       /\ UNCHANGED <<stored, dropped>>
    \/ status = "INVALID_DATA" /\ dropped' = dropped \cup data
       /\ UNCHANGED <<stored, uploaded, repeated>>
    \/ status = "FAIL" /\ Store(data)
-----------------------------------------------------------------------------
(* The callers, one at a time inside the batcher: mtx *)

NeverTooMany(b) == FALSE                                          \* mutated form
TooMany(b) == Cardinality(b) > MaxBatchSize

(* batchData; a full batch is published before the call returns.           *)
BatchData(r) ==
    LET b == batch \cup {r} IN
    /\ publishing = "no"
    /\ r \in fresh
    /\ fresh' = fresh \ {r}
    /\ IF TooMany(b)
         THEN Store(b) /\ batch' = {} /\ UNCHANGED publishing
         ELSE /\ batch' = b
              /\ publishing' = IF Cardinality(b) >= TriggerSize THEN "look" ELSE "no"
              /\ UNCHANGED <<stored, uploaded, dropped, repeated>>
    /\ UNCHANGED <<lifecycle, thread, queue, task, early>>

publishBatchedData ==
    /\ publishing = "no"
    /\ batch # {}
    /\ publishing' = "look"
    /\ UNCHANGED <<lifecycle, thread, fresh, batch, queue, task, results>>

(* A batcher that is not STARTED cancels the task and keeps the batch.     *)
LookIfStarted ==
    /\ publishing = "look"
    /\ IF batcher_state = "STARTED"
         THEN publishing' = "enqueue" /\ UNCHANGED results
         ELSE publishing' = "no" /\ Store(batch) /\ early' = early \cup batch
    /\ UNCHANGED <<lifecycle, thread, fresh, batch, queue, task>>

KeepBatch == UNCHANGED batch                                      \* mutated form
ResetBatchedData == batch' = {}

HasRoom == Len(queue) < QueueSize

EnqueueTask ==
    /\ queue' = Append(queue, batch)
    /\ ResetBatchedData
    /\ publishing' = "no"
    /\ UNCHANGED results

(* tryEnqueue, with mtx held all the while.                                *)
TryEnqueue ==
    /\ publishing = "enqueue"
    /\ \/ HasRoom /\ EnqueueTask
       \/ /\ ~ HasRoom
          /\ publishing' = "wait"
          /\ UNCHANGED <<batch, queue, results>>
    /\ UNCHANGED <<lifecycle, thread, fresh, task>>

(* enqueueOnCondition has been woken and does not look at the size again.  *)
EnqueueAfterWait ==
    /\ publishing = "woken"
    /\ EnqueueTask
    /\ UNCHANGED <<lifecycle, thread, fresh, task>>

DropsTask == UNCHANGED results                                    \* mutated form
CancelTask == OnStatus("FAIL", batch) /\ UNCHANGED early

WaitsForEver == FALSE                                             \* mutated form
EnqueuesAnyway ==                                                 \* mutated form
    /\ publishing = "wait"
    /\ EnqueueTask
    /\ UNCHANGED <<lifecycle, thread, fresh, task>>
EnqueueTimesOut ==
    /\ publishing = "wait"
    /\ CancelTask
    /\ ResetBatchedData
    /\ publishing' = "no"
    /\ UNCHANGED <<lifecycle, thread, fresh, queue, task>>
-----------------------------------------------------------------------------
(* runnable_thread_: run and work *)

MayRun == should_run = "yes" /\ service_state = "STARTED"

CheckRun ==
    /\ thread = "check"
    /\ thread' = IF MayRun THEN "dequeue" ELSE "ended"
    /\ UNCHANGED <<lifecycle, batchVars, queue, task, results>>

(* The task is taken, and the producer told with the lock, at some later   *)
(* time: others may have filled the room by then.                          *)
Dequeue ==
    /\ thread = "dequeue"
    /\ queue # <<>>
    /\ task' = Head(queue)
    /\ queue' = Tail(queue)
    /\ thread' = "notify"
    /\ UNCHANGED <<lifecycle, batchVars, results>>

NotifiesWaiting ==                                                \* mutated form
    /\ thread = "notify"
    /\ publishing = "wait"
    /\ publishing' = "woken"
    /\ thread' = "taken"
    /\ UNCHANGED <<lifecycle, fresh, batch, queue, task, results>>
NotifyProducer ==
    /\ thread = "notify"
    /\ publishing' = IF publishing = "wait" THEN "woken" ELSE publishing
    /\ thread' = "taken"
    /\ UNCHANGED <<lifecycle, fresh, batch, queue, task, results>>

DequeueTimesOut ==
    /\ thread = "dequeue"
    /\ queue = <<>>
    /\ thread' = "check"
    /\ UNCHANGED <<lifecycle, batchVars, queue, task, results>>

(* BasicTask::onComplete, the last that is done with a task.               *)
Complete(status) ==
    /\ OnStatus(status, task)
    /\ task' = {}
    /\ thread' = "check"
    /\ UNCHANGED <<lifecycle, batchVars, queue, early>>

CancelTaken == thread = "taken" /\ service_state # "STARTED" /\ Complete("FAIL")

RunTask ==
    /\ thread = "taken"
    /\ service_state = "STARTED"
    /\ thread' = "attempt"
    /\ UNCHANGED <<lifecycle, batchVars, queue, task, results>>

(* attemptPublish: the look at the publisher's state, then its lock.       *)
RefuseTask == thread = "attempt" /\ publisher_state # "STARTED" /\ Complete("FAIL")

AttemptPublish ==
    /\ thread = "attempt"
    /\ publisher_state = "STARTED"
    /\ thread' = "publish"
    /\ UNCHANGED <<lifecycle, batchVars, queue, task, results>>

PublishEnds(status) == thread = "publish" /\ Complete(status)
-----------------------------------------------------------------------------
(* The owner *)

OwnerGoes(from, to) ==
    /\ owner = from
    /\ owner' = to
    /\ UNCHANGED <<batchVars, queue, task>>

(* start: publisher, batcher, streamer (in FileUpload), then the thread    *)
(* and last the state the thread looks at.                                 *)
StartPublisher ==
    /\ starts < MaxStarts
    /\ service_state # "STARTED"
    /\ OwnerGoes("idle", "startBatcher")
    /\ starts' = starts + 1
    /\ publisher_state' = "STARTED"
    /\ UNCHANGED <<service_state, should_run, batcher_state, thread, results>>

StartBatcher ==
    /\ OwnerGoes("startBatcher", "spawn")
    /\ batcher_state' = "STARTED"
    /\ UNCHANGED <<service_state, should_run, publisher_state, starts, thread, results>>

StartWorkerThread ==
    /\ OwnerGoes("spawn", "started")
    /\ IF thread = "none" THEN should_run' = "yes" /\ thread' = "check"
       ELSE UNCHANGED <<should_run, thread>>
    /\ UNCHANGED <<service_state, publisher_state, batcher_state, starts, results>>

SetStarted ==
    /\ OwnerGoes("started", "idle")
    /\ service_state' = "STARTED"
    /\ UNCHANGED <<should_run, publisher_state, batcher_state, starts, thread, results>>

SetShutdown ==
    /\ service_state = "STARTED"
    /\ OwnerGoes("idle", "stopThread")
    /\ service_state' = "SHUTDOWN"
    /\ UNCHANGED <<should_run, publisher_state, batcher_state, starts, thread, results>>

StopWorkerThread ==
    /\ OwnerGoes("stopThread", IF PublisherStops THEN "stopPublisher" ELSE "stopBatcher")
    /\ should_run' = "no"
    /\ UNCHANGED <<service_state, publisher_state, batcher_state, starts, thread, results>>

StopPublisher ==
    /\ OwnerGoes("stopPublisher", "lockPublisher")
    /\ publisher_state' = "SHUTDOWN"
    /\ UNCHANGED <<service_state, should_run, batcher_state, starts, thread, results>>

(* publish_mutex_ *)
LockPublisher ==
    /\ OwnerGoes("lockPublisher", "stopBatcher")
    /\ thread # "publish"
    /\ UNCHANGED <<service_state, should_run, publisher_state, batcher_state, starts, thread,
                   results>>

StopBatcher ==
    /\ OwnerGoes("stopBatcher", "empty")
    /\ batcher_state' = "SHUTDOWN"
    /\ UNCHANGED <<service_state, should_run, publisher_state, starts, thread, results>>

EmptyCollection ==
    /\ owner = "empty"
    /\ owner' = "join"
    /\ publishing = "no"
    /\ Store(batch)
    /\ batch' = {}
    /\ UNCHANGED <<service_state, should_run, publisher_state, batcher_state, starts, thread,
                   fresh, publishing, queue, task, early>>

Join ==
    /\ OwnerGoes("join", "idle")
    /\ thread \in {"none", "ended"}
    /\ thread' = "none"
    /\ UNCHANGED <<service_state, should_run, publisher_state, batcher_state, starts, results>>
-----------------------------------------------------------------------------
Init ==
    /\ service_state = "CREATED" /\ publisher_state = "CREATED" /\ batcher_state = "CREATED"
    /\ should_run = "no"
    /\ owner = "idle" /\ starts = 0
    /\ thread = "none"
    /\ fresh = Record /\ batch = {} /\ publishing = "no"
    /\ queue = <<>> /\ task = {}
    /\ stored = {} /\ uploaded = {} /\ dropped = {}
    /\ early = {} /\ repeated = {}

Publishing == LookIfStarted \/ TryEnqueue \/ EnqueueAfterWait \/ EnqueueTimesOut
Caller == (\E r \in Record : BatchData(r)) \/ publishBatchedData \/ Publishing
WorkThread == \/ CheckRun \/ Dequeue \/ NotifyProducer \/ DequeueTimesOut
              \/ CancelTaken \/ RunTask
              \/ RefuseTask \/ AttemptPublish
              \/ \E status \in {"SUCCESS", "INVALID_DATA", "FAIL"} : PublishEnds(status)
Starting == StartBatcher \/ StartWorkerThread \/ SetStarted
Stopping == \/ StopWorkerThread \/ StopPublisher \/ LockPublisher
            \/ StopBatcher \/ EmptyCollection \/ Join
Owner == StartPublisher \/ SetShutdown \/ Starting \/ Stopping

Next == Caller \/ WorkThread \/ Owner

Spec == Init /\ [][Next]_vars

(* Every thread goes on, a wait ends, and the owner gets a lock it waits   *)
(* for while others take it again and again.  Nobody need call anything.   *)
Fairness == /\ WF_vars(Publishing) /\ WF_vars(WorkThread)
            /\ WF_vars(Starting) /\ WF_vars(Stopping)
            /\ SF_vars(LockPublisher) /\ SF_vars(EmptyCollection)
FairSpec == Spec /\ Fairness
-----------------------------------------------------------------------------
(* Properties *)

Queued == {r \in Record : \E i \in 1..Len(queue) : r \in queue[i]}

(* A record that was given to the service is in the batch, in a task, with *)
(* the file manager, published, or was given up as invalid: no interleaving*)
(* of callers, work thread, start and shutdown loses it                    *)
(* (publishBatchedData, emptyCollection, work, shutdown).                  *)
NothingLost ==
    Record \ fresh \subseteq batch \cup Queued \cup task \cup stored \cup uploaded \cup dropped

(* A record is stored or published twice only if it was in a batch that    *)
(* was cancelled before start or after shutdown, which is not reset        *)
(* (publishBatchedData).                                                   *)
OnlyEarlyTwice == repeated \subseteq early

(* The stream queue outgrows its maximum by no more than one: one caller   *)
(* fills the room that was made for another, which does not look again     *)
(* (enqueueOnCondition, dequeue).                                          *)
QueueBounded == Len(queue) <= QueueSize + 1

(* shutdown comes to its end, with callers in tryEnqueue, a queue nobody   *)
(* takes from any more and an attempt to publish under way (shutdown).     *)
ShutdownReturns == owner = "stopThread" ~> owner = "idle"

(* What is on the queue comes to a result, as long as the service stays    *)
(* up and its thread was not spawned in vain (work, run).                  *)
QueuedIsWorkedOn ==
    \A r \in Record : r \in Queued \cup task ~>
        r \in stored \cup uploaded \cup dropped \/ service_state # "STARTED" \/ thread = "ended"

(* isRunning() says that the work thread is active.                        *)
isRunning == service_state = "STARTED" /\ should_run = "yes"
RunningMeansAlive == isRunning => thread \notin {"none", "ended"}
=============================================================================
