----------------------------- MODULE FileUpload -----------------------------
(***************************************************************************)
(* The upload of the offline storage: FileManager, FileUploadStreamer,     *)
(* FileUploadTask, the queue of file tasks and the thread that works on    *)
(* it, over FileManagerStrategy.                                           *)
(*                                                                         *)
(* The streamer reads a batch of lines, makes a task of it and queues it;  *)
(* it does not wait for the outcome and reads on.  The worker publishes    *)
(* task after task.  When one fails it clears the queue and gives the      *)
(* tokens of the failed task back.  Threads that write to the storage tell *)
(* the streamer so through a status monitor, after the fact.               *)
(*                                                                         *)
(* InOrder of FileManagerStrategy tells MetricFileManager (TRUE), which    *)
(* keeps the order of reading, from LogFileManager, which sorts by time    *)
(* and keeps the lines of one day.                                         *)
(***************************************************************************)
EXTENDS FileManagerStrategy

CONSTANTS
    QueueSize,          \* file_max_queue_size
    Time,               \* record -> its time stamp
    OneDay,             \* ONE_DAY_IN_MILLISEC
    TwoWeeks,           \* TWO_WEEK_IN_MILLISEC
    DeleteStaleData,    \* the option delete_stale_data
    Outcomes            \* statuses the publisher can return

ASSUME UploadAssumption ==
    /\ QueueSize \in Nat \ {0}
    /\ Time \in [1..MaxRecord -> Nat]
    /\ OneDay \in Nat /\ TwoWeeks \in Nat
    /\ DeleteStaleData \in BOOLEAN
    /\ Outcomes \subseteq {"SUCCESS", "FAIL", "INVALID_DATA"} /\ Outcomes # {}

VARIABLES
    streamer,           \* where the streamer's thread is; it reads into batch
    stored_task,        \* stored_task_: none or one task that is not queued yet
    queue,              \* the queue of file tasks
    worker,             \* where the thread of CloudWatchService is
    task,               \* the task it works on
    status,             \* the outcome of that task
    stale_data,         \* tokens of lines that are too old to upload
    data_available,     \* file_status_monitor_
    announcing,         \* writers that have not yet set file_status_monitor_
    owner,              \* what shutdown() of CloudWatchService comes to next
    uploaded,           \* history: records the service has received
    expired             \* history: records deleted as stale

streamerVars == <<streamer, stored_task, stale_data>>
workerVars   == <<worker, task, status>>
monitorVars  == <<data_available, announcing, owner>>
outcomeVars  == <<uploaded, expired>>
pipelineVars == <<streamerVars, queue, workerVars, monitorVars, outcomeVars>>
uploadVars   == <<vars, pipelineVars>>

storageVars  == <<tokenVars, diskVars, storedVars, writeVars, readVars, writer>>

(* FileObject: the tokens, and the data that is sent.                      *)
Task   == [tokens : Seq(HeldToken), data : SUBSET Record]
NoTask == [tokens |-> <<>>, data |-> {}]

(* The types of the pipeline, over those of the storage (FileObject,       *)
(* stored_task_, stale_data_ and the two threads).                         *)
UploadTypeOK ==
    /\ TypeOK
    /\ streamer \in {"idle", "wait", "read", "line", "look", "close", "enqueue", "blocked",
                     "woken", "stale"}
    /\ stored_task \in Seq(Task) /\ Len(stored_task) <= 1
    /\ queue \in Seq(Task)
    /\ worker \in {"idle", "dequeue", "notify", "run", "clear", "settle"}
    /\ task \in Task
    /\ status \in {"UNKNOWN", "SUCCESS", "FAIL", "INVALID_DATA"}
    /\ stale_data \in Seq(HeldToken)
    /\ data_available \in BOOLEAN
    /\ announcing \subseteq Writer
    /\ owner \in {"idle", "stopBatcher", "stopStreamer"}
    /\ uploaded \subseteq Record /\ expired \subseteq Record
-----------------------------------------------------------------------------
(* readBatch *)

TimeOf(h) == IF h.record = NoRecord THEN 0 ELSE Time[h.record]
RecordsOf(b) == {b[i].record : i \in DOMAIN b} \ {NoRecord}
TaskOf(kept, data) == [tokens |-> kept, data |-> data]

Age(i, b) == Max({TimeOf(b[j]) : j \in DOMAIN b}) - TimeOf(b[i])

(* Lines of b, chosen and ordered by the sequence m of their places.       *)
Lines(b, m) == [k \in DOMAIN m |-> b[m[k]]]

(* LogFileManager: the latest line first, lines of one time in any order,  *)
(* as it is the text of a line that decides then; and only what is younger *)
(* than a day; what is older than two weeks may be put aside to be deleted.*)
LatestFirst(b, S) ==
    {m \in SetToSeqs(S) : \A j, k \in DOMAIN m : j < k => TimeOf(b[m[j]]) >= TimeOf(b[m[k]])}
Young(b)  == {i \in DOMAIN b : Age(i, b) < OneDay}
TooOld(b) == {i \in DOMAIN b \ Young(b) : DeleteStaleData /\ Age(i, b) > TwoWeeks}
LogTasksOfAll(b) == {TaskOf(b, RecordsOf(Lines(b, m))) :          \* mutated form
                     m \in LatestFirst(b, Young(b))}
LogTasks(b) == {TaskOf(Lines(b, m), RecordsOf(Lines(b, m))) : m \in LatestFirst(b, Young(b))}

(* MetricFileManager: the lines as they were read, without those that do   *)
(* not parse.  The data is a set in which equal time stamps are equal, the *)
(* first to come stays.                                                    *)
AsRead(S) == {m \in SetToSeqs(S) : \A j, k \in DOMAIN m : j < k => m[j] < m[k]}
FirstOfTime(kept) ==
    {kept[i].record : i \in {k \in DOMAIN kept :
        \A j \in 1..(k - 1) : TimeOf(kept[j]) # TimeOf(kept[k])}}
MetricTasks(b) == {TaskOf(Lines(b, m), FirstOfTime(Lines(b, m))) :
                   m \in AsRead({i \in DOMAIN b : b[i].record # NoRecord})}

BatchTasks(b) == IF InOrder THEN MetricTasks(b) ELSE LogTasks(b)
StaleLines(b) == IF InOrder THEN {<<>>} ELSE {Lines(b, m) : m \in LatestFirst(b, TooOld(b))}
-----------------------------------------------------------------------------
(* The streamer: FileUploadStreamer::run() and work() *)

(* One line of readBatch: it looks whether there is data; FileManager::read*)
(* takes the line from the storage, where a deletion may have been first   *)
(* (Crash), looks for more, and sets the monitor if there is none.         *)
LookForLine ==
    /\ streamer = "read"
    /\ Len(batch) < BatchSize
    /\ isDataAvailable
    /\ streamer' = "line"
    /\ UNCHANGED <<vars, stored_task, stale_data, queue, workerVars, monitorVars, outcomeVars>>

ReadBatchLine ==
    /\ streamer = "line"
    /\ Read
    /\ streamer' = "look"
    /\ UNCHANGED <<stored_task, stale_data, queue, workerVars, monitorVars, outcomeVars>>

LookForMore ==
    /\ streamer = "look"
    /\ streamer' = IF isDataAvailable THEN "read" ELSE "close"
    /\ UNCHANGED <<vars, stored_task, stale_data, queue, workerVars, monitorVars, outcomeVars>>

DataNoLongerAvailable ==
    /\ streamer = "close"
    /\ streamer' = "read"
    /\ data_available' = FALSE
    /\ UNCHANGED <<vars, stored_task, stale_data, queue, workerVars, announcing, owner,
                   outcomeVars>>

BatchRead == streamer = "read" /\ (Len(batch) = BatchSize \/ ~ isDataAvailable)

EndBatch ==
    /\ BatchRead
    /\ InOrder \/ batch # <<>>
    /\ streamer' = "enqueue"
    /\ batch' = <<>>
    /\ \E t \in BatchTasks(batch) : stored_task' = <<t>>
    /\ \E old \in StaleLines(batch) : stale_data' = stale_data \o old
    /\ UNCHANGED <<storageVars, verdict, processVars, history, queue, workerVars, monitorVars,
                   outcomeVars>>

(* The run flag is looked at once for each work().                         *)
StreamerLoops ==
    /\ mode = "up"
    /\ streamer = "idle"
    /\ streamer' = IF stored_task = <<>> THEN "wait" ELSE "enqueue"
    /\ UNCHANGED <<vars, stored_task, stale_data, queue, workerVars, monitorVars, outcomeVars>>

(* At once when the network is up, and else when the wait times out: for   *)
(* what can happen, the network monitor makes no difference.               *)
isDataAvailableToRead == data_available

FoundWork ==
    /\ Up
    /\ streamer = "wait"
    /\ isDataAvailableToRead
    /\ streamer' = "read"
    /\ UNCHANGED <<vars, stored_task, stale_data, queue, workerVars, monitorVars, outcomeVars>>

(* ObservedBlockingQueue::tryEnqueue: what has waited and is woken does    *)
(* not look at the size again.                                             *)
HasRoomForOneMore == Len(queue) <= QueueSize                      \* mutated form
HasRoom == Len(queue) < QueueSize
AcceptedKeepsTask == /\ queue' = queue \o stored_task            \* mutated form
                     /\ stored_task' = stored_task
                     /\ streamer' = "stale"
Accepted == /\ queue' = queue \o stored_task
            /\ stored_task' = <<>>
            /\ streamer' = "stale"

TryEnqueue ==
    /\ Up
    /\ \/ /\ streamer = "woken" \/ (streamer = "enqueue" /\ HasRoom)
          /\ Accepted
       \/ /\ streamer = "enqueue" /\ ~ HasRoom
          /\ streamer' = "blocked"
          /\ UNCHANGED <<queue, stored_task>>
    /\ UNCHANGED <<vars, stale_data, workerVars, monitorVars, outcomeVars>>

(* clear() wakes nobody: a blocked streamer may wait at an empty queue.    *)
EnqueueWaitsOn == FALSE                                           \* mutated form
EnqueueTimesOut ==
    /\ Up
    /\ streamer = "blocked"
    /\ streamer' = "stale"
    /\ UNCHANGED <<vars, stored_task, stale_data, queue, workerVars, monitorVars, outcomeVars>>

(* FileManager::deleteStaleData, token by token.                           *)
DeleteStale ==
    /\ Up
    /\ streamer = "stale"
    /\ IF stale_data = <<>>
         THEN /\ streamer' = "idle"
              /\ UNCHANGED <<vars, stale_data, expired>>
         ELSE /\ ForgetLine(Last(stale_data).token)
              /\ stale_data' = Front(stale_data)
              /\ expired' = expired \cup RecordsOf(<<Last(stale_data)>>)
              /\ UNCHANGED <<streamer, stored_files, writeVars, readVars, writer, clientVars,
                             processVars, history>>
    /\ UNCHANGED <<stored_task, queue, workerVars, monitorVars, uploaded>>
-----------------------------------------------------------------------------
(* The worker: CloudWatchService::run() and work(), Task::run, cancel, and *)
(* onComplete of the streamer and of FileManager                           *)

WorkerLoops ==
    /\ mode = "up"
    /\ owner = "idle"
    /\ worker = "idle"
    /\ worker' = "dequeue"
    /\ UNCHANGED <<vars, streamerVars, queue, task, status, monitorVars, outcomeVars>>

(* A task of the batcher, from the queue that is looked at first, or none. *)
WorkOnStream ==
    /\ Up
    /\ worker = "dequeue"
    /\ worker' = "idle"
    /\ UNCHANGED <<vars, streamerVars, queue, task, status, monitorVars, outcomeVars>>

(* ObservedBlockingQueue::dequeue takes the task away with no lock and     *)
(* then, with the lock, wakes a producer, be there room or not by then.    *)
Dequeue ==
    /\ worker = "dequeue"
    /\ queue # <<>>
    /\ worker' = "notify"
    /\ task' = Head(queue)
    /\ queue' = Tail(queue)
    /\ UNCHANGED <<vars, streamerVars, status, monitorVars, outcomeVars>>

NotifyProducer ==
    /\ worker = "notify"
    /\ worker' = "run"
    /\ streamer' = IF streamer = "blocked" THEN "woken" ELSE streamer
    /\ UNCHANGED <<vars, stored_task, stale_data, queue, task, status, monitorVars, outcomeVars>>

AfterRun(s) == IF s = "FAIL" THEN "clear"
               ELSE IF task.tokens = <<>> THEN "idle" ELSE "settle"

(* The publishers refuse an empty batch.  After shutdown the task is       *)
(* cancelled, unless the worker was past the check: MetricPublisher goes   *)
(* on publishing, and LogPublisher does if it had checked its state.       *)
PublishOutcomes ==
    (IF task.tokens = <<>> THEN {"INVALID_DATA"} ELSE Outcomes)
      \cup (IF owner = "idle" THEN {} ELSE {"FAIL"})

RunTask ==
    /\ Up
    /\ worker = "run"
    /\ status' \in PublishOutcomes
    /\ worker' = AfterRun(status')
    /\ uploaded' = IF status' = "SUCCESS" THEN uploaded \cup task.data ELSE uploaded
    /\ UNCHANGED <<vars, streamerVars, queue, task, monitorVars, expired>>

ClearQueue ==
    /\ worker = "clear"
    /\ queue' = <<>>
    /\ worker' = IF task.tokens = <<>> THEN "idle" ELSE "settle"
    /\ UNCHANGED <<vars, streamerVars, task, status, monitorVars, outcomeVars>>

NextToken == Head(task.tokens)
TaskSent == status = "SUCCESS"

(* fileUploadCompleteStatus gives back one token.                          *)
SettleToken ==
    /\ worker = "settle"
    /\ task' = [task EXCEPT !.tokens = Tail(@)]
    /\ worker' = IF Len(task.tokens) = 1 THEN "idle" ELSE "settle"
    /\ IF TaskSent
         THEN /\ ForgetLine(NextToken.token)
              /\ acked' = acked \cup RecordsOf(<<NextToken>>)
              /\ UNCHANGED <<stored_files, data_available>>
         ELSE /\ KeepLine(NextToken.token)
              /\ data_available' = TRUE
              /\ UNCHANGED <<diskVars, stored_files_size, acked>>
    /\ UNCHANGED <<writeVars, readVars, writer, clientVars, processVars, written, dropped,
                   streamerVars, queue, status, announcing, owner, outcomeVars>>
-----------------------------------------------------------------------------
(* Writers, start, shutdown and the end of the process *)

PipelineGone ==
    /\ streamer' = "idle" /\ stored_task' = <<>> /\ stale_data' = <<>>
    /\ queue' = <<>>
    /\ worker' = "idle" /\ task' = NoTask /\ status' = "UNKNOWN"
    /\ data_available' = FALSE /\ announcing' = {} /\ owner' = "idle"
    /\ UNCHANGED outcomeVars

(* FileManager::write of a collection sets the monitor at its end; when an *)
(* exception leaves it earlier, nothing does.                              *)
WriteRecord(w) ==
    /\ Write(w)
    /\ IF mode' = "down" THEN PipelineGone
       ELSE /\ announcing' = IF writer[w].at = "append" THEN announcing \cup {w}
                             ELSE IF writer[w].at = "delete" /\ writer'[w] = Idle
                                    THEN announcing \ {w}
                                    ELSE announcing
            /\ UNCHANGED <<streamerVars, queue, workerVars, data_available, owner, outcomeVars>>

Announce(w) ==
    /\ w \in announcing
    /\ writer[w] = Idle
    /\ announcing' = announcing \ {w}
    /\ data_available' = TRUE
    /\ UNCHANGED <<vars, streamerVars, queue, workerVars, owner, outcomeVars>>

StartService ==
    /\ Start
    /\ data_available' = isDataAvailable'
    /\ UNCHANGED <<streamerVars, queue, workerVars, announcing, owner, outcomeVars>>

(* CloudWatchService::shutdown.  First the worker is told to stop ...      *)
StopWorker ==
    /\ mode = "up"
    /\ owner = "idle"
    /\ owner' = "stopBatcher"
    /\ UNCHANGED <<vars, streamerVars, queue, workerVars, data_available, announcing,
                   outcomeVars>>

(* ... then the batcher writes its collection, as a Writer does, and sets  *)
(* the monitor, be the collection empty or not ...                         *)
EmptyCollection ==
    /\ owner = "stopBatcher"
    /\ owner' = "stopStreamer"
    /\ data_available' = TRUE
    /\ UNCHANGED <<vars, streamerVars, queue, workerVars, announcing, outcomeVars>>

(* ... and the streamer is told to stop, the data are UNAVAILABLE, and the *)
(* tokens are saved.                                                       *)
ShutdownService ==
    /\ owner = "stopStreamer"
    /\ Shutdown
    /\ data_available' = FALSE
    /\ UNCHANGED <<streamerVars, queue, workerVars, announcing, owner, outcomeVars>>

(* What ends the process: the exception of getFileToRead, which nothing    *)
(* catches in the streamer's thread, and undefined behaviour, the top of   *)
(* an empty priority queue in LogFileManager::readBatch and                *)
(* TokenStore::resolve erasing a token from a list that does not hold it.  *)
NoFileToRead == streamer = "line" /\ ~ isDataAvailable
TopOfEmptyBatch == BatchRead /\ ~ InOrder /\ batch = <<>>
EraseOfAbsent(t) == Resolvable(t) /\ ErasesEnd(t)
Crash ==
    /\ Up
    /\ \/ NoFileToRead
       \/ TopOfEmptyBatch
       \/ worker = "settle" /\ TaskSent /\ EraseOfAbsent(NextToken.token)
       \/ streamer = "stale" /\ stale_data # <<>> /\ EraseOfAbsent(Last(stale_data).token)
    /\ LoseMemory
    /\ UNCHANGED <<diskVars, now, runs, history>>
    /\ PipelineGone

EndOfProcess == ProcessEnds /\ PipelineGone
-----------------------------------------------------------------------------
UploadInit ==
    /\ Init
    /\ streamer = "idle" /\ stored_task = <<>> /\ stale_data = <<>>
    /\ queue = <<>>
    /\ worker = "idle" /\ task = NoTask /\ status = "UNKNOWN"
    /\ data_available = FALSE /\ announcing = {} /\ owner = "idle"
    /\ uploaded = {} /\ expired = {}

StreamerWork == \/ StreamerLoops \/ FoundWork
                \/ LookForLine \/ ReadBatchLine \/ LookForMore \/ DataNoLongerAvailable \/ EndBatch
                \/ TryEnqueue \/ EnqueueTimesOut \/ DeleteStale
WorkerWork   == WorkerLoops \/ WorkOnStream \/ Dequeue \/ NotifyProducer
                \/ RunTask \/ ClearQueue \/ SettleToken

UploadNext == \/ StreamerWork
              \/ WorkerWork
              \/ \E w \in Writer : WriteRecord(w) \/ Announce(w)
              \/ StartService
              \/ StopWorker \/ EmptyCollection \/ ShutdownService
              \/ Crash
              \/ EndOfProcess

UploadSpec == UploadInit /\ [][UploadNext]_uploadVars
-----------------------------------------------------------------------------
(* Properties *)

(* Who holds tokens: the streamer while it reads a batch, the lines to be  *)
(* deleted, and the tasks from the one the worker has to the one that is   *)
(* not queued yet.                                                         *)
Tasks == <<task>> \o queue \o stored_task
Holders == <<batch, stale_data>> \o [k \in DOMAIN Tasks |-> Tasks[k].tokens]
OneHolder(held) ==
    \A k, l \in DOMAIN held : \A i \in DOMAIN held[k], j \in DOMAIN held[l] :
        held[k][i].token = held[l][j].token => k = l /\ i = j

(* A token is with one holder, once: it comes back to the storage no more  *)
(* than once, whatever is queued again, cleared or put aside               *)
(* (FileUploadStreamer::work, onComplete, deleteStaleData).                *)
TokenHasOneHolder == OneHolder(Holders)

(* The queue of file tasks outgrows its maximum by no more than one, while *)
(* a producer is woken after its room was taken: by itself, as it is the   *)
(* only one (ObservedBlockingQueue::enqueueOnCondition, dequeue, clear).   *)
QueueBounded == Len(queue) <= QueueSize + 1

Stored == UNION {Range(content[f]) : f \in files}

(* A file goes only when the service has received its records, or they     *)
(* were too old, or there was no room: "when all tokens for a file have    *)
(* been resolved the system knows that the file can be deleted"            *)
(* (FileManagerStrategy::resolve, FileUploadStreamer::onComplete).         *)
DeletesOnlyUploaded == 1..written \subseteq Stored \cup uploaded \cup expired \cup dropped

(* The most that a batch that is cleared, a line that is left out and a    *)
(* stale line can cost: a record that is gone, neither sent nor too old    *)
(* nor out of room nor in a task, was in a file with a later line, and     *)
(* that line was resolved as sent.  No other line deletes a file           *)
(* (FileManagerStrategy::resolve, deleteStaleData, onComplete).            *)
InWork == UNION {Tasks[k].data : k \in {j \in DOMAIN Tasks : Tasks[j].tokens # <<>>}}

(* A record whose token was resolved as sent was in the data that was sent *)
(* (LogFileManager::readBatch, MetricFileManager::readBatch).              *)
AckedWasUploaded == acked \subseteq uploaded

(* The threads run, and the batcher leaves the worker to the file tasks    *)
(* again and again.                                                        *)
UploadFairness ==
    /\ WF_uploadVars(StreamerWork) /\ WF_uploadVars(WorkerWork) /\ SF_uploadVars(Dequeue)
FairUploadSpec == UploadSpec /\ UploadFairness

(* The streamer and the worker never wait for each other for ever: each    *)
(* token that was handed out leaves the pipeline, be it that its task was  *)
(* completed or cleared (tryEnqueue, clear).                               *)
InPipeline(t) == \E k \in DOMAIN Holders : \E i \in DOMAIN Holders[k] : Holders[k][i].token = t
TokensComeBack == \A t \in Token : InPipeline(t) ~> (~ InPipeline(t) \/ owner # "idle")
=============================================================================
