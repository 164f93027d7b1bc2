------------------------- MODULE FileUpload_proofs -------------------------
(***************************************************************************)
(* Theorems about the upload pipeline, for every queue size, batch size,   *)
(* order of reading, set of writers and outcome of the uploads.            *)
(***************************************************************************)
EXTENDS FileUpload, StoredFiles_proofs, SequenceTheorems, WellFoundedInduction

IsSeq(s) == s \in Seq(Range(s))

(* The strengthening of QueueBounded: a task taken away makes room for one *)
(* notification, which makes one producer enqueue without a second look.   *)
(* Queue, notification and woken producer together stay within one more    *)
(* than the maximum.                                                       *)
Notification == IF worker = "notify" THEN 1 ELSE 0
WokenOne     == IF streamer = "woken" THEN 1 ELSE 0
QueuedAndDue == Len(queue) + Notification + WokenOne <= QueueSize + 1
OneStored    == IsSeq(stored_task) /\ Len(stored_task) <= 1
QueueInv == IsSeq(queue) /\ Len(queue) \in Nat /\ QueuedAndDue /\ OneStored

LEMMA Due == /\ Notification \in {0, 1} /\ WokenOne \in {0, 1}
             /\ QueueSize \in Nat \ {0}
  BY UploadAssumption DEF Notification, WokenOne

LEMMA ConcatSeqs ==
    ASSUME NEW s, IsSeq(s), NEW t, IsSeq(t)
    PROVE  /\ IsSeq(s \o t)
           /\ Len(s \o t) = Len(s) + Len(t)
           /\ Len(s) \in Nat /\ Len(t) \in Nat
<1> DEFINE S == Range(s) \cup Range(t)
<1>1. s \in Seq(S) /\ t \in Seq(S)
  BY DEF IsSeq
<1> HIDE DEF S
<1>2. s \o t \in Seq(S) /\ Len(s \o t) = Len(s) + Len(t) /\ Len(s) \in Nat /\ Len(t) \in Nat
  BY <1>1
<1>3. s \o t \in Seq(Range(s \o t))
  BY <1>2, SeqOfRange
<1>4. QED
  BY <1>2, <1>3 DEF IsSeq

LEMMA TailSeq ==
    ASSUME NEW s, IsSeq(s), s # <<>>
    PROVE  /\ IsSeq(Tail(s))
           /\ Len(Tail(s)) = Len(s) - 1
           /\ Len(s) \in Nat
<1> DEFINE S == Range(s)
<1>1. s \in Seq(S)
  BY DEF IsSeq
<1> HIDE DEF S
<1>2. Tail(s) \in Seq(S) /\ Len(Tail(s)) = Len(s) - 1 /\ Len(s) \in Nat
  BY <1>1
<1>3. Tail(s) \in Seq(Range(Tail(s)))
  BY <1>2, SeqOfRange
<1>4. QED
  BY <1>2, <1>3 DEF IsSeq

LEMMA NoneIsSeq == IsSeq(<<>>) /\ Len(<<>>) = 0
  BY DEF IsSeq

LEMMA SingletonSeq ==
    ASSUME NEW x
    PROVE  IsSeq(<<x>>) /\ Len(<<x>>) = 1
<1>1. <<x>> \in Seq({x}) /\ Len(<<x>>) = 1
  OBVIOUS
<1>2. <<x>> \in Seq(Range(<<x>>))
  BY <1>1, SeqOfRange
<1>3. QED
  BY <1>1, <1>2 DEF IsSeq

(* What does not touch the queue and neither takes a task away nor wakes   *)
(* a producer.                                                             *)
LEMMA OtherSteps ==
    ASSUME QueueInv, UNCHANGED <<queue, stored_task>>,
           streamer' # "woken" \/ streamer' = streamer,
           worker' # "notify" \/ worker' = worker
    PROVE  QueueInv'
<1>1. Notification' <= Notification /\ WokenOne' <= WokenOne
  BY DEF Notification, WokenOne
<1>2. /\ Notification \in Nat /\ WokenOne \in Nat /\ Notification' \in Nat /\ WokenOne' \in Nat
      /\ QueueSize \in Nat
  BY UploadAssumption DEF Notification, WokenOne
<1>3. Len(queue') + Notification' + WokenOne' <= QueueSize + 1
  BY <1>1, <1>2 DEF QueueInv, QueuedAndDue
<1>4. QED
  BY <1>3 DEF QueueInv, QueuedAndDue, OneStored, IsSeq

LEMMA RoomForOne ==
    ASSUME NEW l, l = 0, NEW n \in {0, 1}, NEW m \in {0, 1}, n = 0 \/ m = 0, NEW q \in Nat
    PROVE  l + n + m <= q + 1
  OBVIOUS

(* An empty queue has room for either.                                     *)
LEMMA EmptyQueueStep ==
    ASSUME queue' = <<>>, OneStored', ~ (worker' = "notify" /\ streamer' = "woken")
    PROVE  QueueInv'
<1>1. /\ Notification' \in {0, 1} /\ WokenOne' \in {0, 1}
      /\ Notification' = 0 \/ WokenOne' = 0
  BY DEF Notification, WokenOne
<1>2. Len(queue') = 0 /\ IsSeq(queue')
  BY NoneIsSeq
<1>3. Len(queue') + Notification' + WokenOne' <= QueueSize + 1
  BY <1>1, <1>2, RoomForOne, Due
<1>4. Len(queue') \in Nat
  BY <1>2
<1>5. QED
  BY <1>2, <1>3, <1>4 DEF QueueInv, QueuedAndDue

(* The end of the process leaves nothing in memory.                        *)
LEMMA PipelineGoneStep ==
    ASSUME PipelineGone
    PROVE  QueueInv'
  BY NoneIsSeq, EmptyQueueStep DEF PipelineGone, OneStored

LEMMA TryEnqueueStep ==
    ASSUME QueueInv, TryEnqueue
    PROVE  QueueInv'
<1>1. worker' = worker
  BY DEF TryEnqueue, workerVars
<1>2. CASE streamer' = "blocked" /\ UNCHANGED <<queue, stored_task>>
  BY <1>1, <1>2, OtherSteps
<1>3. CASE (streamer = "woken" \/ HasRoom) /\ Accepted
  <2>1. queue' = queue \o stored_task /\ stored_task' = <<>> /\ streamer' = "stale"
    BY <1>3 DEF Accepted
  <2>2. /\ IsSeq(queue') /\ Len(queue') = Len(queue) + Len(stored_task)
        /\ Len(queue) \in Nat /\ Len(stored_task) \in Nat
    BY <2>1, ConcatSeqs DEF QueueInv, OneStored
  <2>3. Notification' = Notification /\ WokenOne' = 0 /\ Len(stored_task) <= 1
    BY <1>1, <2>1 DEF Notification, WokenOne, QueueInv, OneStored
  <2>4. Len(queue') + Notification' + WokenOne' <= QueueSize + 1
    <3>1. CASE streamer = "woken"
      <4>1. WokenOne = 1
        BY <3>1 DEF WokenOne
      <4>2. QED
        BY <2>2, <2>3, <4>1, Due DEF QueueInv, QueuedAndDue
    <3>2. CASE HasRoom
      BY <2>2, <2>3, <3>2, Due DEF HasRoom
    <3>3. QED
      BY <1>3, <3>1, <3>2
  <2>5. QED
    BY <2>1, <2>2, <2>4, NoneIsSeq DEF QueueInv, QueuedAndDue, OneStored
<1>4. QED
  BY <1>2, <1>3 DEF TryEnqueue

LEMMA DequeueStep ==
    ASSUME QueueInv, Dequeue
    PROVE  QueueInv'
<1>1. queue # <<>> /\ queue' = Tail(queue) /\ stored_task' = stored_task
  BY DEF Dequeue, streamerVars
<1>2. IsSeq(queue') /\ Len(queue') = Len(queue) - 1 /\ Len(queue) \in Nat /\ Len(queue') \in Nat
  <2>1. IsSeq(queue') /\ Len(queue') = Len(queue) - 1 /\ Len(queue) \in Nat
    BY <1>1, TailSeq DEF QueueInv
  <2>2. QED
    BY <2>1, LenProperties DEF IsSeq
<1>3. Notification = 0 /\ Notification' = 1 /\ WokenOne' = WokenOne
  BY DEF Dequeue, streamerVars, Notification, WokenOne
<1>4. Len(queue') + Notification' + WokenOne' <= QueueSize + 1
  BY <1>2, <1>3, Due DEF QueueInv, QueuedAndDue
<1>5. QED
  BY <1>1, <1>2, <1>4 DEF QueueInv, QueuedAndDue, OneStored

LEMMA NotifyProducerStep ==
    ASSUME QueueInv, NotifyProducer
    PROVE  QueueInv'
<1>1. UNCHANGED <<queue, stored_task>>
  BY DEF NotifyProducer
<1>2. Notification = 1 /\ Notification' = 0 /\ WokenOne' \in {WokenOne, 1}
  BY DEF NotifyProducer, Notification, WokenOne
<1>3. Len(queue') + Notification' + WokenOne' <= QueueSize + 1
  BY <1>1, <1>2, Due DEF QueueInv, QueuedAndDue
<1>4. QED
  BY <1>1, <1>3 DEF QueueInv, QueuedAndDue, OneStored, IsSeq

LEMMA QueueInvNext ==
    ASSUME QueueInv, [UploadNext]_uploadVars
    PROVE  QueueInv'
<1>1. CASE EndBatch
  <2>1. queue' = queue /\ worker' = worker /\ streamer' = "enqueue"
    BY <1>1 DEF EndBatch, workerVars
  <2>2. OneStored'
    BY <1>1, SingletonSeq DEF EndBatch, OneStored
  <2>3. Notification' = Notification /\ WokenOne' = 0
    BY <2>1 DEF Notification, WokenOne
  <2>4. Len(queue') + Notification' + WokenOne' <= QueueSize + 1
    BY <2>1, <2>3, Due DEF QueueInv, QueuedAndDue
  <2>5. QED
    BY <2>1, <2>2, <2>4 DEF QueueInv, QueuedAndDue, IsSeq
<1>2. CASE ClearQueue
  BY <1>2, EmptyQueueStep DEF ClearQueue, streamerVars, QueueInv, OneStored, IsSeq
<1>3. CASE StreamerLoops \/ FoundWork \/ LookForLine \/ ReadBatchLine \/ LookForMore
           \/ DataNoLongerAvailable \/ EnqueueTimesOut \/ DeleteStale
  BY <1>3, OtherSteps DEF StreamerLoops, FoundWork, LookForLine, ReadBatchLine, LookForMore,
     DataNoLongerAvailable, EnqueueTimesOut, DeleteStale, workerVars
<1>4. CASE WorkerLoops \/ WorkOnStream \/ RunTask \/ SettleToken
  BY <1>4, OtherSteps DEF WorkerLoops, WorkOnStream, RunTask, AfterRun, SettleToken, streamerVars
<1>5. ASSUME NEW w \in Writer, WriteRecord(w) \/ Announce(w)
      PROVE  QueueInv'
  BY <1>5, OtherSteps, PipelineGoneStep DEF WriteRecord, Announce, streamerVars, workerVars
<1>6. CASE StartService \/ StopWorker \/ EmptyCollection \/ ShutdownService
  BY <1>6, OtherSteps DEF StartService, StopWorker, EmptyCollection, ShutdownService, streamerVars,
     workerVars
<1>7. CASE Crash \/ EndOfProcess
  BY <1>7, PipelineGoneStep DEF Crash, EndOfProcess
<1>8. CASE UNCHANGED uploadVars
  BY <1>8, OtherSteps DEF uploadVars, pipelineVars, streamerVars, workerVars
<1>9. QED
  BY <1>1, <1>2, <1>3, <1>4, <1>5, <1>6, <1>7, <1>8, TryEnqueueStep, DequeueStep,
     NotifyProducerStep DEF UploadNext, StreamerWork, WorkerWork

(* The queue of file tasks never outgrows file_max_queue_size by more than *)
(* one task, although dequeue takes a task away without the lock, notifies *)
(* later, and a woken producer does not look at the size again             *)
(* (ObservedBlockingQueue::enqueueOnCondition, dequeue), and whenever the  *)
(* worker clears the queue or the process stops.                           *)
THEOREM QueueStaysBounded == UploadSpec => []QueueBounded
<1>1. UploadInit => QueueInv
  <2> SUFFICES ASSUME UploadInit PROVE QueueInv
    OBVIOUS
  <2>1. queue = <<>> /\ stored_task = <<>> /\ Notification = 0 /\ WokenOne = 0
    BY DEF UploadInit, Notification, WokenOne
  <2>2. QED
    BY <2>1, NoneIsSeq, Due DEF QueueInv, QueuedAndDue, OneStored
<1>2. QueueInv /\ [UploadNext]_uploadVars => QueueInv'
  BY QueueInvNext
<1>3. QueueInv => QueueBounded
  BY Due DEF QueueInv, QueuedAndDue, QueueBounded
<1>4. QED
  BY <1>1, <1>2, <1>3, PTL DEF UploadSpec
-----------------------------------------------------------------------------
(* The tokens of the storage under the whole pipeline: several batches are *)
(* out at once, a cleared one is never given back, stale lines are deleted *)
(* one by one.  That the maps are maps over the files is all the typing    *)
(* the argument needs.                                                     *)
TokenMaps == /\ file_tokens = [f \in Path |-> file_tokens[f]]
             /\ staged_tokens = [f \in Path |-> staged_tokens[f]]
TokenMapInv == TokenMaps /\ StagedXorTracked

LEMMA MapsUnchanged ==
    ASSUME TokenMapInv, UNCHANGED <<file_tokens, staged_tokens>>
    PROVE  TokenMapInv'
  BY DEF TokenMapInv, TokenMaps, StagedXorTracked, isTokenAvailable, Tracked

LEMMA MapsEmptied ==
    ASSUME file_tokens' = [f \in Path |-> <<>>],
           staged_tokens' = [f \in Path |-> staged_tokens'[f]]
    PROVE  TokenMapInv'
  BY DEF TokenMapInv, TokenMaps, StagedXorTracked, isTokenAvailable, Tracked

(* A read takes the staged position of the file it creates a token for.    *)
LEMMA ReadMaps ==
    ASSUME TokenMapInv, Read
    PROVE  TokenMapInv'
<1>1. PICK f, p, stored : ReadLine(f, p, stored)
  BY DEF Read, readActiveFile, readStoredFile, readWriteFile
<1>2. PICK t : file_tokens' = [file_tokens EXCEPT ![f] = Append(@, t)]
  BY <1>1 DEF ReadLine, createToken
<1>3. /\ isTokenAvailable(f) => staged_tokens' = [staged_tokens EXCEPT ![f] = NoPos]
      /\ ~ isTokenAvailable(f) => staged_tokens' = staged_tokens
  BY <1>1 DEF ReadLine, popAvailableToken
<1>4. TokenMaps'
  BY <1>2, <1>3 DEF TokenMapInv, TokenMaps
<1>5. ASSUME NEW g \in Path
      PROVE  ~ (isTokenAvailable(g)' /\ Tracked(g)')
  <2>1. CASE g = f
    BY <1>3, <2>1 DEF TokenMapInv, TokenMaps, isTokenAvailable
  <2>2. CASE g # f
    BY <1>2, <1>3, <2>2 DEF TokenMapInv, TokenMaps, StagedXorTracked, isTokenAvailable, Tracked
  <2>3. QED
    BY <2>1, <2>2
<1>6. QED
  BY <1>4, <1>5 DEF TokenMapInv, StagedXorTracked

(* A failure takes the list of the file it stages a position for.          *)
LEMMA FailMaps ==
    ASSUME TokenMapInv, NEW t, fail(t)
    PROVE  TokenMapInv'
  BY DEF fail, TokenMapInv, TokenMaps, StagedXorTracked, isTokenAvailable, Tracked

LEMMA TokenMapInvNext ==
    ASSUME TokenMapInv, [UploadNext]_uploadVars
    PROVE  TokenMapInv'
<1>1. CASE ReadBatchLine
  BY <1>1, ReadMaps DEF ReadBatchLine
<1>2. CASE SettleToken
  <2>1. ForgetLine(NextToken.token) \/ KeepLine(NextToken.token)
    BY <1>2 DEF SettleToken
  <2>2. CASE ForgetLine(NextToken.token)
    BY <2>2, MapsUnchanged DEF ForgetLine, resolve, tokenVars
  <2>3. CASE KeepLine(NextToken.token)
    BY <2>3, MapsUnchanged, FailMaps DEF KeepLine, tokenVars
  <2>4. QED
    BY <2>1, <2>2, <2>3
<1>3. CASE DeleteStale
  BY <1>3, MapsUnchanged DEF DeleteStale, ForgetLine, resolve, vars, tokenVars
<1>4. CASE LoseMemory
  BY <1>4, MapsEmptied DEF LoseMemory, ForgetTokens
<1>5. CASE StartService
  BY <1>5, MapsEmptied DEF StartService, Start, restore
<1>6. CASE ShutdownService
  BY <1>6, MapsUnchanged DEF ShutdownService, Shutdown, backupInserts
<1>7. ASSUME NEW w \in Writer, Write(w)
      PROVE  TokenMapInv'
  BY <1>4, <1>7, MapsUnchanged
     DEF Write, checkIfWriteFileShouldRotate, checkIfStorageLimitHasBeenReached,
         deleteOldestFile, deleteFromEmptyList, append, tokenVars
<1>8. CASE UNCHANGED vars
  BY <1>8, MapsUnchanged DEF vars, tokenVars
<1>9. CASE EndBatch
  BY <1>9, MapsUnchanged DEF EndBatch, storageVars, tokenVars
<1>10. CASE Crash \/ EndOfProcess
  BY <1>4, <1>10 DEF Crash, EndOfProcess, ProcessEnds
<1>11. CASE StreamerWork
  BY <1>1, <1>3, <1>8, <1>9, <1>11 DEF StreamerWork, StreamerLoops, FoundWork, LookForLine,
     LookForMore, DataNoLongerAvailable, TryEnqueue, EnqueueTimesOut
<1>12. CASE WorkerWork
  BY <1>2, <1>8, <1>12 DEF WorkerWork, WorkerLoops, WorkOnStream, Dequeue,
     NotifyProducer, RunTask, ClearQueue
<1>13. CASE UNCHANGED uploadVars
  BY <1>8, <1>13 DEF uploadVars
<1>14. QED
  BY <1>5, <1>6, <1>7, <1>8, <1>10, <1>11, <1>12, <1>13
     DEF UploadNext, WriteRecord, Announce, StopWorker, EmptyCollection

(* However many batches are out, whichever of them fail, are cleared or    *)
(* were put aside as stale, and in whatever order their tokens come back,  *)
(* no file has both a staged position and tokens in its list               *)
(* (TokenStore::fail, popAvailableToken, restore).                         *)
THEOREM PipelineStagedOrTracked == UploadSpec => []StagedXorTracked
<1>1. UploadInit => TokenMapInv
  BY DEF UploadInit, Init, EmptyTokenStore, TokenMapInv, TokenMaps, StagedXorTracked,
     isTokenAvailable, Tracked
<1>2. TokenMapInv /\ [UploadNext]_uploadVars => TokenMapInv'
  BY TokenMapInvNext
<1>3. TokenMapInv => StagedXorTracked
  BY DEF TokenMapInv
<1>4. QED
  BY <1>1, <1>2, <1>3, PTL DEF UploadSpec
-----------------------------------------------------------------------------
(* The types of the pipeline.                                              *)

(* A choice of lines of a batch, in some order: which line of the batch    *)
(* each of them is.                                                        *)
LEMMA LinesOfBatch ==
    ASSUME NEW b \in Seq(HeldToken), NEW S \in SUBSET DOMAIN b, NEW m \in SetToSeqs(S)
    PROVE  /\ Lines(b, m) \in Seq(HeldToken)
           /\ DOMAIN Lines(b, m) = DOMAIN m
           /\ \A k \in DOMAIN m : m[k] \in S /\ Lines(b, m)[k] = b[m[k]] /\ b[m[k]] \in HeldToken
           /\ \A j, k \in DOMAIN m : m[j] = m[k] => j = k
<1>1. Cardinality(S) \in Nat
  <2>1. DOMAIN b = 1..Len(b) /\ Len(b) \in Nat
    OBVIOUS
  <2>2. IsFiniteSet(DOMAIN b)
    BY <2>1, FS_Interval
  <2>3. IsFiniteSet(S)
    BY <2>2, FS_Subset
  <2>4. QED
    BY <2>3, FS_CardinalityType
<1>2. m \in [1..Cardinality(S) -> S] /\ \A j, k \in DOMAIN m : m[j] = m[k] => j = k
  BY DEF SetToSeqs
<1>3. \A k \in DOMAIN m : m[k] \in S /\ b[m[k]] \in HeldToken
  BY <1>2
<1>4. Lines(b, m) = [k \in 1..Cardinality(S) |-> b[m[k]]]
  BY <1>2 DEF Lines
<1>5. Lines(b, m) \in Seq(HeldToken)
  BY <1>1, <1>2, <1>3, <1>4
<1>6. QED
  BY <1>2, <1>3, <1>4, <1>5

LEMMA RecordsType ==
    ASSUME NEW b \in Seq(HeldToken)
    PROVE  RecordsOf(b) \subseteq Record
<1>1. \A i \in DOMAIN b : b[i] \in HeldToken
  OBVIOUS
<1>2. QED
  BY <1>1 DEF RecordsOf, HeldToken

LEMMA BatchTypes ==
    ASSUME NEW b \in Seq(HeldToken)
    PROVE  BatchTasks(b) \subseteq Task /\ StaleLines(b) \subseteq Seq(HeldToken)
<1>1. ASSUME NEW t \in LogTasks(b) PROVE t \in Task
  <2>1. PICK m \in LatestFirst(b, Young(b)) : t = TaskOf(Lines(b, m), RecordsOf(Lines(b, m)))
    BY <1>1 DEF LogTasks
  <2>2. m \in SetToSeqs(Young(b)) /\ Young(b) \subseteq DOMAIN b
    BY <2>1 DEF LatestFirst, Young
  <2>3. Lines(b, m) \in Seq(HeldToken)
    BY <2>2, LinesOfBatch
  <2>4. QED
    BY <2>1, <2>3, RecordsType DEF TaskOf, Task
<1>2. ASSUME NEW t \in MetricTasks(b) PROVE t \in Task
  <2> DEFINE S == {i \in DOMAIN b : b[i].record # NoRecord}
  <2>1. PICK m \in AsRead(S) : t = TaskOf(Lines(b, m), FirstOfTime(Lines(b, m)))
    BY <1>2 DEF MetricTasks
  <2>2. m \in SetToSeqs(S) /\ S \in SUBSET DOMAIN b
    BY <2>1 DEF AsRead
  <2>3. /\ Lines(b, m) \in Seq(HeldToken) /\ DOMAIN Lines(b, m) = DOMAIN m
        /\ \A k \in DOMAIN m : m[k] \in S /\ Lines(b, m)[k] = b[m[k]] /\ b[m[k]] \in HeldToken
    BY <2>2, LinesOfBatch
  <2>4. \A k \in DOMAIN Lines(b, m) : Lines(b, m)[k].record \in Record
    BY <2>3 DEF HeldToken
  <2>5. FirstOfTime(Lines(b, m)) \subseteq Record
    BY <2>4 DEF FirstOfTime
  <2>6. QED
    BY <2>1, <2>3, <2>5 DEF TaskOf, Task
<1>3. ASSUME NEW m \in LatestFirst(b, TooOld(b)) PROVE Lines(b, m) \in Seq(HeldToken)
  <2>1. m \in SetToSeqs(TooOld(b)) /\ TooOld(b) \in SUBSET DOMAIN b
    BY <1>3 DEF LatestFirst, TooOld
  <2>2. QED
    BY <2>1, LinesOfBatch
<1>4. <<>> \in Seq(HeldToken)
  OBVIOUS
<1>5. QED
  BY <1>1, <1>2, <1>3, <1>4 DEF BatchTasks, StaleLines

(* The pipeline hands batches on without a verdict on the streamer's own,  *)
(* and the worker has a token to give back as long as it does so.          *)
PipelineTypes ==
    /\ streamer \in {"idle", "wait", "read", "line", "look", "close", "enqueue", "blocked",
                     "woken", "stale"}
    /\ stored_task \in Seq(Task) /\ Len(stored_task) <= 1
    /\ queue \in Seq(Task)
    /\ worker \in {"idle", "dequeue", "notify", "run", "clear", "settle"}
    /\ task \in Task
    /\ status \in {"UNKNOWN", "SUCCESS", "FAIL", "INVALID_DATA"}
    /\ stale_data \in Seq(HeldToken)
    /\ data_available \in BOOLEAN
    /\ announcing \subseteq Writer
    /\ owner \in {"idle", "stopBatcher", "stopStreamer"}
    /\ uploaded \subseteq Record /\ expired \subseteq Record
    /\ worker = "settle" => task.tokens # <<>>
UploadInv == TInv /\ verdict = "open" /\ PipelineTypes

LEMMA UploadInvTypes == UploadInv => UploadTypeOK
  BY DEF UploadInv, PipelineTypes, UploadTypeOK, TInv

LEMMA PipelineGoneTypes ==
    ASSUME PipelineTypes, PipelineGone
    PROVE  PipelineTypes'
<1>1. <<>> \in Seq(Task) /\ Len(<<>>) <= 1 /\ <<>> \in Seq(HeldToken)
  OBVIOUS
<1>2. NoTask \in Task
  BY DEF NoTask, Task
<1>3. QED
  BY <1>1, <1>2 DEF PipelineGone, PipelineTypes, outcomeVars

LEMMA StreamerTypes ==
    ASSUME UploadInv, StreamerWork
    PROVE  PipelineTypes'
<1>1. PipelineTypes /\ batch \in Seq(HeldToken)
  BY DEF UploadInv, TInv, TypeOK
<1>2. CASE EndBatch
  <2>1. PICK t \in BatchTasks(batch), old \in StaleLines(batch) :
          stored_task' = <<t>> /\ stale_data' = stale_data \o old
    BY <1>2 DEF EndBatch
  <2>2. t \in Task /\ old \in Seq(HeldToken) /\ stale_data \in Seq(HeldToken)
    BY <1>1, BatchTypes DEF PipelineTypes
  <2>3. stored_task' \in Seq(Task) /\ Len(stored_task') <= 1 /\ stale_data' \in Seq(HeldToken)
    BY <2>1, <2>2
  <2>4. QED
    BY <1>1, <1>2, <2>3 DEF EndBatch, PipelineTypes, workerVars, monitorVars, outcomeVars
<1>3. CASE TryEnqueue
  <2>1. queue \in Seq(Task) /\ stored_task \in Seq(Task) /\ <<>> \in Seq(Task) /\ Len(<<>>) <= 1
    BY <1>1 DEF PipelineTypes
  <2>2. queue \o stored_task \in Seq(Task)
    BY <2>1
  <2>3. QED
    BY <1>1, <1>3, <2>1, <2>2
       DEF TryEnqueue, Accepted, PipelineTypes, workerVars, monitorVars, outcomeVars
<1>4. CASE DeleteStale
  <2>1. CASE stale_data = <<>>
    BY <1>1, <1>4, <2>1 DEF DeleteStale, PipelineTypes, workerVars, monitorVars
  <2>2. CASE stale_data # <<>>
    <3>1. /\ stale_data' = Front(stale_data)
          /\ expired' = expired \cup RecordsOf(<<Last(stale_data)>>)
          /\ UNCHANGED <<streamer, stored_task, queue, workerVars, monitorVars, uploaded>>
      BY <1>4, <2>2 DEF DeleteStale
    <3>2. stale_data \in Seq(HeldToken)
      BY <1>1 DEF PipelineTypes
    <3>3. Last(stale_data) \in HeldToken /\ Front(stale_data) \in Seq(HeldToken)
      BY <2>2, <3>2 DEF Last, Front
    <3>4. expired' \subseteq Record
      <4>1. <<Last(stale_data)>> \in Seq(HeldToken)
        BY <3>3
      <4>2. RecordsOf(<<Last(stale_data)>>) \subseteq Record
        BY <4>1, RecordsType
      <4>3. QED
        BY <1>1, <3>1, <4>2 DEF PipelineTypes
    <3>5. QED
      BY <1>1, <3>1, <3>3, <3>4 DEF PipelineTypes, workerVars, monitorVars
  <2>3. QED
    BY <2>1, <2>2
<1>5. CASE StreamerLoops \/ FoundWork \/ LookForLine \/ ReadBatchLine \/ LookForMore
           \/ DataNoLongerAvailable \/ EnqueueTimesOut
  BY <1>1, <1>5
     DEF StreamerLoops, FoundWork, LookForLine, ReadBatchLine, LookForMore, DataNoLongerAvailable,
         EnqueueTimesOut, PipelineTypes, workerVars, monitorVars, outcomeVars
<1>6. QED
  BY <1>2, <1>3, <1>4, <1>5 DEF StreamerWork

LEMMA TailOfOne ==
    ASSUME NEW S, NEW s \in Seq(S), s # <<>>
    PROVE  /\ Head(s) \in S /\ Head(s) = s[1] /\ 1 \in DOMAIN s
           /\ Tail(s) \in Seq(S) /\ Len(Tail(s)) = Len(s) - 1
           /\ \A i \in DOMAIN Tail(s) : i + 1 \in DOMAIN s /\ i + 1 # 1 /\ Tail(s)[i] = s[i + 1]
           /\ Tail(s) = <<>> => Len(s) = 1
<1>1. Tail(s) \in Seq(S) /\ Len(Tail(s)) = Len(s) - 1 /\ Head(s) \in S /\ Head(s) = s[1]
  OBVIOUS
<1>2. Len(s) \in Nat /\ Len(s) # 0 /\ DOMAIN s = 1..Len(s) /\ DOMAIN Tail(s) = 1..(Len(s) - 1)
  BY <1>1
<1>3. \A i \in 1..(Len(s) - 1) : Tail(s)[i] = s[i + 1]
  BY <1>1, HeadTailProperties
<1>4. Tail(s) = <<>> => Len(Tail(s)) = 0
  <2>1. Len(<<>>) = 0
    OBVIOUS
  <2>2. QED
    BY <2>1
<1>5. QED
  BY <1>1, <1>2, <1>3, <1>4

LEMMA WorkerTypes ==
    ASSUME UploadInv, WorkerWork
    PROVE  PipelineTypes'
<1>1. PipelineTypes
  BY DEF UploadInv
<1>2. CASE Dequeue
  <2>1. queue \in Seq(Task) /\ queue # <<>>
    BY <1>1, <1>2 DEF Dequeue, PipelineTypes
  <2>2. Head(queue) \in Task /\ Tail(queue) \in Seq(Task)
    BY <2>1
  <2>3. QED
    BY <1>1, <1>2, <2>2 DEF Dequeue, PipelineTypes, streamerVars, monitorVars, outcomeVars
<1>3. CASE ClearQueue
  BY <1>1, <1>3 DEF ClearQueue, PipelineTypes, streamerVars, monitorVars, outcomeVars
<1>4. CASE RunTask
  <2>1. status' \in {"SUCCESS", "FAIL", "INVALID_DATA"}
    BY <1>4, UploadAssumption DEF RunTask, PublishOutcomes
  <2>2. uploaded' \subseteq Record
    BY <1>1, <1>4 DEF RunTask, PipelineTypes, Task
  <2>3. worker' \in {"clear", "idle", "settle"} /\ (worker' = "settle" => task.tokens # <<>>)
    BY <1>4 DEF RunTask, AfterRun
  <2>4. QED
    BY <1>1, <1>4, <2>1, <2>2, <2>3 DEF RunTask, PipelineTypes, streamerVars, monitorVars
<1>5. CASE SettleToken
  <2>1. task.tokens \in Seq(HeldToken) /\ task.tokens # <<>> /\ task.data \in SUBSET Record
    BY <1>1, <1>5 DEF SettleToken, PipelineTypes, Task
  <2>2. /\ Tail(task.tokens) \in Seq(HeldToken)
        /\ Tail(task.tokens) = <<>> => Len(task.tokens) = 1
    BY <2>1, TailOfOne
  <2>3. task' \in Task /\ task'.tokens = Tail(task.tokens)
    BY <1>1, <1>5, <2>1, <2>2 DEF SettleToken, PipelineTypes, Task
  <2>4. QED
    BY <1>1, <1>5, <2>2, <2>3 DEF SettleToken, PipelineTypes, streamerVars, outcomeVars
<1>6. CASE WorkerLoops \/ WorkOnStream \/ NotifyProducer
  BY <1>1, <1>6 DEF WorkerLoops, WorkOnStream, NotifyProducer, PipelineTypes, streamerVars,
     monitorVars, outcomeVars
<1>7. QED
  BY <1>2, <1>3, <1>4, <1>5, <1>6 DEF WorkerWork

(* Giving a token back, whoever does it. *)
GivesBack(h) ==
    /\ \/ ForgetLine(h.token) /\ stored_files' = stored_files
       \/ KeepLine(h.token) /\ UNCHANGED <<diskVars, stored_files_size>>
    /\ acked' = acked \/ acked' = acked \cup RecordsOf(<<h>>)
    /\ UNCHANGED <<writeVars, readVars, writer, clientVars, processVars, written, dropped>>

(* What the pipeline does to the storage: a step of the storage's own, a   *)
(* crash, a batch handed on, or a token given back.                        *)
LEMMA DeleteStaleStep ==
    ASSUME PipelineTypes, DeleteStale, stale_data # <<>>
    PROVE  /\ Last(stale_data) \in HeldToken
           /\ GivesBack(Last(stale_data))
<1>1. Last(stale_data) \in HeldToken
  BY DEF PipelineTypes, Last
<1>2. /\ ForgetLine(Last(stale_data).token)
      /\ UNCHANGED <<stored_files, writeVars, readVars, writer, clientVars, processVars, history>>
  BY DEF DeleteStale
<1>3. QED
  BY <1>1, <1>2 DEF GivesBack, history

LEMMA SettleTokenStep ==
    ASSUME PipelineTypes, SettleToken
    PROVE  /\ task.tokens \in Seq(HeldToken) /\ task.tokens # <<>>
           /\ NextToken \in HeldToken /\ NextToken = task.tokens[1]
           /\ GivesBack(NextToken)
<1>1. task.tokens \in Seq(HeldToken) /\ task.tokens # <<>>
  BY DEF SettleToken, PipelineTypes, Task
<1>2. NextToken \in HeldToken /\ NextToken = task.tokens[1]
  BY <1>1, TailOfOne DEF NextToken
<1>3. GivesBack(NextToken)
  BY DEF SettleToken, GivesBack
<1>4. QED
  BY <1>1, <1>2, <1>3

LEMMA UploadSteps ==
    ASSUME UploadInv, [UploadNext]_uploadVars
    PROVE  /\ verdict' = "open"
           /\ \/ [Next]_vars
              \/ LoseMemory /\ UNCHANGED <<diskVars, now, runs, history>>
              \/ batch' = <<>> /\ UNCHANGED <<storageVars, verdict, processVars, history>>
              \/ \E h \in HeldToken : GivesBack(h)
<1>1. verdict = "open" /\ PipelineTypes
  BY DEF UploadInv
<1>2. CASE UNCHANGED vars
  BY <1>1, <1>2 DEF vars, clientVars
<1>3. CASE Read
  BY <1>1, <1>3 DEF Next, Read, readActiveFile, readStoredFile, readWriteFile
<1>4. CASE EndBatch
  BY <1>1, <1>4 DEF EndBatch
<1>5. CASE DeleteStale
  <2>1. CASE stale_data = <<>>
    BY <1>2, <1>5, <2>1 DEF DeleteStale
  <2>2. CASE stale_data # <<>>
    BY <1>1, <1>5, <2>2, DeleteStaleStep DEF GivesBack, clientVars
  <2>3. QED
    BY <2>1, <2>2
<1>6. CASE SettleToken
  BY <1>1, <1>6, SettleTokenStep DEF GivesBack, clientVars
<1>7. ASSUME NEW w \in Writer, Write(w)
      PROVE  Next /\ verdict' = "open"
  <2>1. Next
    BY <1>7 DEF Next
  <2>2. verdict' = "open"
    BY <1>1, <1>7
       DEF Write, checkIfWriteFileShouldRotate, checkIfStorageLimitHasBeenReached,
           deleteOldestFile, deleteFromEmptyList, append, LoseMemory, clientVars
  <2>3. QED
    BY <2>1, <2>2
<1>8. CASE Start \/ Shutdown \/ ProcessEnds
  <2>1. Next
    BY <1>8 DEF Next
  <2>2. verdict' = "open"
    BY <1>1, <1>8 DEF Start, Shutdown, ProcessEnds, LoseMemory, clientVars
  <2>3. QED
    BY <2>1, <2>2
<1>9. CASE Crash
  BY <1>9 DEF Crash, LoseMemory
<1>10. CASE StreamerWork
  BY <1>2, <1>3, <1>4, <1>5, <1>10
     DEF StreamerWork, StreamerLoops, FoundWork, LookForLine, ReadBatchLine, LookForMore,
         DataNoLongerAvailable, TryEnqueue, EnqueueTimesOut
<1>11. CASE WorkerWork
  BY <1>2, <1>6, <1>11 DEF WorkerWork, WorkerLoops, WorkOnStream, Dequeue, NotifyProducer,
     RunTask, ClearQueue
<1>12. CASE \E w \in Writer : WriteRecord(w) \/ Announce(w)
  BY <1>2, <1>7, <1>12 DEF WriteRecord, Announce
<1>13. CASE StartService \/ ShutdownService \/ EndOfProcess
  BY <1>8, <1>13 DEF StartService, ShutdownService, EndOfProcess
<1>14. CASE StopWorker \/ EmptyCollection \/ UNCHANGED uploadVars
  BY <1>2, <1>14 DEF StopWorker, EmptyCollection, uploadVars
<1>15. QED
  BY <1>9, <1>10, <1>11, <1>12, <1>13, <1>14 DEF UploadNext

LEMMA GivesBackType ==
    ASSUME TInv, NEW h \in HeldToken, GivesBack(h)
    PROVE  TInv'
<1>1. h.token \in Token /\ <<h>> \in Seq(HeldToken) /\ TypeOK
  BY DEF HeldToken, TInv
<1>2. RecordsOf(<<h>>) \subseteq Record
  BY <1>1, RecordsType
<1>3. /\ UNCHANGED <<writeVars, readVars, writer, clientVars, processVars, written, dropped>>
      /\ acked' \subseteq Record
  BY <1>1, <1>2 DEF GivesBack, TypeOK
<1>4. TypeOK'
  <2>1. CASE ForgetLine(h.token) /\ stored_files' = stored_files
    BY <1>1, <1>3, <2>1, ForgetLineType DEF TypeOK, writeVars, readVars, clientVars, processVars
  <2>2. CASE KeepLine(h.token) /\ UNCHANGED <<diskVars, stored_files_size>>
    BY <1>1, <1>3, <2>2, KeepLineType
       DEF TypeOK, diskVars, writeVars, readVars, clientVars, processVars
  <2>3. QED
    BY <2>1, <2>2 DEF GivesBack
<1>5. InFlight' = InFlight
  BY <1>3 DEF InFlight
<1>6. ProcessInv'
  BY <1>3, <1>5 DEF TInv, ProcessInv, Up, writeVars, clientVars, processVars
<1>7. QED
  BY <1>4, <1>6 DEF TInv

LEMMA BatchEndType ==
    ASSUME TInv, batch' = <<>>, UNCHANGED <<storageVars, verdict, processVars, history>>
    PROVE  TInv'
<1>1. TypeOK'
  <2>1. <<>> \in Seq(HeldToken)
    OBVIOUS
  <2>2. QED
    BY <2>1 DEF TInv, TypeOK, TokenStoreTypeOK, storageVars, tokenVars, diskVars, storedVars,
       writeVars, readVars, processVars, history
<1>2. InFlight' = InFlight
  BY DEF InFlight, storageVars
<1>3. ProcessInv'
  BY <1>2 DEF TInv, ProcessInv, Up, storageVars, writeVars, processVars, history
<1>4. QED
  BY <1>1, <1>3 DEF TInv

LEMMA UploadTInv ==
    ASSUME UploadInv, [UploadNext]_uploadVars
    PROVE  TInv' /\ verdict' = "open"
  BY UploadSteps, NextTInv, LoseMemoryType, BatchEndType, GivesBackType DEF UploadInv

LEMMA PipelineTypesNext ==
    ASSUME UploadInv, [UploadNext]_uploadVars
    PROVE  PipelineTypes'
<1>1. PipelineTypes
  BY DEF UploadInv
<1>2. ASSUME NEW w \in Writer, WriteRecord(w)
      PROVE  PipelineTypes'
  <2>1. CASE mode' = "down"
    BY <1>1, <1>2, <2>1, PipelineGoneTypes DEF WriteRecord
  <2>2. CASE mode' # "down"
    BY <1>1, <1>2, <2>2 DEF WriteRecord, PipelineTypes, streamerVars, workerVars, outcomeVars
  <2>3. QED
    BY <2>1, <2>2
<1>3. ASSUME NEW w \in Writer, Announce(w)
      PROVE  PipelineTypes'
  BY <1>1, <1>3 DEF Announce, PipelineTypes, streamerVars, workerVars, outcomeVars
<1>4. CASE StartService \/ StopWorker \/ EmptyCollection \/ ShutdownService
  BY <1>1, <1>4 DEF StartService, StopWorker, EmptyCollection, ShutdownService, isDataAvailable,
     PipelineTypes, streamerVars, workerVars, outcomeVars
<1>5. CASE Crash \/ EndOfProcess
  BY <1>1, <1>5, PipelineGoneTypes DEF Crash, EndOfProcess
<1>6. CASE UNCHANGED uploadVars
  BY <1>1, <1>6 DEF uploadVars, pipelineVars, streamerVars, workerVars, monitorVars, outcomeVars,
     PipelineTypes
<1>7. QED
  BY <1>2, <1>3, <1>4, <1>5, <1>6, StreamerTypes, WorkerTypes DEF UploadNext

LEMMA UploadInvInit == UploadInit => UploadInv
<1> SUFFICES ASSUME UploadInit PROVE UploadInv
  OBVIOUS
<1>1. <<>> \in Seq(Task) /\ Len(<<>>) <= 1 /\ <<>> \in Seq(HeldToken)
  OBVIOUS
<1>2. NoTask \in Task
  BY DEF NoTask, Task
<1>3. PipelineTypes
  BY <1>1, <1>2 DEF UploadInit, PipelineTypes
<1>4. QED
  BY <1>3, InitTInv DEF UploadInit, Init, UploadInv

LEMMA UploadInvNext == UploadInv /\ [UploadNext]_uploadVars => UploadInv'
  BY UploadTInv, PipelineTypesNext DEF UploadInv

LEMMA UploadInvHolds == UploadSpec => []UploadInv
  BY UploadInvInit, UploadInvNext, PTL DEF UploadSpec

(* The types of the whole pipeline: no step of the streamer, the worker or *)
(* a writer leaves the storage, the batch under way, a queued task or the  *)
(* task in work outside what the program can hold, whichever of the        *)
(* uploads fail and wherever the process ends.  Among it: the storage,     *)
(* written for one caller at a time, keeps its types under a caller that   *)
(* has several batches out, and readBatch makes tasks of tokens it read.   *)
THEOREM UploadTypeCorrect == UploadSpec => []UploadTypeOK
  BY UploadInvHolds, UploadInvTypes, PTL
-----------------------------------------------------------------------------
(* The files of the storage under the whole pipeline.                      *)

LEMMA UploadFiles ==
    ASSUME UploadInv, FilesInv, RecordsFit \/ UniqueNames, [UploadNext]_uploadVars
    PROVE  FilesInv'
<1>1. TInv
  BY DEF UploadInv
<1>2. CASE LoseMemory /\ UNCHANGED <<diskVars, now, runs, history>>
  BY <1>1, <1>2, MemoryLost
<1>3. CASE UNCHANGED <<storageVars, verdict, processVars, history>>
  <2>1. UNCHANGED <<tokenVars, backup_file, files, stored_files, active_read_file,
                    writeVars, now>> /\ mode' = mode
    BY <1>3 DEF storageVars, tokenVars, diskVars, storedVars, writeVars, readVars, processVars
  <2>2. QED
    BY <1>1, <2>1, NothingMoves
<1>4. ASSUME NEW h \in HeldToken, GivesBack(h)
      PROVE  FilesInv'
  <2>1. h.token \in Token
    BY DEF HeldToken
  <2>2. UNCHANGED <<active_read_file, writeVars, mode, now>>
    BY <1>4 DEF GivesBack, readVars, processVars
  <2>3. CASE ForgetLine(h.token) /\ stored_files' = stored_files
    BY <1>1, <2>1, <2>2, <2>3, ForgetLineFiles
  <2>4. CASE KeepLine(h.token) /\ UNCHANGED <<diskVars, stored_files_size>>
    BY <1>1, <2>1, <2>2, <2>4, KeepLineFiles DEF diskVars
  <2>5. QED
    BY <1>4, <2>3, <2>4 DEF GivesBack
<1>5. QED
  BY <1>1, <1>2, <1>3, <1>4, UploadSteps, FilesInvNext

(* With the pipeline's caller, too, a listed file is listed once and is on *)
(* disk, so that no deletion of the oldest file throws: although a failed  *)
(* task puts its files back on the list while the reader is at others and  *)
(* writers delete the oldest, and although the tokens of cleared tasks     *)
(* never come back (deleteOldestFile, resolve, deleteStaleData).           *)
THEOREM PipelineListedFilesExist ==
    ASSUME RecordsFit PROVE UploadSpec => []StoredFilesExist
<1>1. UploadInv /\ FilesInv => StoredFilesExist
  BY StoredExist DEF UploadInv
<1>2. UploadInv /\ FilesInv /\ [UploadNext]_uploadVars => FilesInv'
  BY UploadFiles
<1>3. UploadInit => FilesInv
  BY FilesInvInit DEF UploadInit
<1>4. QED
  BY <1>1, <1>2, <1>3, UploadInvHolds, PTL DEF UploadSpec

(* With the pipeline's caller, too, nothing but the writers has the write  *)
(* file; moreover the token store leads from no token to it, be the token  *)
(* in a batch, a task that is queued, or one that was cleared away and     *)
(* never comes back (rotateWriteFile, FileUploadStreamer::onComplete).     *)
NoTokenOfWriteFile ==
    active_write_file # NoFile => \A t \in Token : token_store[t].file # active_write_file

THEOREM PipelineWriteFileProtected ==
    ASSUME UniqueNames PROVE UploadSpec => [](WriteFileProtected /\ NoTokenOfWriteFile)
<1>1. UploadInv /\ FilesInv => WriteFileProtected /\ NoTokenOfWriteFile
  BY NobodyHasWriteFile DEF UploadInv, FilesInv, NamesInv, Used, NoTokenOfWriteFile
<1>2. UploadInv /\ FilesInv /\ [UploadNext]_uploadVars => FilesInv'
  BY UploadFiles
<1>3. UploadInit => FilesInv
  BY FilesInvInit DEF UploadInit
<1>4. QED
  BY <1>1, <1>2, <1>3, UploadInvHolds, PTL DEF UploadSpec
-----------------------------------------------------------------------------
(* Who holds tokens.                                                       *)

Toks(s)     == {s[i].token : i \in DOMAIN s}
Distinct(s) == \A i, j \in DOMAIN s : s[i].token = s[j].token => i = j

LEMMA PrependTwo ==
    ASSUME NEW S, NEW two \in Seq(S), Len(two) = 2, NEW lists \in Seq(S)
    PROVE  /\ two \o lists \in Seq(S)
           /\ Len(two \o lists) = 2 + Len(lists)
           /\ (two \o lists)[1] = two[1] /\ (two \o lists)[2] = two[2]
           /\ \A k \in 3..(2 + Len(lists)) : (two \o lists)[k] = lists[k - 2]
<1>1. /\ two \o lists \in Seq(S) /\ Len(two \o lists) = Len(two) + Len(lists)
      /\ \A i \in 1..Len(two) + Len(lists) :
           (two \o lists)[i] = IF i <= Len(two) THEN two[i] ELSE lists[i - Len(two)]
  BY ConcatProperties
<1>2. Len(lists) \in Nat
  OBVIOUS
<1>3. QED
  BY <1>1, <1>2

LEMMA TwoAndOthers ==
    ASSUME NEW S, NEW x \in Seq(S), NEW y \in Seq(S), NEW lists \in Seq(Seq(S))
    PROVE  /\ <<x, y>> \o lists \in Seq(Seq(S))
           /\ Len(<<x, y>> \o lists) = 2 + Len(lists)
           /\ (<<x, y>> \o lists)[1] = x /\ (<<x, y>> \o lists)[2] = y
           /\ \A k \in 3..(2 + Len(lists)) : (<<x, y>> \o lists)[k] = lists[k - 2]
<1>1. PICK two : two = <<x, y>>
  OBVIOUS
<1>2. two \in Seq(Seq(S)) /\ Len(two) = 2 /\ two[1] = x /\ two[2] = y
  BY <1>1
<1>3. /\ two \o lists \in Seq(Seq(S)) /\ Len(two \o lists) = 2 + Len(lists)
      /\ (two \o lists)[1] = two[1] /\ (two \o lists)[2] = two[2]
      /\ \A k \in 3..(2 + Len(lists)) : (two \o lists)[k] = lists[k - 2]
  BY <1>2, PrependTwo
<1>4. QED
  BY <1>1, <1>2, <1>3

(* The holders, one by one. *)
AreHolders(held, b, s, c, q, o) ==
    /\ Len(q) \in Nat /\ Len(o) \in Nat
    /\ DOMAIN held = 1..(3 + Len(q) + Len(o))
    /\ held[1] = b /\ held[2] = s /\ held[3] = c.tokens
    /\ \A k \in DOMAIN held : k > 3 /\ k <= 3 + Len(q) =>
         k - 3 \in DOMAIN q /\ held[k] = q[k - 3].tokens
    /\ \A k \in DOMAIN held : k > 3 + Len(q) =>
         k - (3 + Len(q)) \in DOMAIN o /\ held[k] = o[k - (3 + Len(q))].tokens
    /\ \A k \in DOMAIN held : held[k] \in Seq(HeldToken)

LEMMA HolderList ==
    ASSUME NEW b \in Seq(HeldToken), NEW s \in Seq(HeldToken), NEW c \in Task,
           NEW q \in Seq(Task), NEW o \in Seq(Task),
           NEW T, T = <<c>> \o q \o o,
           NEW held, held = <<b, s>> \o [k \in DOMAIN T |-> T[k].tokens]
    PROVE  AreHolders(held, b, s, c, q, o)
<1>1. <<c>> \in Seq(Task) /\ Len(<<c>>) = 1 /\ <<c>>[1] = c
  OBVIOUS
<1>2. /\ Len(q) \in Nat /\ Len(o) \in Nat
      /\ DOMAIN q = 1..Len(q) /\ DOMAIN o = 1..Len(o)
  OBVIOUS
<1>3. PICK cq \in Seq(Task) : cq = <<c>> \o q
  BY <1>1, ConcatProperties
<1>4. /\ Len(cq) = 1 + Len(q) /\ cq[1] = c
      /\ \A k \in 2..(1 + Len(q)) : cq[k] = q[k - 1]
  BY <1>1, <1>2, <1>3, ConcatProperties
<1>5. /\ T \in Seq(Task) /\ Len(T) = 1 + Len(q) + Len(o)
      /\ \A k \in 1..(1 + Len(q) + Len(o)) :
           T[k] = IF k <= 1 + Len(q) THEN cq[k] ELSE o[k - (1 + Len(q))]
  BY <1>2, <1>3, <1>4, ConcatProperties
<1>6. /\ DOMAIN T = 1..(1 + Len(q) + Len(o))
      /\ \A k \in DOMAIN T : T[k].tokens \in Seq(HeldToken)
  <2>1. DOMAIN T = 1..Len(T) /\ \A k \in DOMAIN T : T[k] \in Task
    BY <1>5
  <2>2. QED
    BY <1>5, <2>1 DEF Task
<1>7. PICK lists : lists = [k \in DOMAIN T |-> T[k].tokens]
  OBVIOUS
<1>8. /\ lists \in Seq(Seq(HeldToken)) /\ Len(lists) = 1 + Len(q) + Len(o)
      /\ \A k \in 1..(1 + Len(q) + Len(o)) : lists[k] = T[k].tokens
  BY <1>2, <1>6, <1>7
<1>10. /\ held \in Seq(Seq(HeldToken)) /\ Len(held) = 3 + Len(q) + Len(o)
       /\ held[1] = b /\ held[2] = s
       /\ \A k \in 3..(3 + Len(q) + Len(o)) : held[k] = lists[k - 2]
  <2>1. held = <<b, s>> \o lists
    BY <1>7
  <2>2. lists \in Seq(Seq(HeldToken))
    BY <1>8
  <2>3. /\ held \in Seq(Seq(HeldToken)) /\ Len(held) = 2 + Len(lists)
        /\ held[1] = b /\ held[2] = s
        /\ \A k \in 3..(2 + Len(lists)) : held[k] = lists[k - 2]
    <3>1. PICK all : all = <<b, s>> \o lists
      OBVIOUS
    <3>2. /\ all \in Seq(Seq(HeldToken)) /\ Len(all) = 2 + Len(lists)
          /\ all[1] = b /\ all[2] = s
          /\ \A k \in 3..(2 + Len(lists)) : all[k] = lists[k - 2]
      BY <2>2, <3>1, TwoAndOthers
    <3>3. QED
      BY <2>1, <3>1, <3>2
  <2>4. 2 + Len(lists) = 3 + Len(q) + Len(o)
    BY <1>2, <1>8
  <2>5. QED
    BY <2>3, <2>4
<1>11. /\ DOMAIN held = 1..(3 + Len(q) + Len(o))
       /\ \A k \in DOMAIN held : held[k] \in Seq(HeldToken)
  <2>1. DOMAIN held = 1..Len(held)
    BY <1>10
  <2>2. \A k \in DOMAIN held : held[k] \in Seq(HeldToken)
    BY <1>10, <2>1, ElementOfSeq
  <2>3. QED
    BY <1>10, <2>1, <2>2
<1>12. held[3] = c.tokens
  BY <1>2, <1>4, <1>5, <1>8, <1>10
<1>13. ASSUME NEW k \in DOMAIN held, k > 3, k <= 3 + Len(q)
       PROVE  k - 3 \in DOMAIN q /\ held[k] = q[k - 3].tokens
  <2>1. k \in Int /\ k - 2 \in 2..(1 + Len(q)) /\ k - 3 \in 1..Len(q)
        /\ k \in 3..(3 + Len(q) + Len(o)) /\ (k - 2) - 1 = k - 3
    BY <1>2, <1>11, <1>13
  <2>2. held[k] = T[k - 2].tokens /\ T[k - 2] = cq[k - 2] /\ cq[k - 2] = q[k - 3]
    <3>1. held[k] = lists[k - 2]
      BY <1>10, <2>1
    <3>2. /\ lists[k - 2] = T[k - 2].tokens
          /\ k - 2 <= 1 + Len(q) /\ k - 2 \in 1..(1 + Len(q) + Len(o))
      <4>1. k - 2 <= 1 + Len(q) /\ k - 2 \in 1..(1 + Len(q) + Len(o))
        BY <1>2, <2>1
      <4>2. QED
        BY <1>8, <4>1
    <3>3. T[k - 2] = cq[k - 2]
      BY <1>5, <3>2
    <3>4. cq[k - 2] = q[k - 3]
      BY <1>4, <2>1
    <3>5. QED
      BY <3>1, <3>2, <3>3, <3>4
  <2>3. QED
    BY <1>2, <2>1, <2>2
<1>14. ASSUME NEW k \in DOMAIN held, k > 3 + Len(q)
       PROVE  /\ k - (3 + Len(q)) \in DOMAIN o
              /\ held[k] = o[k - (3 + Len(q))].tokens
  <2>1. /\ k \in Int /\ k - 2 \in 1..(1 + Len(q) + Len(o)) /\ ~ (k - 2 <= 1 + Len(q))
        /\ k - (3 + Len(q)) \in 1..Len(o)
        /\ k \in 3..(3 + Len(q) + Len(o))
        /\ (k - 2) - (1 + Len(q)) = k - (3 + Len(q))
    BY <1>2, <1>11, <1>14
  <2>2. held[k] = T[k - 2].tokens /\ T[k - 2] = o[k - (3 + Len(q))]
    BY <1>5, <1>8, <1>10, <2>1
  <2>3. QED
    BY <1>2, <2>1, <2>2
<1>15. QED
  BY <1>2, <1>10, <1>11, <1>12, <1>13, <1>14 DEF AreHolders

(* Holders that have what others had before, or a part of it, each from    *)
(* another one.                                                            *)
LEMMA Redistribute ==
    ASSUME NEW held, OneHolder(held), NEW kept, NEW src,
           \A k \in DOMAIN kept : src[k] \in DOMAIN held,
           \A k, l \in DOMAIN kept : src[k] = src[l] => k = l,
           \A k \in DOMAIN kept : Distinct(kept[k]),
           \A k \in DOMAIN kept : Toks(kept[k]) \subseteq Toks(held[src[k]])
    PROVE  OneHolder(kept)
<1> SUFFICES ASSUME NEW k \in DOMAIN kept, NEW l \in DOMAIN kept,
                    NEW i \in DOMAIN kept[k], NEW j \in DOMAIN kept[l],
                    kept[k][i].token = kept[l][j].token
             PROVE  k = l /\ i = j
  BY DEF OneHolder
<1>1. PICK p \in DOMAIN held[src[k]] : held[src[k]][p].token = kept[k][i].token
  BY DEF Toks
<1>2. PICK r \in DOMAIN held[src[l]] : held[src[l]][r].token = kept[l][j].token
  BY DEF Toks
<1>3. src[k] = src[l]
  BY <1>1, <1>2 DEF OneHolder
<1>4. k = l
  BY <1>3
<1>5. QED
  BY <1>4 DEF Distinct

LEMMA EachDistinct ==
    ASSUME NEW held, OneHolder(held), NEW k \in DOMAIN held
    PROVE  Distinct(held[k])
  BY DEF OneHolder, Distinct

LEMMA NoneHeld == Toks(<<>>) = {} /\ Distinct(<<>>)
<1>1. DOMAIN <<>> = {}
  OBVIOUS
<1>2. QED
  BY <1>1 DEF Toks, Distinct

(* Without its first, or its last, a list of tokens has the others. *)
LEMMA FirstGone ==
    ASSUME NEW s \in Seq(HeldToken), s # <<>>, Distinct(s)
    PROVE  /\ Distinct(Tail(s))
           /\ Toks(Tail(s)) \subseteq Toks(s) /\ s[1].token \notin Toks(Tail(s))
<1>1. /\ \A i \in DOMAIN Tail(s) : i + 1 \in DOMAIN s /\ i + 1 # 1 /\ Tail(s)[i] = s[i + 1]
      /\ 1 \in DOMAIN s
  BY TailOfOne
<1>2. \A i, j \in DOMAIN Tail(s) : i + 1 = j + 1 => i = j
  <2>1. DOMAIN Tail(s) \subseteq Int
    BY HeadTailProperties
  <2>2. QED
    BY <2>1
<1>3. Distinct(Tail(s))
  BY <1>1, <1>2 DEF Distinct
<1>4. QED
  BY <1>1, <1>3 DEF Distinct, Toks

LEMMA LastGone ==
    ASSUME NEW s \in Seq(HeldToken), s # <<>>, Distinct(s)
    PROVE  /\ Distinct(Front(s))
           /\ Toks(Front(s)) \subseteq Toks(s) /\ Last(s).token \notin Toks(Front(s))
<1>1. Len(s) \in Nat /\ Len(s) # 0 /\ DOMAIN s = 1..Len(s)
  OBVIOUS
<1>2. /\ Front(s) \in Seq(HeldToken) /\ Len(Front(s)) = Len(s) - 1
      /\ \A i \in 1..(Len(s) - 1) : Front(s)[i] = s[i]
  <2>1. Front(s) = SubSeq(s, 1, Len(s) - 1)
    BY DEF Front
  <2>2. QED
    BY <1>1, <2>1
<1>3. /\ \A i \in DOMAIN Front(s) : i \in DOMAIN s /\ i # Len(s) /\ Front(s)[i] = s[i]
      /\ Len(s) \in DOMAIN s
  BY <1>1, <1>2
<1>4. QED
  BY <1>3 DEF Last, Distinct, Toks

(* What readBatch makes of a batch: the task and the stale lines have      *)
(* different tokens of it.                                                 *)
LEMMA LinesTokens ==
    ASSUME NEW b \in Seq(HeldToken), Distinct(b), NEW S \in SUBSET DOMAIN b,
           NEW m \in SetToSeqs(S)
    PROVE  /\ Lines(b, m) \in Seq(HeldToken) /\ Distinct(Lines(b, m))
           /\ Toks(Lines(b, m)) \subseteq {b[i].token : i \in S}
<1>1. /\ Lines(b, m) \in Seq(HeldToken)
      /\ DOMAIN Lines(b, m) = DOMAIN m
      /\ \A k \in DOMAIN m : m[k] \in S /\ Lines(b, m)[k] = b[m[k]]
      /\ \A j, k \in DOMAIN m : m[j] = m[k] => j = k
  BY LinesOfBatch
<1>2. Distinct(Lines(b, m))
  BY <1>1 DEF Distinct
<1>3. QED
  BY <1>1, <1>2 DEF Toks

LEMMA BatchSplits ==
    ASSUME NEW b \in Seq(HeldToken), Distinct(b),
           NEW t \in BatchTasks(b), NEW old \in StaleLines(b)
    PROVE  /\ Distinct(t.tokens) /\ Distinct(old)
           /\ Toks(t.tokens) \subseteq Toks(b) /\ Toks(old) \subseteq Toks(b)
           /\ Toks(t.tokens) \cap Toks(old) = {}
<1>1. CASE InOrder
  <2> DEFINE S == {i \in DOMAIN b : b[i].record # NoRecord}
  <2>1. old = <<>>
    BY <1>1 DEF StaleLines
  <2>2. PICK m \in AsRead(S) : t = TaskOf(Lines(b, m), FirstOfTime(Lines(b, m)))
    BY <1>1 DEF BatchTasks, MetricTasks
  <2>3. m \in SetToSeqs(S) /\ S \in SUBSET DOMAIN b /\ t.tokens = Lines(b, m)
    BY <2>2 DEF AsRead, TaskOf
  <2>4. Distinct(t.tokens) /\ Toks(t.tokens) \subseteq {b[i].token : i \in S}
    BY <2>3, LinesTokens
  <2>5. {b[i].token : i \in S} \subseteq Toks(b)
    BY DEF Toks
  <2>6. QED
    BY <2>1, <2>4, <2>5, NoneHeld
<1>2. CASE ~ InOrder
  <2>1. PICK m \in LatestFirst(b, Young(b)) : t = TaskOf(Lines(b, m), RecordsOf(Lines(b, m)))
    BY <1>2 DEF BatchTasks, LogTasks
  <2>2. PICK r \in LatestFirst(b, TooOld(b)) : old = Lines(b, r)
    BY <1>2 DEF StaleLines
  <2>3. m \in SetToSeqs(Young(b)) /\ r \in SetToSeqs(TooOld(b)) /\ t.tokens = Lines(b, m)
    BY <2>1, <2>2 DEF LatestFirst, TaskOf
  <2>4. /\ Young(b) \in SUBSET DOMAIN b /\ TooOld(b) \in SUBSET DOMAIN b
        /\ Young(b) \cap TooOld(b) = {}
    BY DEF Young, TooOld
  <2>5. /\ Distinct(t.tokens) /\ Toks(t.tokens) \subseteq {b[i].token : i \in Young(b)}
        /\ Distinct(old) /\ Toks(old) \subseteq {b[i].token : i \in TooOld(b)}
    BY <2>2, <2>3, <2>4, LinesTokens
  <2>6. {b[i].token : i \in Young(b)} \cap {b[i].token : i \in TooOld(b)} = {}
    BY <2>4 DEF Distinct
  <2>7. /\ {b[i].token : i \in Young(b)} \subseteq Toks(b)
        /\ {b[i].token : i \in TooOld(b)} \subseteq Toks(b)
    BY <2>4 DEF Toks
  <2>8. QED
    BY <2>5, <2>6, <2>7
<1>3. QED
  BY <1>1, <1>2

(* The strengthening of TokenHasOneHolder: the token store knows what the  *)
(* pipeline holds, so that no new token is one of them; and nothing is     *)
(* held while there is no process.                                         *)
HeldKnown == \A k \in DOMAIN Holders : \A t \in Toks(Holders[k]) : Known(t)
NothingHeld == /\ stored_task = <<>> /\ stale_data = <<>> /\ queue = <<>> /\ task = NoTask
               /\ streamer = "idle" /\ worker = "idle"
HolderInv == /\ TokenHasOneHolder
             /\ HeldKnown
             /\ mode = "down" => NothingHeld

LEMMA HoldersNow ==
    ASSUME UploadInv
    PROVE  AreHolders(Holders, batch, stale_data, task, queue, stored_task)
<1>1. /\ batch \in Seq(HeldToken) /\ stale_data \in Seq(HeldToken) /\ task \in Task
      /\ queue \in Seq(Task) /\ stored_task \in Seq(Task)
  BY DEF UploadInv, PipelineTypes, TInv, TypeOK
<1>2. PICK tasks : tasks = <<task>> \o queue \o stored_task
  OBVIOUS
<1>3. PICK held : held = <<batch, stale_data>> \o [k \in DOMAIN tasks |-> tasks[k].tokens]
  OBVIOUS
<1>4. AreHolders(held, batch, stale_data, task, queue, stored_task)
  BY <1>1, <1>2, <1>3, HolderList
<1>5. Holders = held
  BY <1>2, <1>3 DEF Holders, Tasks
<1>6. QED
  BY <1>4, <1>5

LEMMA HoldersThen ==
    ASSUME UploadInv'
    PROVE  AreHolders(Holders', batch', stale_data', task', queue', stored_task')
<1>1. /\ batch' \in Seq(HeldToken) /\ stale_data' \in Seq(HeldToken) /\ task' \in Task
      /\ queue' \in Seq(Task) /\ stored_task' \in Seq(Task)
  BY DEF UploadInv, PipelineTypes, TInv, TypeOK
<1>2. PICK tasks : tasks = <<task'>> \o queue' \o stored_task'
  OBVIOUS
<1>3. PICK held : held = <<batch', stale_data'>> \o [k \in DOMAIN tasks |-> tasks[k].tokens]
  OBVIOUS
<1>4. AreHolders(held, batch', stale_data', task', queue', stored_task')
  BY <1>1, <1>2, <1>3, HolderList
<1>5. Holders' = held
  BY <1>2, <1>3 DEF Holders, Tasks
<1>6. QED
  BY <1>4, <1>5

(* The pipeline moves tokens.  Every holder has then what one had before,  *)
(* or less: src[k] is the one it has them from.                           *)
Moved(kept, held) ==
    /\ OneHolder(kept)
    /\ \A k \in DOMAIN kept : \A t \in Toks(kept[k]) :
         \E l \in DOMAIN held : t \in Toks(held[l])

TracedBy(src, kept, held) ==
    /\ \A k \in DOMAIN kept : src[k] \in DOMAIN held /\ kept[k] = held[src[k]]
    /\ \A k, l \in DOMAIN kept : src[k] = src[l] => k = l

LEMMA MovedFrom ==
    ASSUME NEW held, OneHolder(held), NEW kept, NEW src, TracedBy(src, kept, held)
    PROVE  Moved(kept, held)
<1>1. \A k \in DOMAIN kept : Distinct(kept[k]) /\ Toks(kept[k]) = Toks(held[src[k]])
  BY EachDistinct DEF TracedBy
<1>2. OneHolder(kept)
  BY <1>1, Redistribute DEF TracedBy
<1>3. QED
  BY <1>1, <1>2 DEF Moved, TracedBy

(* Dequeue: each task moves up by one. *)
LEMMA TaskTaken ==
    ASSUME NEW b, NEW s, NEW c, NEW q \in Seq(Task), q # <<>>, NEW o,
           NEW held, AreHolders(held, b, s, c, q, o), OneHolder(held),
           NEW kept, AreHolders(kept, b, s, Head(q), Tail(q), o)
    PROVE  Moved(kept, held)
<1> DEFINE src == [k \in DOMAIN kept |-> IF k <= 2 THEN k ELSE k + 1]
<1>1. PICK n \in Nat : n = Len(q)
  OBVIOUS
<1>2. PICK m \in Nat : m = Len(o)
  BY DEF AreHolders
<1>3. /\ n # 0 /\ Len(Tail(q)) = n - 1 /\ Head(q) = q[1]
      /\ \A j \in 1..(n - 1) : Tail(q)[j] = q[j + 1]
  BY <1>1, HeadTailProperties
<1>4. DOMAIN held = 1..(3 + n + m) /\ DOMAIN kept = 1..(2 + n + m)
  <2>1. DOMAIN kept = 1..(3 + (n - 1) + m)
    BY <1>2, <1>3 DEF AreHolders
  <2>2. QED
    BY <1>1, <1>2, <2>1 DEF AreHolders
<1>5. ASSUME NEW k \in DOMAIN kept
      PROVE  src[k] \in DOMAIN held /\ kept[k] = held[src[k]]
  <2>1. k \in Nat /\ k >= 1 /\ k <= 2 + n + m
    BY <1>4
  <2>2. CASE k <= 2
    <3>1. src[k] = k /\ k \in {1, 2}
      BY <2>1, <2>2
    <3>2. QED
      BY <1>4, <3>1 DEF AreHolders
  <2>3. CASE k = 3
    <3>1. src[k] = 4 /\ 4 \in DOMAIN held /\ 4 > 3 /\ 4 <= 3 + n /\ 4 - 3 = 1
      BY <1>3, <1>4, <2>3
    <3>2. held[4] = q[1].tokens
      BY <1>1, <3>1 DEF AreHolders
    <3>3. kept[3] = Head(q).tokens
      BY DEF AreHolders
    <3>4. QED
      BY <1>3, <2>3, <3>1, <3>2, <3>3
  <2>4. CASE k > 3 /\ k <= 2 + n
    <3>1. /\ src[k] = k + 1 /\ k + 1 \in DOMAIN held /\ k + 1 > 3 /\ k + 1 <= 3 + n
          /\ (k + 1) - 3 = k - 2 /\ k <= 3 + (n - 1)
          /\ k - 3 \in 1..(n - 1) /\ (k - 3) + 1 = k - 2
      BY <1>4, <2>1, <2>4
    <3>2. held[k + 1] = q[k - 2].tokens
      BY <1>1, <3>1 DEF AreHolders
    <3>3. kept[k] = Tail(q)[k - 3].tokens
      BY <1>3, <2>4, <3>1 DEF AreHolders
    <3>4. QED
      BY <1>3, <3>1, <3>2, <3>3
  <2>5. CASE k > 2 + n
    <3>1. /\ src[k] = k + 1 /\ k + 1 \in DOMAIN held /\ k + 1 > 3 + n /\ k > 3 + (n - 1)
          /\ (k + 1) - (3 + n) = k - (3 + (n - 1))
      BY <1>3, <1>4, <2>1, <2>5
    <3>2. held[k + 1] = o[(k + 1) - (3 + n)].tokens
      BY <1>1, <3>1 DEF AreHolders
    <3>3. kept[k] = o[k - (3 + (n - 1))].tokens
      BY <1>3, <3>1 DEF AreHolders
    <3>4. QED
      BY <3>1, <3>2, <3>3
  <2>6. QED
    BY <1>1, <2>1, <2>2, <2>3, <2>4, <2>5
<1>6. \A k, l \in DOMAIN kept : src[k] = src[l] => k = l
  BY <1>4
<1> HIDE DEF src
<1>7. TracedBy(src, kept, held)
  BY <1>5, <1>6 DEF TracedBy
<1>8. QED
  BY <1>7, MovedFrom

(* clear(): the queue's tasks are gone, the one that is not queued stays.  *)
LEMMA TasksCleared ==
    ASSUME NEW b, NEW s, NEW c, NEW q, NEW o,
           NEW held, AreHolders(held, b, s, c, q, o), OneHolder(held),
           NEW kept, AreHolders(kept, b, s, c, <<>>, o)
    PROVE  Moved(kept, held)
<1> DEFINE src == [k \in DOMAIN kept |-> IF k <= 3 THEN k ELSE k + Len(q)]
<1>1. PICK n \in Nat, m \in Nat : n = Len(q) /\ m = Len(o)
  BY DEF AreHolders
<1>2. Len(<<>>) = 0 /\ DOMAIN held = 1..(3 + n + m) /\ DOMAIN kept = 1..(3 + m)
  <2>1. Len(<<>>) = 0
    OBVIOUS
  <2>2. DOMAIN held = 1..(3 + n + m) /\ DOMAIN kept = 1..(3 + 0 + m)
    BY <1>1, <2>1 DEF AreHolders
  <2>3. QED
    BY <2>1, <2>2
<1>3. ASSUME NEW k \in DOMAIN kept
      PROVE  src[k] \in DOMAIN held /\ kept[k] = held[src[k]]
  <2>1. CASE k <= 3
    <3>1. src[k] = k /\ k \in {1, 2, 3} /\ k \in DOMAIN held
      BY <1>1, <1>2, <2>1
    <3>2. QED
      BY <3>1 DEF AreHolders
  <2>2. CASE ~ (k <= 3)
    <3>1. /\ src[k] = k + n /\ k + n \in DOMAIN held /\ k + n > 3 + n /\ k > 3 + 0
          /\ (k + n) - (3 + n) = k - (3 + 0)
      BY <1>1, <1>2, <2>2
    <3>2. held[k + n] = o[(k + n) - (3 + n)].tokens
      BY <1>1, <3>1 DEF AreHolders
    <3>3. kept[k] = o[k - (3 + 0)].tokens
      BY <1>2, <3>1 DEF AreHolders
    <3>4. QED
      BY <3>1, <3>2, <3>3
  <2>3. QED
    BY <2>1, <2>2
<1>4. \A k, l \in DOMAIN kept : src[k] = src[l] => k = l
  BY <1>1, <1>2
<1> HIDE DEF src
<1>5. TracedBy(src, kept, held)
  BY <1>3, <1>4 DEF TracedBy
<1>6. QED
  BY <1>5, MovedFrom

Concatenated(qo, q, o) ==
    /\ Len(qo) = Len(q) + Len(o)
    /\ \A j \in 1..Len(q) + Len(o) : qo[j] = IF j <= Len(q) THEN q[j] ELSE o[j - Len(q)]

(* tryEnqueue: the task that was put aside becomes the last of the queue.  *)
LEMMA TaskQueued ==
    ASSUME NEW b, NEW s, NEW c, NEW q, NEW o, NEW qo, Concatenated(qo, q, o),
           NEW held, AreHolders(held, b, s, c, q, o), OneHolder(held),
           NEW kept, AreHolders(kept, b, s, c, qo, <<>>)
    PROVE  Moved(kept, held)
<1> DEFINE src == [k \in DOMAIN kept |-> k]
<1>1. PICK n \in Nat, m \in Nat : n = Len(q) /\ m = Len(o)
  BY DEF AreHolders
<1>3. /\ Len(qo) = n + m
      /\ \A j \in 1..(n + m) : qo[j] = IF j <= n THEN q[j] ELSE o[j - n]
  BY <1>1 DEF Concatenated
<1>4. Len(<<>>) = 0 /\ DOMAIN held = 1..(3 + n + m) /\ DOMAIN kept = 1..(3 + n + m)
  <2>1. Len(<<>>) = 0
    OBVIOUS
  <2>2. DOMAIN held = 1..(3 + n + m) /\ DOMAIN kept = 1..(3 + (n + m) + 0)
    BY <1>1, <1>3, <2>1 DEF AreHolders
  <2>3. QED
    BY <2>1, <2>2
<1>5. ASSUME NEW k \in DOMAIN kept
      PROVE  src[k] \in DOMAIN held /\ kept[k] = held[src[k]]
  <2>1. src[k] = k /\ k \in DOMAIN held /\ k \in DOMAIN kept
    BY <1>4
  <2>2. CASE k <= 3
    <3>1. k \in {1, 2, 3}
      BY <1>4, <2>2
    <3>2. QED
      BY <2>1, <3>1 DEF AreHolders
  <2>3. CASE k > 3
    <3>1. k \in Int /\ k <= 3 + (n + m) /\ k - 3 \in 1..(n + m)
      BY <1>4, <2>3
    <3>2. kept[k] = qo[k - 3].tokens
      BY <1>3, <2>1, <2>3, <3>1 DEF AreHolders
    <3>3. CASE k <= 3 + n
      <4>1. k - 3 <= n
        BY <3>1, <3>3
      <4>2. held[k] = q[k - 3].tokens
        BY <1>1, <2>1, <2>3, <3>3 DEF AreHolders
      <4>3. QED
        BY <1>3, <2>1, <3>1, <3>2, <4>1, <4>2
    <3>4. CASE ~ (k <= 3 + n)
      <4>1. ~ (k - 3 <= n) /\ k > 3 + n /\ (k - 3) - n = k - (3 + n)
        BY <3>1, <3>4
      <4>2. held[k] = o[k - (3 + n)].tokens
        BY <1>1, <2>1, <4>1 DEF AreHolders
      <4>3. QED
        BY <1>3, <2>1, <3>1, <3>2, <4>1, <4>2
    <3>5. QED
      BY <3>3, <3>4
  <2>4. QED
    BY <1>4, <2>2, <2>3
<1>6. \A k, l \in DOMAIN kept : src[k] = src[l] => k = l
  OBVIOUS
<1> HIDE DEF src
<1>7. TracedBy(src, kept, held)
  BY <1>5, <1>6 DEF TracedBy
<1>8. QED
  BY <1>7, MovedFrom

(* One holder has fewer tokens than before: it has given one back.         *)
LEMMA OneReturned ==
    ASSUME NEW held, OneHolder(held), NEW kept, DOMAIN kept = DOMAIN held,
           NEW h \in DOMAIN held, \A k \in DOMAIN held : k # h => kept[k] = held[k],
           Distinct(kept[h]), Toks(kept[h]) \subseteq Toks(held[h]),
           NEW t, t \in Toks(held[h]), t \notin Toks(kept[h])
    PROVE  Moved(kept, held) /\ \A k \in DOMAIN kept : t \notin Toks(kept[k])
<1> DEFINE src == [k \in DOMAIN kept |-> k]
<1>1. \A k \in DOMAIN kept : Distinct(kept[k]) /\ Toks(kept[k]) \subseteq Toks(held[k])
  BY EachDistinct
<1>2. /\ \A k \in DOMAIN kept : src[k] = k
      /\ \A k, l \in DOMAIN kept : src[k] = src[l] => k = l
  OBVIOUS
<1> HIDE DEF src
<1>3. OneHolder(kept)
  BY <1>1, <1>2, Redistribute
<1>4. ASSUME NEW k \in DOMAIN kept, t \in Toks(kept[k])
      PROVE  FALSE
  <2>1. k # h /\ kept[k] = held[k]
    BY <1>4
  <2>2. PICK i \in DOMAIN held[k], j \in DOMAIN held[h] :
          held[k][i].token = t /\ held[h][j].token = t
    BY <1>4, <2>1 DEF Toks
  <2>3. QED
    BY <2>1, <2>2 DEF OneHolder
<1>5. QED
  BY <1>1, <1>3, <1>4 DEF Moved

LEMMA TaskSettled ==
    ASSUME NEW b, NEW s, NEW c, NEW q, NEW o,
           NEW toks \in Seq(HeldToken), toks # <<>>, c.tokens = toks,
           NEW held, AreHolders(held, b, s, c, q, o), OneHolder(held),
           NEW d, d.tokens = Tail(toks),
           NEW kept, AreHolders(kept, b, s, d, q, o)
    PROVE  Moved(kept, held) /\ \A k \in DOMAIN kept : toks[1].token \notin Toks(kept[k])
<1>1. PICK h \in DOMAIN held : h = 3
  BY DEF AreHolders
<1>2. DOMAIN kept = DOMAIN held /\ held[h] = toks /\ kept[h] = Tail(toks)
  BY <1>1 DEF AreHolders
<1>3. ASSUME NEW k \in DOMAIN held, k # h
      PROVE  kept[k] = held[k]
  <2>1. k \in {1, 2} \/ (k > 3 /\ k <= 3 + Len(q)) \/ k > 3 + Len(q)
    BY <1>1, <1>3 DEF AreHolders
  <2>2. QED
    BY <1>2, <2>1 DEF AreHolders
<1>4. Distinct(toks) /\ 1 \in DOMAIN toks
  BY <1>2, EachDistinct, TailOfOne
<1>5. /\ Distinct(kept[h]) /\ Toks(kept[h]) \subseteq Toks(held[h])
      /\ toks[1].token \notin Toks(kept[h])
  BY <1>2, <1>4, FirstGone
<1>6. toks[1].token \in Toks(held[h])
  BY <1>2, <1>4 DEF Toks
<1>7. PICK t : t = toks[1].token
  OBVIOUS
<1>8. t \in Toks(held[h]) /\ t \notin Toks(kept[h])
  BY <1>5, <1>6, <1>7
<1>9. Moved(kept, held) /\ \A k \in DOMAIN kept : t \notin Toks(kept[k])
  BY <1>2, <1>3, <1>5, <1>8, OneReturned
<1>10. QED
  BY <1>7, <1>9

LEMMA StaleDeleted ==
    ASSUME NEW b, NEW s \in Seq(HeldToken), s # <<>>, NEW c, NEW q, NEW o,
           NEW held, AreHolders(held, b, s, c, q, o), OneHolder(held),
           NEW kept, AreHolders(kept, b, Front(s), c, q, o)
    PROVE  Moved(kept, held) /\ \A k \in DOMAIN kept : Last(s).token \notin Toks(kept[k])
<1>1. /\ DOMAIN kept = DOMAIN held /\ 2 \in DOMAIN held
      /\ held[2] = s /\ kept[2] = Front(s)
  BY DEF AreHolders
<1>2. ASSUME NEW k \in DOMAIN held, k # 2
      PROVE  kept[k] = held[k]
  <2>1. k \in {1, 3} \/ (k > 3 /\ k <= 3 + Len(q)) \/ k > 3 + Len(q)
    BY <1>2 DEF AreHolders
  <2>2. QED
    BY <1>1, <2>1 DEF AreHolders
<1>3. Distinct(held[2]) /\ Len(s) \in DOMAIN s
  <2>1. Len(s) \in Nat /\ Len(s) # 0 /\ DOMAIN s = 1..Len(s)
    OBVIOUS
  <2>2. QED
    BY <1>1, <2>1, EachDistinct
<1>4. /\ Distinct(kept[2]) /\ Toks(kept[2]) \subseteq Toks(held[2])
      /\ Last(s).token \notin Toks(kept[2])
  BY <1>1, <1>3, LastGone
<1>5. Last(s).token \in Toks(held[2])
  BY <1>1, <1>3 DEF Toks, Last
<1>6. QED
  BY <1>1, <1>2, <1>4, <1>5, OneReturned

LEMMA HoldersApart ==
    ASSUME NEW held
    PROVE  OneHolder(held) <=>
             /\ \A k \in DOMAIN held : Distinct(held[k])
             /\ \A k, l \in DOMAIN held : k # l => Toks(held[k]) \cap Toks(held[l]) = {}
<1>1. ASSUME OneHolder(held), NEW k \in DOMAIN held, NEW l \in DOMAIN held, k # l
      PROVE  Toks(held[k]) \cap Toks(held[l]) = {}
  <2> SUFFICES ASSUME NEW i \in DOMAIN held[k], NEW j \in DOMAIN held[l],
                      held[k][i].token = held[l][j].token
               PROVE  FALSE
    BY DEF Toks
  <2>1. QED
    BY <1>1 DEF OneHolder
<1>2. ASSUME \A k \in DOMAIN held : Distinct(held[k]),
             \A k, l \in DOMAIN held : k # l => Toks(held[k]) \cap Toks(held[l]) = {}
      PROVE  OneHolder(held)
  <2> SUFFICES ASSUME NEW k \in DOMAIN held, NEW l \in DOMAIN held,
                      NEW i \in DOMAIN held[k], NEW j \in DOMAIN held[l],
                      held[k][i].token = held[l][j].token
               PROVE  k = l /\ i = j
    BY DEF OneHolder
  <2>1. held[k][i].token \in Toks(held[k]) /\ held[k][i].token \in Toks(held[l])
    BY DEF Toks
  <2>2. k = l
    BY <1>2, <2>1
  <2>3. QED
    BY <1>2, <2>2 DEF Distinct
<1>3. QED
  BY <1>1, <1>2, EachDistinct

LEMMA ConcatTokens ==
    ASSUME NEW s \in Seq(HeldToken), NEW r \in Seq(HeldToken), NEW sr \in Seq(HeldToken),
           Concatenated(sr, s, r), Distinct(s), Distinct(r), Toks(s) \cap Toks(r) = {}
    PROVE  Distinct(sr) /\ Toks(sr) \subseteq Toks(s) \cup Toks(r)
<1>1. PICK n \in Nat, m \in Nat : n = Len(s) /\ m = Len(r)
  OBVIOUS
<1>2. /\ DOMAIN s = 1..n /\ DOMAIN r = 1..m /\ DOMAIN sr = 1..(n + m)
      /\ \A j \in 1..(n + m) : sr[j] = IF j <= n THEN s[j] ELSE r[j - n]
  BY <1>1 DEF Concatenated
<1>3. ASSUME NEW j \in DOMAIN sr
      PROVE  \/ j <= n /\ j \in DOMAIN s /\ sr[j] = s[j] /\ sr[j].token \in Toks(s)
             \/ j > n /\ j - n \in DOMAIN r /\ sr[j] = r[j - n] /\ sr[j].token \in Toks(r)
  <2>1. CASE j <= n
    <3>1. j \in DOMAIN s /\ sr[j] = s[j]
      BY <1>2, <2>1
    <3>2. QED
      BY <2>1, <3>1 DEF Toks
  <2>2. CASE ~ (j <= n)
    <3>1. j > n /\ j - n \in DOMAIN r /\ sr[j] = r[j - n]
      BY <1>2, <2>2
    <3>2. QED
      BY <3>1 DEF Toks
  <2>3. QED
    BY <2>1, <2>2
<1>4. ASSUME NEW i \in DOMAIN sr, NEW j \in DOMAIN sr, sr[i].token = sr[j].token
      PROVE  i = j
  <2>1. \/ i \in DOMAIN s /\ j \in DOMAIN s /\ s[i].token = s[j].token
        \/ i - n \in DOMAIN r /\ j - n \in DOMAIN r /\ r[i - n].token = r[j - n].token
    BY <1>3, <1>4
  <2>2. i \in Int /\ j \in Int
    BY <1>2
  <2>3. i = j \/ i - n = j - n
    BY <2>1 DEF Distinct
  <2>4. QED
    BY <2>2, <2>3
<1>5. QED
  BY <1>3, <1>4 DEF Distinct, Toks

(* The end of readBatch: a batch becomes a task and stale lines.           *)
LEMMA BatchEnds ==
    ASSUME NEW b \in Seq(HeldToken), NEW s \in Seq(HeldToken), NEW c, NEW q, NEW o,
           NEW held, AreHolders(held, b, s, c, q, o), OneHolder(held),
           NEW t \in BatchTasks(b), NEW old \in StaleLines(b),
           NEW u \in Seq(HeldToken), Concatenated(u, s, old),
           NEW n, n = <<t>>,
           NEW kept, AreHolders(kept, <<>>, u, c, q, n)
    PROVE  Moved(kept, held)
<1>1. /\ 1 \in DOMAIN held /\ 2 \in DOMAIN held /\ held[1] = b /\ held[2] = s
      /\ 1 \in DOMAIN kept /\ 2 \in DOMAIN kept /\ kept[1] = <<>> /\ kept[2] = u
  BY DEF AreHolders
<1>2. \A k, l \in DOMAIN held : k # l => Toks(held[k]) \cap Toks(held[l]) = {}
  BY HoldersApart
<1>3. /\ Distinct(b) /\ Distinct(s) /\ Toks(b) \cap Toks(s) = {}
  <2>1. Distinct(b) /\ Distinct(s)
    BY <1>1, EachDistinct
  <2>2. PICK k \in DOMAIN held, l \in DOMAIN held : k = 1 /\ l = 2
    BY <1>1
  <2>3. k # l
    BY <2>2
  <2>4. QED
    BY <1>1, <1>2, <2>1, <2>2, <2>3
<1>4. /\ t.tokens \in Seq(HeldToken) /\ old \in Seq(HeldToken)
      /\ Distinct(t.tokens) /\ Distinct(old)
      /\ Toks(t.tokens) \subseteq Toks(b) /\ Toks(old) \subseteq Toks(b)
      /\ Toks(t.tokens) \cap Toks(old) = {}
  <2>1. t \in Task /\ old \in Seq(HeldToken)
    BY BatchTypes
  <2>2. QED
    BY <1>3, <2>1, BatchSplits DEF Task
<1>5. Distinct(u) /\ Toks(u) \subseteq Toks(s) \cup Toks(old)
  BY <1>3, <1>4, ConcatTokens
<1>6. ASSUME NEW k \in DOMAIN kept, k # 1, k # 2
      PROVE  \/ k \in DOMAIN held /\ kept[k] = held[k]
             \/ k = 4 + Len(q) /\ kept[k] = t.tokens
  <2>1. Len(n) = 1 /\ DOMAIN n = {1} /\ n[1] = t
    OBVIOUS
  <2>2. PICK p \in Nat, m \in Nat : p = Len(q) /\ m = Len(o)
    BY DEF AreHolders
  <2>3. DOMAIN kept = 1..(3 + p + 1) /\ DOMAIN held = 1..(3 + p + m)
    BY <2>1, <2>2 DEF AreHolders
  <2>4. k = 3 \/ (k > 3 /\ k <= 3 + p) \/ k = 4 + p
    BY <1>6, <2>3
  <2>5. CASE k = 3
    <3>1. k \in DOMAIN held
      BY <2>3, <2>5
    <3>2. QED
      BY <2>5, <3>1 DEF AreHolders
  <2>6. CASE k > 3 /\ k <= 3 + p
    <3>1. k \in DOMAIN held
      BY <2>3, <2>6
    <3>2. kept[k] = q[k - 3].tokens /\ held[k] = q[k - 3].tokens
      BY <2>2, <2>6, <3>1 DEF AreHolders
    <3>3. QED
      BY <3>1, <3>2
  <2>7. CASE k = 4 + p
    <3>1. k > 3 + p /\ k - (3 + p) = 1
      BY <2>7
    <3>2. kept[k] = n[1].tokens
      BY <2>2, <3>1 DEF AreHolders
    <3>3. QED
      BY <2>1, <2>2, <2>7, <3>2
  <2>8. QED
    BY <2>4, <2>5, <2>6, <2>7
<1>7. \A k \in DOMAIN kept : Distinct(kept[k])
  BY <1>1, <1>4, <1>5, <1>6, NoneHeld, EachDistinct
<1>8. \A k \in DOMAIN held : k # 1 => Toks(held[k]) \cap Toks(b) = {}
  BY <1>1, <1>2
<1>9. \A k \in DOMAIN held : k # 2 => Toks(held[k]) \cap Toks(s) = {}
  BY <1>1, <1>2
<1>10. ASSUME NEW k \in DOMAIN kept, NEW l \in DOMAIN kept, k # l
       PROVE  Toks(kept[k]) \cap Toks(kept[l]) = {}
  <2>1. ASSUME NEW j \in DOMAIN kept, j # 1, j # 2
        PROVE  Toks(kept[j]) \cap Toks(u) = {}
    BY <1>3, <1>4, <1>5, <1>6, <1>8, <1>9, <2>1
  <2>2. ASSUME NEW j \in DOMAIN kept, NEW i \in DOMAIN kept, j # i,
               j # 1, j # 2, i # 1, i # 2
        PROVE  Toks(kept[j]) \cap Toks(kept[i]) = {}
    BY <1>2, <1>4, <1>6, <1>8, <2>2
  <2>3. CASE k = 1 \/ l = 1
    BY <1>1, <2>3, NoneHeld
  <2>4. CASE k # 1 /\ l # 1
    BY <1>1, <1>10, <2>1, <2>2, <2>4
  <2>5. QED
    BY <2>3, <2>4
<1>11. OneHolder(kept)
  BY <1>7, <1>10, HoldersApart
<1>12. ASSUME NEW k \in DOMAIN kept, NEW x \in Toks(kept[k])
       PROVE  \E l \in DOMAIN held : x \in Toks(held[l])
  BY <1>1, <1>4, <1>5, <1>6, <1>12, NoneHeld
<1>13. QED
  BY <1>11, <1>12 DEF Moved

LEMMA NoneMoved ==
    ASSUME NEW c, c.tokens = <<>>, NEW kept, AreHolders(kept, <<>>, <<>>, c, <<>>, <<>>)
    PROVE  \A k \in DOMAIN kept : kept[k] = <<>>
<1>1. Len(<<>>) = 0
  OBVIOUS
<1>2. DOMAIN kept = 1..(3 + 0 + 0)
  BY <1>1 DEF AreHolders
<1>3. \A k \in DOMAIN kept : k \in {1, 2, 3}
  BY <1>2
<1>4. QED
  BY <1>3 DEF AreHolders

LEMMA NoHolders ==
    ASSUME NEW kept, \A k \in DOMAIN kept : kept[k] = <<>>
    PROVE  OneHolder(kept) /\ \A k \in DOMAIN kept : Toks(kept[k]) = {}
<1>1. \A k \in DOMAIN kept : Distinct(kept[k]) /\ Toks(kept[k]) = {}
  BY NoneHeld
<1>2. QED
  BY <1>1, HoldersApart

Appended(bh, b, h) ==
    \E n : /\ DOMAIN bh = DOMAIN b \cup {n} /\ bh[n] = h
           /\ \A i \in DOMAIN b : bh[i] = b[i]

LEMMA AppendIsAppended ==
    ASSUME NEW S, NEW b \in Seq(S), NEW h \in S
    PROVE  Appended(Append(b, h), b, h)
<1>1. PICK bh : bh = Append(b, h)
  OBVIOUS
<1>2. PICK n : n = Len(b) + 1
  OBVIOUS
<1>3. /\ DOMAIN bh = DOMAIN b \cup {n} /\ bh[n] = h
      /\ \A i \in DOMAIN b : bh[i] = b[i]
  BY <1>1, <1>2
<1>4. QED
  BY <1>1, <1>3 DEF Appended

(* A read: a token nobody holds.                                           *)
LEMMA TokenCreated ==
    ASSUME NEW b, NEW h, NEW s, NEW c, NEW q, NEW o,
           NEW held, AreHolders(held, b, s, c, q, o), OneHolder(held),
           \A k \in DOMAIN held : h.token \notin Toks(held[k]),
           NEW bh, Appended(bh, b, h),
           NEW kept, AreHolders(kept, bh, s, c, q, o)
    PROVE  /\ OneHolder(kept)
           /\ \A k \in DOMAIN kept : \A t \in Toks(kept[k]) :
                t = h.token \/ \E l \in DOMAIN held : t \in Toks(held[l])
<1>1. PICK f \in DOMAIN held : f = 1
  BY DEF AreHolders
<1>2. DOMAIN kept = DOMAIN held /\ held[f] = b /\ kept[f] = bh
  BY <1>1 DEF AreHolders
<1>3. ASSUME NEW k \in DOMAIN held, k # f
      PROVE  kept[k] = held[k]
  <2>1. k \in {2, 3} \/ (k > 3 /\ k <= 3 + Len(q)) \/ k > 3 + Len(q)
    BY <1>1, <1>3 DEF AreHolders
  <2>2. QED
    BY <1>2, <2>1 DEF AreHolders
<1>4. PICK n : /\ DOMAIN bh = DOMAIN b \cup {n} /\ bh[n] = h
               /\ \A i \in DOMAIN b : bh[i] = b[i]
  BY DEF Appended
<1>5. \A i \in DOMAIN b : b[i].token # h.token
  BY <1>2 DEF Toks
<1>6. /\ Toks(bh) \subseteq Toks(b) \cup {h.token}
      /\ Distinct(bh)
  <2>1. Distinct(b)
    BY <1>2, EachDistinct
  <2>2. ASSUME NEW i \in DOMAIN bh, NEW j \in DOMAIN bh, bh[i].token = bh[j].token
        PROVE  i = j
    BY <1>4, <1>5, <2>1, <2>2 DEF Distinct
  <2>3. QED
    BY <1>4, <2>2 DEF Toks, Distinct
<1>7. \A k \in DOMAIN kept : Distinct(kept[k])
  BY <1>2, <1>3, <1>6, EachDistinct
<1>8. \A k, l \in DOMAIN held : k # l => Toks(held[k]) \cap Toks(held[l]) = {}
  BY HoldersApart
<1>9. ASSUME NEW k \in DOMAIN held, k # f
      PROVE  Toks(kept[k]) \cap Toks(kept[f]) = {}
  BY <1>2, <1>3, <1>6, <1>8, <1>9
<1>10. \A k, l \in DOMAIN kept : k # l => Toks(kept[k]) \cap Toks(kept[l]) = {}
  BY <1>2, <1>3, <1>8, <1>9
<1>11. OneHolder(kept)
  BY <1>7, <1>10, HoldersApart
<1>12. QED
  BY <1>2, <1>3, <1>6, <1>11

LEMMA HolderTokens ==
    ASSUME NEW held, NEW b, NEW s, NEW c, NEW q, NEW o, AreHolders(held, b, s, c, q, o)
    PROVE  \A k \in DOMAIN held : \A t \in Toks(held[k]) : t \in Token
<1> SUFFICES ASSUME NEW k \in DOMAIN held, NEW t \in Toks(held[k])
             PROVE  t \in Token
  OBVIOUS
<1>1. held[k] \in Seq(HeldToken)
  BY DEF AreHolders
<1>2. PICK i \in DOMAIN held[k] : t = held[k][i].token
  BY DEF Toks
<1>3. held[k][i] \in HeldToken
  BY <1>1
<1>4. QED
  BY <1>2, <1>3 DEF HeldToken

(* From here on over the states of the pipeline.                           *)
LEMMA HolderStep ==
    ASSUME UploadInv', HolderInv, Moved(Holders', Holders),
           \A k \in DOMAIN Holders' : \A t \in Toks(Holders'[k]) : t \in Token /\ Known(t) => Known(t)'
    PROVE  TokenHasOneHolder' /\ HeldKnown'
<1>1. PICK kept, held : kept = Holders' /\ held = Holders
  OBVIOUS
<1>2. OneHolder(kept)
  BY <1>1 DEF Moved
<1>3. AreHolders(kept, batch', stale_data', task', queue', stored_task')
  BY <1>1, HoldersThen
<1>4. ASSUME NEW k \in DOMAIN kept, NEW t \in Toks(kept[k])
      PROVE  Known(t)'
  <2>1. t \in Token
    BY <1>3, HolderTokens
  <2>2. PICK l \in DOMAIN held : t \in Toks(held[l])
    BY <1>1 DEF Moved
  <2>3. Known(t)
    BY <1>1, <2>2 DEF HolderInv, HeldKnown
  <2>4. QED
    BY <1>1, <2>1, <2>3
<1>5. TokenHasOneHolder'
  BY <1>1, <1>2 DEF TokenHasOneHolder, OneHolder
<1>6. HeldKnown'
  BY <1>1, <1>4 DEF HeldKnown
<1>7. QED
  BY <1>5, <1>6

LEMMA SameHolders ==
    ASSUME UNCHANGED <<batch, stale_data, task, queue, stored_task>>
    PROVE  Holders' = Holders
  BY DEF Holders, Tasks

LEMMA GivesBackKnown ==
    ASSUME TInv, NEW h \in HeldToken, GivesBack(h)
    PROVE  \A t \in Token : t # h.token /\ Known(t) => Known(t)'
<1>1. token_store' = token_store \/ token_store' = [token_store EXCEPT ![h.token] = NoInfo]
  BY DEF GivesBack, ForgetLine, resolve, KeepLine, fail, tokenVars
<1>2. token_store \in [Token -> FileTokenInfo \cup {NoInfo}]
  BY FileTypes
<1>3. QED
  BY <1>1, <1>2 DEF Known

LEMMA NothingMoved ==
    ASSUME UploadInv', HolderInv, UNCHANGED <<batch, stale_data, task, queue, stored_task>>,
           \A t \in Token : Known(t) => Known(t)'
    PROVE  TokenHasOneHolder' /\ HeldKnown'
<1>1. Holders' = Holders
  BY SameHolders
<1>2. OneHolder(Holders)
  BY DEF HolderInv, TokenHasOneHolder
<1>3. Moved(Holders', Holders)
  BY <1>1, <1>2 DEF Moved
<1>4. QED
  BY <1>3, HolderStep

LEMMA HoldersGone ==
    ASSUME UploadInv', PipelineGone, batch' = <<>>
    PROVE  HolderInv'
<1>1. PICK kept, c : kept = Holders' /\ c = task'
  OBVIOUS
<1>2. AreHolders(kept, <<>>, <<>>, c, <<>>, <<>>) /\ c.tokens = <<>>
  BY <1>1, HoldersThen DEF PipelineGone, NoTask
<1>3. OneHolder(kept) /\ \A k \in DOMAIN kept : Toks(kept[k]) = {}
  BY <1>2, NoneMoved, NoHolders
<1>4. TokenHasOneHolder'
  BY <1>1, <1>3 DEF TokenHasOneHolder, OneHolder
<1>5. HeldKnown'
  BY <1>1, <1>3 DEF HeldKnown
<1>6. NothingHeld'
  BY DEF PipelineGone, NothingHeld
<1>7. QED
  BY <1>4, <1>5, <1>6 DEF HolderInv

LEMMA DownNext ==
    ASSUME UploadInv, HolderInv, [UploadNext]_uploadVars, ~ PipelineGone, mode' = "down"
    PROVE  NothingHeld'
<1>1. CASE mode = "down"
  <2>1. NothingHeld
    BY <1>1 DEF HolderInv
  <2>2. ~ StreamerWork
    BY <1>1, <2>1
       DEF NothingHeld, StreamerWork, StreamerLoops, FoundWork, LookForLine, ReadBatchLine,
           LookForMore, DataNoLongerAvailable, EndBatch, BatchRead, TryEnqueue, EnqueueTimesOut, DeleteStale, Up
  <2>3. ~ WorkerWork
    BY <1>1, <2>1 DEF NothingHeld, WorkerWork, WorkerLoops, WorkOnStream, Dequeue, NotifyProducer,
       RunTask, ClearQueue, SettleToken
  <2>4. UNCHANGED <<streamerVars, queue, workerVars>>
    BY <1>1, <2>2, <2>3 DEF UploadNext, WriteRecord, Announce, StartService, Start,
       StopWorker, EmptyCollection, ShutdownService, Shutdown, Crash, EndOfProcess, uploadVars, pipelineVars
  <2>5. QED
    BY <2>1, <2>4 DEF NothingHeld, streamerVars, workerVars
<1>2. CASE mode # "down"
  <2>1. ~ UNCHANGED vars
    BY <1>2 DEF vars, processVars
  <2>2. ~ StreamerWork
    BY <1>2, <2>1 DEF StreamerWork, StreamerLoops, FoundWork, LookForLine, ReadBatchLine, LookForMore,
       DataNoLongerAvailable, EndBatch, TryEnqueue, EnqueueTimesOut, DeleteStale, processVars,
       Read, readActiveFile, readStoredFile, readWriteFile
  <2>3. ~ WorkerWork
    BY <1>2, <2>1 DEF WorkerWork, WorkerLoops, WorkOnStream, Dequeue, NotifyProducer,
       RunTask, ClearQueue, SettleToken, processVars
  <2>4. QED
    BY <1>2, <2>1, <2>2, <2>3 DEF UploadNext, WriteRecord, Announce, StartService, Start,
       StopWorker, EmptyCollection, ShutdownService, Shutdown, Crash, EndOfProcess, uploadVars
<1>3. QED
  BY <1>1, <1>2

LEMMA ReadHolders ==
    ASSUME UploadInv, UploadInv', HolderInv, ReadBatchLine
    PROVE  TokenHasOneHolder' /\ HeldKnown'
<1>1. TInv /\ TypeOK
  BY DEF UploadInv, TInv
<1>2. UNCHANGED <<stored_task, stale_data, queue, task>>
  BY DEF ReadBatchLine, workerVars
<1>3. PICK f \in Path, p \in Pos, stored \in [Path -> Nat] : ReadLine(f, p, stored)
  BY <1>1, ReadReads DEF ReadBatchLine
<1>4. PICK t \in FreshToken, pos \in Pos, next \in Pos, eof \in BOOLEAN,
           data \in Record \cup {NoRecord} :
        /\ createToken(t, f, pos, eof)
        /\ batch' = Append(batch, [token |-> t, record |-> data])
        /\ staged_tokens' = [staged_tokens EXCEPT ![f] = NoPos]
        /\ stored_files' = IF eof THEN Erase(stored, f) ELSE stored
        /\ active_read_file' = IF eof THEN NoFile ELSE f
        /\ read_pos' = IF eof THEN 0 ELSE next
  BY <1>1, <1>3, ReadLineFacts
<1>5. t \in Token /\ ~ Known(t)
  BY DEF FreshToken, Unused
<1>6. PICK h : h = [token |-> t, record |-> data]
  OBVIOUS
<1>7. h \in HeldToken /\ h.token = t /\ batch' = Append(batch, h)
  BY <1>4, <1>5, <1>6 DEF HeldToken
<1>8. PICK held, kept, bh : held = Holders /\ kept = Holders' /\ bh = batch'
  OBVIOUS
<1>9. /\ AreHolders(held, batch, stale_data, task, queue, stored_task)
      /\ AreHolders(kept, bh, stale_data, task, queue, stored_task)
  BY <1>2, <1>8, HoldersNow, HoldersThen
<1>10. OneHolder(held) /\ \A k \in DOMAIN held : h.token \notin Toks(held[k])
  BY <1>5, <1>7, <1>8 DEF HolderInv, TokenHasOneHolder, HeldKnown
<1>11. batch \in Seq(HeldToken)
  BY <1>1 DEF TypeOK
<1>12. /\ OneHolder(kept)
       /\ \A k \in DOMAIN kept : \A u \in Toks(kept[k]) :
            u = h.token \/ \E l \in DOMAIN held : u \in Toks(held[l])
  <2>1. Appended(bh, batch, h)
    BY <1>7, <1>8, <1>11, AppendIsAppended
  <2>2. QED
    BY <1>9, <1>10, <2>1, TokenCreated
<1>13. token_store' = [token_store EXCEPT ![t] = [file |-> f, pos |-> pos, eof |-> eof]]
  BY <1>4 DEF createToken
<1>14. [file |-> f, pos |-> pos, eof |-> eof] # NoInfo
  BY TokenStoreAssumption DEF NoInfo
<1>15. ASSUME NEW u, u = t \/ Known(u), u \in Token
       PROVE  Known(u)'
  <2>1. token_store \in [Token -> FileTokenInfo \cup {NoInfo}]
    BY <1>1, FileTypes
  <2>2. QED
    BY <1>13, <1>14, <1>15, <2>1 DEF Known
<1>16. \A k \in DOMAIN held : \A u \in Toks(held[k]) : Known(u)
  BY <1>8 DEF HolderInv, HeldKnown
<1>17. \A k \in DOMAIN kept : \A u \in Toks(kept[k]) : u \in Token
  BY <1>9, HolderTokens
<1>18. HeldKnown'
  BY <1>7, <1>8, <1>12, <1>15, <1>16, <1>17 DEF HeldKnown
<1>19. TokenHasOneHolder'
  BY <1>8, <1>12 DEF TokenHasOneHolder, OneHolder
<1>20. QED
  BY <1>18, <1>19

LEMMA EndBatchHolders ==
    ASSUME UploadInv, UploadInv', HolderInv, EndBatch
    PROVE  TokenHasOneHolder' /\ HeldKnown'
<1>1. PICK t \in BatchTasks(batch), old \in StaleLines(batch) :
        stored_task' = <<t>> /\ stale_data' = stale_data \o old
  BY DEF EndBatch
<1>2. batch' = <<>> /\ UNCHANGED <<task, queue, token_store>>
  BY DEF EndBatch, storageVars, tokenVars, workerVars
<1>3. /\ batch \in Seq(HeldToken) /\ stale_data \in Seq(HeldToken) /\ old \in Seq(HeldToken)
      /\ stale_data' \in Seq(HeldToken)
  BY BatchTypes DEF UploadInv, TInv, TypeOK, PipelineTypes
<1>4. PICK held, kept, u, n : /\ held = Holders /\ kept = Holders'
                              /\ u = stale_data' /\ n = stored_task'
  OBVIOUS
<1>5. Concatenated(u, stale_data, old)
  BY <1>1, <1>3, <1>4, ConcatProperties DEF Concatenated
<1>6. /\ AreHolders(held, batch, stale_data, task, queue, stored_task)
      /\ AreHolders(kept, <<>>, u, task, queue, n)
  BY <1>2, <1>4, HoldersNow, HoldersThen
<1>7. OneHolder(held) /\ u \in Seq(HeldToken) /\ n = <<t>>
  BY <1>1, <1>3, <1>4 DEF HolderInv, TokenHasOneHolder
<1>8. Moved(kept, held)
  BY <1>3, <1>5, <1>6, <1>7, BatchEnds
<1>9. \A x : Known(x) => Known(x)'
  BY <1>2 DEF Known
<1>10. Moved(Holders', Holders)
  BY <1>4, <1>8
<1>11. QED
  BY <1>9, <1>10, HolderStep

LEMMA TryEnqueueHolders ==
    ASSUME UploadInv, UploadInv', HolderInv, TryEnqueue
    PROVE  TokenHasOneHolder' /\ HeldKnown'
<1>1. UNCHANGED <<batch, stale_data, task, token_store>>
  BY DEF TryEnqueue, vars, clientVars, tokenVars, workerVars
<1>2. \A x : Known(x) => Known(x)'
  BY <1>1 DEF Known
<1>3. CASE UNCHANGED <<queue, stored_task>>
  BY <1>1, <1>2, <1>3, NothingMoved
<1>4. CASE Accepted
  <2>1. queue' = queue \o stored_task /\ stored_task' = <<>>
    BY <1>4 DEF Accepted
  <2>2. queue \in Seq(Task) /\ stored_task \in Seq(Task)
    BY DEF UploadInv, PipelineTypes
  <2>3. PICK held, kept, qo : held = Holders /\ kept = Holders' /\ qo = queue'
    OBVIOUS
  <2>4. Concatenated(qo, queue, stored_task)
    BY <2>1, <2>2, <2>3, ConcatProperties DEF Concatenated
  <2>5. /\ AreHolders(held, batch, stale_data, task, queue, stored_task)
        /\ AreHolders(kept, batch, stale_data, task, qo, <<>>)
    BY <1>1, <2>1, <2>3, HoldersNow, HoldersThen
  <2>6. OneHolder(held)
    BY <2>3 DEF HolderInv, TokenHasOneHolder
  <2>7. Moved(kept, held)
    BY <2>4, <2>5, <2>6, TaskQueued
  <2>8. Moved(Holders', Holders)
    BY <2>3, <2>7
  <2>9. QED
    BY <1>2, <2>8, HolderStep
<1>5. QED
  BY <1>3, <1>4 DEF TryEnqueue

LEMMA DequeueHolders ==
    ASSUME UploadInv, UploadInv', HolderInv, Dequeue
    PROVE  TokenHasOneHolder' /\ HeldKnown'
<1>1. UNCHANGED <<batch, stale_data, stored_task, token_store>>
  BY DEF Dequeue, vars, clientVars, tokenVars, streamerVars
<1>2. queue \in Seq(Task) /\ queue # <<>> /\ task' = Head(queue) /\ queue' = Tail(queue)
  BY DEF Dequeue, UploadInv, PipelineTypes
<1>3. PICK held, kept : held = Holders /\ kept = Holders'
  OBVIOUS
<1>4. /\ AreHolders(held, batch, stale_data, task, queue, stored_task)
      /\ AreHolders(kept, batch, stale_data, Head(queue), Tail(queue), stored_task)
  BY <1>1, <1>2, <1>3, HoldersNow, HoldersThen
<1>5. OneHolder(held)
  BY <1>3 DEF HolderInv, TokenHasOneHolder
<1>6. Moved(kept, held)
  BY <1>2, <1>4, <1>5, TaskTaken
<1>7. Moved(Holders', Holders) /\ \A x : Known(x) => Known(x)'
  BY <1>1, <1>3, <1>6 DEF Known
<1>8. QED
  BY <1>7, HolderStep

LEMMA ClearQueueHolders ==
    ASSUME UploadInv, UploadInv', HolderInv, ClearQueue
    PROVE  TokenHasOneHolder' /\ HeldKnown'
<1>1. UNCHANGED <<batch, stale_data, task, stored_task, token_store>> /\ queue' = <<>>
  BY DEF ClearQueue, vars, clientVars, tokenVars, streamerVars
<1>2. PICK held, kept : held = Holders /\ kept = Holders'
  OBVIOUS
<1>3. /\ AreHolders(held, batch, stale_data, task, queue, stored_task)
      /\ AreHolders(kept, batch, stale_data, task, <<>>, stored_task)
  BY <1>1, <1>2, HoldersNow, HoldersThen
<1>4. OneHolder(held)
  BY <1>2 DEF HolderInv, TokenHasOneHolder
<1>5. Moved(kept, held)
  BY <1>3, <1>4, TasksCleared
<1>6. Moved(Holders', Holders) /\ \A x : Known(x) => Known(x)'
  BY <1>1, <1>2, <1>5 DEF Known
<1>7. QED
  BY <1>6, HolderStep

LEMMA SettleHolders ==
    ASSUME UploadInv, UploadInv', HolderInv, SettleToken
    PROVE  TokenHasOneHolder' /\ HeldKnown'
<1>1. /\ task.tokens \in Seq(HeldToken) /\ task.tokens # <<>>
      /\ NextToken \in HeldToken /\ NextToken = task.tokens[1] /\ GivesBack(NextToken)
  BY SettleTokenStep DEF UploadInv
<1>2. UNCHANGED <<batch, stale_data, queue, stored_task>>
  BY DEF SettleToken, clientVars, streamerVars
<1>3. task'.tokens = Tail(task.tokens)
  BY DEF SettleToken, UploadInv, PipelineTypes, Task
<1>4. PICK held, kept, d, toks : /\ held = Holders /\ kept = Holders'
                                 /\ d = task' /\ toks = task.tokens
  OBVIOUS
<1>5. /\ AreHolders(held, batch, stale_data, task, queue, stored_task)
      /\ AreHolders(kept, batch, stale_data, d, queue, stored_task)
  BY <1>2, <1>4, HoldersNow, HoldersThen
<1>6. /\ OneHolder(held) /\ toks \in Seq(HeldToken) /\ toks # <<>>
      /\ task.tokens = toks /\ d.tokens = Tail(toks)
  BY <1>1, <1>3, <1>4 DEF HolderInv, TokenHasOneHolder
<1>7. Moved(kept, held) /\ \A k \in DOMAIN kept : toks[1].token \notin Toks(kept[k])
  BY <1>5, <1>6, TaskSettled
<1>8. \A x \in Token : x # NextToken.token /\ Known(x) => Known(x)'
  BY <1>1, GivesBackKnown DEF UploadInv
<1>9. Moved(Holders', Holders)
  BY <1>4, <1>7
<1>10. \A k \in DOMAIN Holders' : \A x \in Toks(Holders'[k]) : x \in Token /\ Known(x) => Known(x)'
  BY <1>1, <1>4, <1>7, <1>8
<1>11. QED
  BY <1>9, <1>10, HolderStep

LEMMA DeleteStaleHolders ==
    ASSUME UploadInv, UploadInv', HolderInv, DeleteStale
    PROVE  TokenHasOneHolder' /\ HeldKnown'
<1>1. CASE stale_data = <<>>
  <2>1. UNCHANGED <<batch, stale_data, task, queue, stored_task, token_store>>
    BY <1>1 DEF DeleteStale, vars, clientVars, tokenVars, workerVars
  <2>2. QED
    BY <2>1, NothingMoved DEF Known
<1>2. CASE stale_data # <<>>
  <2>1. /\ stale_data \in Seq(HeldToken) /\ stale_data' = Front(stale_data)
        /\ UNCHANGED <<batch, task, queue, stored_task>>
    BY <1>2 DEF UploadInv, PipelineTypes, DeleteStale, clientVars, workerVars
  <2>2. Last(stale_data) \in HeldToken /\ GivesBack(Last(stale_data))
    BY <1>2, DeleteStaleStep DEF UploadInv
  <2>3. PICK held, kept, t : /\ held = Holders /\ kept = Holders'
                             /\ t = Last(stale_data).token
    OBVIOUS
  <2>4. /\ AreHolders(held, batch, stale_data, task, queue, stored_task)
        /\ AreHolders(kept, batch, Front(stale_data), task, queue, stored_task)
    BY <2>1, <2>3, HoldersNow, HoldersThen
  <2>5. OneHolder(held)
    BY <2>3 DEF HolderInv, TokenHasOneHolder
  <2>6. Moved(kept, held) /\ \A k \in DOMAIN kept : Last(stale_data).token \notin Toks(kept[k])
    BY <1>2, <2>1, <2>4, <2>5, StaleDeleted
  <2>7. \A x \in Token : x # t /\ Known(x) => Known(x)'
    BY <2>2, <2>3, GivesBackKnown DEF UploadInv
  <2>8. Moved(Holders', Holders)
    BY <2>3, <2>6
  <2>9. \A k \in DOMAIN Holders' : \A x \in Toks(Holders'[k]) : x \in Token /\ Known(x) => Known(x)'
    BY <2>3, <2>6, <2>7
  <2>10. QED
    BY <2>8, <2>9, HolderStep
<1>3. QED
  BY <1>1, <1>2

(* What starts, stops and writes moves no token. *)
LEMMA MemoryLostHolders ==
    ASSUME UploadInv', PipelineGone, LoseMemory
    PROVE  HolderInv'
  BY HoldersGone DEF LoseMemory

LEMMA StartHolders ==
    ASSUME UploadInv, UploadInv', HolderInv, StartService
    PROVE  TokenHasOneHolder' /\ HeldKnown'
<1>1. mode = "down" /\ NothingHeld /\ batch = <<>>
  BY DEF StartService, Start, HolderInv, UploadInv, TInv, ProcessInv
<1>2. UNCHANGED <<batch, stale_data, task, queue, stored_task>>
  BY DEF StartService, Start, clientVars, streamerVars, workerVars
<1>3. PICK kept, c : kept = Holders' /\ c = task'
  OBVIOUS
<1>4. AreHolders(kept, <<>>, <<>>, c, <<>>, <<>>) /\ c.tokens = <<>>
  BY <1>1, <1>2, <1>3, HoldersThen DEF NothingHeld, NoTask
<1>5. OneHolder(kept) /\ \A k \in DOMAIN kept : Toks(kept[k]) = {}
  BY <1>4, NoneMoved, NoHolders
<1>6. QED
  BY <1>3, <1>5 DEF TokenHasOneHolder, OneHolder, HeldKnown

LEMMA ShutdownHolders ==
    ASSUME UploadInv, UploadInv', HolderInv, ShutdownService
    PROVE  TokenHasOneHolder' /\ HeldKnown'
<1>1. UNCHANGED <<batch, stale_data, task, queue, stored_task>>
  BY DEF ShutdownService, Shutdown, clientVars, streamerVars, workerVars
<1>2. Blank # NoInfo
  BY DEF Blank, NoInfo, NoPos
<1>3. \A t \in Token : Known(t) => Known(t)'
  BY <1>2 DEF ShutdownService, Shutdown, backupInserts, Known
<1>4. QED
  BY <1>1, <1>3, NothingMoved

LEMMA WriteHolders ==
    ASSUME UploadInv, UploadInv', HolderInv, NEW w \in Writer, WriteRecord(w)
    PROVE  TokenHasOneHolder' /\ HeldKnown'
<1>1. CASE mode' = "down"
  <2>1. mode # "down"
    BY <1>1 DEF UploadInv, TInv, TypeOK, ProcessInv, WriteRecord, Write,
       checkIfWriteFileShouldRotate, checkIfStorageLimitHasBeenReached, deleteOldestFile,
       deleteFromEmptyList, append, processVars, Up, Idle
  <2>2. LoseMemory
    BY <1>1, <2>1 DEF WriteRecord, Write, checkIfWriteFileShouldRotate,
       checkIfStorageLimitHasBeenReached, deleteOldestFile, deleteFromEmptyList, append,
       processVars
  <2>3. QED
    BY <1>1, <2>2, MemoryLostHolders DEF WriteRecord, HolderInv
<1>2. CASE mode' # "down"
  <2>1. ~ deleteFromEmptyList(w)
    BY <1>2 DEF deleteFromEmptyList, LoseMemory
  <2>2. UNCHANGED <<batch, token_store>>
    BY <2>1 DEF WriteRecord, Write, checkIfWriteFileShouldRotate,
       checkIfStorageLimitHasBeenReached, deleteOldestFile, append, tokenVars, clientVars
  <2>3. UNCHANGED <<stale_data, task, queue, stored_task>>
    BY <1>2 DEF WriteRecord, streamerVars, workerVars
  <2>4. QED
    BY <2>2, <2>3, NothingMoved DEF Known
<1>3. QED
  BY <1>1, <1>2

LEMMA OtherHolders ==
    ASSUME UploadInv, UploadInv', HolderInv, UNCHANGED vars,
           UNCHANGED <<stale_data, task, queue, stored_task>>
    PROVE  TokenHasOneHolder' /\ HeldKnown'
<1>1. UNCHANGED <<batch, token_store>>
  BY DEF vars, clientVars, tokenVars
<1>2. QED
  BY <1>1, NothingMoved DEF Known

LEMMA HoldersNext ==
    ASSUME UploadInv, UploadInv', HolderInv, [UploadNext]_uploadVars
    PROVE  TokenHasOneHolder' /\ HeldKnown'
<1>1. CASE StreamerWork
  <2>1. CASE StreamerLoops \/ FoundWork \/ LookForLine \/ LookForMore \/ DataNoLongerAvailable
             \/ EnqueueTimesOut
    BY <2>1, OtherHolders DEF StreamerLoops, FoundWork, LookForLine, LookForMore,
       DataNoLongerAvailable, EnqueueTimesOut, workerVars
  <2>2. QED
    BY <1>1, <2>1, ReadHolders, EndBatchHolders, TryEnqueueHolders, DeleteStaleHolders
       DEF StreamerWork
<1>2. CASE WorkerWork
  <2>1. CASE WorkerLoops \/ WorkOnStream \/ NotifyProducer \/ RunTask
    BY <2>1, OtherHolders DEF WorkerLoops, WorkOnStream, NotifyProducer, RunTask, streamerVars
  <2>2. QED
    BY <1>2, <2>1, DequeueHolders, ClearQueueHolders, SettleHolders DEF WorkerWork
<1>3. ASSUME StopWorker \/ EmptyCollection \/ \E w \in Writer : Announce(w)
      PROVE  TokenHasOneHolder' /\ HeldKnown'
  BY <1>3, OtherHolders DEF StopWorker, EmptyCollection, Announce, streamerVars, workerVars
<1>4. CASE Crash \/ EndOfProcess
  BY <1>4, MemoryLostHolders DEF Crash, EndOfProcess, ProcessEnds, HolderInv
<1>5. CASE UNCHANGED uploadVars
  BY <1>5, OtherHolders DEF uploadVars, pipelineVars, streamerVars, workerVars
<1>6. QED
  BY <1>1, <1>2, <1>3, <1>4, <1>5, StartHolders, ShutdownHolders, WriteHolders DEF UploadNext

LEMMA HolderInvNext ==
    ASSUME UploadInv, UploadInv', HolderInv, [UploadNext]_uploadVars
    PROVE  HolderInv'
<1>1. TokenHasOneHolder' /\ HeldKnown'
  BY HoldersNext
<1>2. CASE PipelineGone
  <2>1. NothingHeld'
    BY <1>2 DEF PipelineGone, NothingHeld
  <2>2. QED
    BY <1>1, <2>1 DEF HolderInv
<1>3. CASE ~ PipelineGone
  BY <1>1, <1>3, DownNext DEF HolderInv
<1>4. QED
  BY <1>2, <1>3

LEMMA HolderInvInit == UploadInit => HolderInv
<1> SUFFICES ASSUME UploadInit PROVE HolderInv
  OBVIOUS
<1>1. NothingHeld /\ batch = <<>>
  BY DEF UploadInit, Init, NothingHeld
<1>2. PICK kept, c : kept = Holders /\ c = task
  OBVIOUS
<1>3. AreHolders(kept, <<>>, <<>>, c, <<>>, <<>>) /\ c.tokens = <<>>
  BY <1>1, <1>2, UploadInvInit, HoldersNow DEF NothingHeld, NoTask
<1>4. OneHolder(kept) /\ \A k \in DOMAIN kept : Toks(kept[k]) = {}
  BY <1>3, NoneMoved, NoHolders
<1>5. QED
  BY <1>1, <1>2, <1>4 DEF HolderInv, TokenHasOneHolder, HeldKnown

(* However many batches are out at once, a token is with one holder, once: *)
(* whether its batch is being read, was divided into a task and stale      *)
(* lines, is queued, cleared, uploaded or being settled, and whenever the  *)
(* process stops and starts again.  So it comes back to the storage no     *)
(* more than once, and no new token is one that is still out               *)
(* (FileUploadStreamer::work, onComplete, deleteStaleData, createToken).   *)
THEOREM TokensHaveOneHolder == UploadSpec => []TokenHasOneHolder
<1>1. UploadInv /\ UploadInv' /\ HolderInv /\ [UploadNext]_uploadVars => HolderInv'
  BY HolderInvNext
<1>2. HolderInv => TokenHasOneHolder
  BY DEF HolderInv
<1>3. QED
  BY <1>1, <1>2, HolderInvInit, UploadInvHolds, PTL DEF UploadSpec
-----------------------------------------------------------------------------
(* What is acknowledged was sent.                                          *)

(* MetricFileManager sends one metric of each time stamp (readBatch, the   *)
(* set of metrics), so that it can be expected of metrics of different     *)
(* times only.  LogFileManager sends every line.                           *)
TimesDiffer == InOrder => \A r, s \in Record : Time[r] = Time[s] => r = s

LEMMA LeastOf ==
    ASSUME NEW S \in SUBSET Nat, S # {}
    PROVE  \E i \in S : \A j \in S : ~ (j < i)
<1>1. IsWellFoundedOn(OpToRel(<, Nat), Nat)
  BY NatLessThanWellFounded, Zenon
<1>2. \E i \in S : \A j \in S : ~ (<<j, i>> \in OpToRel(<, Nat))
  BY <1>1, WFMin, Zenon
<1>3. \A j, i \in S : j < i => <<j, i>> \in OpToRel(<, Nat)
  BY DEF OpToRel
<1>4. QED
  BY <1>2, <1>3

(* The data of a task have all the lines it has tokens of, although of the *)
(* lines with one time stamp only the first is taken.                      *)
Covers(t) == RecordsOf(t.tokens) \subseteq t.data

LEMMA FirstOfEach ==
    ASSUME \A r, s \in Record : Time[r] = Time[s] => r = s,
           NEW kept \in Seq(HeldToken), \A i \in DOMAIN kept : kept[i].record \in Record
    PROVE  RecordsOf(kept) \subseteq FirstOfTime(kept)
<1> SUFFICES ASSUME NEW r \in RecordsOf(kept) PROVE r \in FirstOfTime(kept)
  OBVIOUS
<1> DEFINE S == {i \in DOMAIN kept : kept[i].record = r}
<1>1. S # {}
  BY DEF RecordsOf
<1>2. DOMAIN kept = 1..Len(kept) /\ Len(kept) \in Nat
  OBVIOUS
<1>3. S \in SUBSET Nat
  BY <1>2
<1>4. PICK i \in S : \A j \in S : ~ (j < i)
  <2> HIDE DEF S
  <2>1. QED
    BY <1>1, <1>3, LeastOf
<1>5. i \in DOMAIN kept /\ kept[i].record = r /\ i \in 1..Len(kept) /\ r \in Record
  BY <1>2
<1>6. ASSUME NEW j \in 1..(i - 1)
      PROVE  TimeOf(kept[j]) # TimeOf(kept[i])
  <2>1. j \in DOMAIN kept /\ j < i
    BY <1>2, <1>5
  <2>2. kept[j].record # r /\ kept[j].record \in Record
    BY <1>4, <2>1
  <2>3. NoRecord \notin Record
    BY StrategyAssumption DEF NoRecord, Record
  <2>4. TimeOf(kept[j]) = Time[kept[j].record] /\ TimeOf(kept[i]) = Time[r]
    BY <1>5, <2>2, <2>3 DEF TimeOf
  <2>5. QED
    BY <1>5, <2>2, <2>4
<1>7. QED
  BY <1>5, <1>6 DEF FirstOfTime

LEMMA BatchCovered ==
    ASSUME TimesDiffer, NEW b \in Seq(HeldToken), NEW t \in BatchTasks(b)
    PROVE  Covers(t)
<1>1. CASE InOrder
  <2> DEFINE S == {i \in DOMAIN b : b[i].record # NoRecord}
  <2>1. PICK m \in AsRead(S) : t = TaskOf(Lines(b, m), FirstOfTime(Lines(b, m)))
    BY <1>1 DEF BatchTasks, MetricTasks
  <2>2. m \in SetToSeqs(S) /\ S \in SUBSET DOMAIN b
    BY <2>1 DEF AsRead
  <2>3. /\ Lines(b, m) \in Seq(HeldToken) /\ DOMAIN Lines(b, m) = DOMAIN m
        /\ \A k \in DOMAIN m : m[k] \in S /\ Lines(b, m)[k] = b[m[k]] /\ b[m[k]] \in HeldToken
    BY <2>2, LinesOfBatch
  <2>4. \A k \in DOMAIN Lines(b, m) : Lines(b, m)[k].record \in Record
    BY <2>3 DEF HeldToken
  <2>5. PICK kept : kept = Lines(b, m)
    OBVIOUS
  <2>6. RecordsOf(kept) \subseteq FirstOfTime(kept)
    BY <1>1, <2>3, <2>4, <2>5, FirstOfEach DEF TimesDiffer
  <2>7. QED
    BY <2>1, <2>5, <2>6 DEF TaskOf, Covers
<1>2. CASE ~ InOrder
  BY <1>2 DEF BatchTasks, LogTasks, TaskOf, Covers
<1>3. QED
  BY <1>1, <1>2

(* Every task on its way covers its tokens; once it was sent, the service  *)
(* has what the remaining tokens stand for.                                *)
AllCover(tasks) == \A k \in DOMAIN tasks : Covers(tasks[k])
SentInv ==
    /\ AllCover(stored_task) /\ AllCover(queue) /\ Covers(task)
    /\ worker = "clear" => ~ TaskSent
    /\ worker = "settle" /\ TaskSent => RecordsOf(task.tokens) \subseteq uploaded
    /\ AckedWasUploaded

LEMMA NothingCovers == AllCover(<<>>) /\ Covers(NoTask) /\ RecordsOf(<<>>) = {}
<1>1. DOMAIN <<>> = {}
  OBVIOUS
<1>2. QED
  BY <1>1 DEF AllCover, Covers, NoTask, RecordsOf

LEMMA AllCoverConcat ==
    ASSUME NEW q \in Seq(Task), NEW o \in Seq(Task), AllCover(q), AllCover(o),
           NEW qo, qo = q \o o
    PROVE  AllCover(qo)
<1>1. PICK n \in Nat, m \in Nat : n = Len(q) /\ m = Len(o)
  OBVIOUS
<1>2. /\ DOMAIN q = 1..n /\ DOMAIN o = 1..m /\ DOMAIN qo = 1..(n + m)
      /\ \A j \in 1..(n + m) : qo[j] = IF j <= n THEN q[j] ELSE o[j - n]
  BY <1>1, ConcatProperties
<1>3. ASSUME NEW j \in 1..(n + m)
      PROVE  Covers(qo[j])
  <2>1. CASE j <= n
    <3>1. j \in DOMAIN q /\ qo[j] = q[j]
      BY <1>2, <2>1
    <3>2. QED
      BY <3>1 DEF AllCover
  <2>2. CASE ~ (j <= n)
    <3>1. j - n \in DOMAIN o /\ qo[j] = o[j - n]
      BY <1>2, <2>2
    <3>2. QED
      BY <3>1 DEF AllCover
  <2>3. QED
    BY <2>1, <2>2
<1>4. QED
  BY <1>2, <1>3 DEF AllCover

LEMMA SentSame ==
    ASSUME SentInv, UNCHANGED <<stored_task, queue, task, status, uploaded, acked>>,
           worker' \in {"settle", "clear"} => worker' = worker
    PROVE  SentInv'
  BY DEF SentInv, AllCover, Covers, TaskSent, AckedWasUploaded, RecordsOf

LEMMA SentGone ==
    ASSUME SentInv, PipelineGone, acked' = acked
    PROVE  SentInv'
<1>1. PICK o, q, t : o = stored_task' /\ q = queue' /\ t = task'
  OBVIOUS
<1>2. AllCover(o) /\ AllCover(q) /\ Covers(t)
  BY <1>1, NothingCovers DEF PipelineGone
<1>3. AllCover(stored_task)' /\ AllCover(queue)' /\ Covers(task)'
  BY <1>1, <1>2 DEF AllCover, Covers, RecordsOf
<1>4. worker' = "idle" /\ uploaded' = uploaded
  BY DEF PipelineGone, outcomeVars
<1>5. QED
  BY <1>3, <1>4 DEF SentInv, AckedWasUploaded

LEMMA SentStreamer ==
    ASSUME TimesDiffer, UploadInv, SentInv, StreamerWork
    PROVE  SentInv'
<1>1. CASE EndBatch
  <2>1. PICK t \in BatchTasks(batch) : stored_task' = <<t>>
    BY <1>1 DEF EndBatch
  <2>2. batch \in Seq(HeldToken)
    BY DEF UploadInv, TInv, TypeOK
  <2>3. Covers(t)
    BY <2>1, <2>2, BatchCovered
  <2>4. PICK o : o = stored_task'
    OBVIOUS
  <2>5. DOMAIN o = {1} /\ o[1] = t
    BY <2>1, <2>4
  <2>6. AllCover(o)
    BY <2>3, <2>5 DEF AllCover
  <2>7. UNCHANGED <<queue, task, status, worker, uploaded, acked>>
    BY <1>1 DEF EndBatch, workerVars, outcomeVars, history
  <2>8. QED
    BY <2>4, <2>6, <2>7 DEF SentInv, AllCover, Covers, TaskSent, AckedWasUploaded, RecordsOf
<1>2. CASE TryEnqueue
  <2>1. UNCHANGED <<task, status, worker, uploaded, acked>>
    BY <1>2 DEF TryEnqueue, vars, workerVars, outcomeVars, history
  <2>2. CASE UNCHANGED <<queue, stored_task>>
    BY <2>1, <2>2, SentSame
  <2>3. CASE Accepted
    <3>1. queue \in Seq(Task) /\ stored_task \in Seq(Task)
      BY DEF UploadInv, PipelineTypes
    <3>2. PICK qo, o : qo = queue' /\ o = stored_task'
      OBVIOUS
    <3>3. qo = queue \o stored_task /\ o = <<>>
      BY <2>3, <3>2 DEF Accepted
    <3>4. AllCover(qo) /\ AllCover(o)
      BY <3>1, <3>3, AllCoverConcat, NothingCovers DEF SentInv
    <3>5. QED
      BY <2>1, <3>2, <3>4 DEF SentInv, AllCover, Covers, TaskSent, AckedWasUploaded, RecordsOf
  <2>4. QED
    BY <1>2, <2>2, <2>3 DEF TryEnqueue
<1>3. CASE ReadBatchLine
  <2>1. acked' = acked
    BY <1>3 DEF ReadBatchLine, Read, readActiveFile, readStoredFile, readWriteFile, history
  <2>2. QED
    BY <1>3, <2>1, SentSame DEF ReadBatchLine, workerVars, outcomeVars
<1>4. CASE DeleteStale
  <2>1. acked' = acked
    BY <1>4 DEF DeleteStale, vars, history
  <2>2. QED
    BY <1>4, <2>1, SentSame DEF DeleteStale, workerVars
<1>5. CASE StreamerLoops \/ FoundWork \/ LookForLine \/ LookForMore \/ DataNoLongerAvailable
           \/ EnqueueTimesOut
  BY <1>5, SentSame DEF StreamerLoops, FoundWork, LookForLine, LookForMore,
     DataNoLongerAvailable, EnqueueTimesOut, vars, history, workerVars, outcomeVars
<1>6. QED
  BY <1>1, <1>2, <1>3, <1>4, <1>5 DEF StreamerWork

LEMMA SentWorker ==
    ASSUME UploadInv, SentInv, WorkerWork
    PROVE  SentInv'
<1>1. CASE Dequeue
  <2>1. queue \in Seq(Task) /\ queue # <<>>
    BY <1>1 DEF Dequeue, UploadInv, PipelineTypes
  <2>2. /\ task' = queue[1] /\ 1 \in DOMAIN queue
        /\ \A i \in DOMAIN Tail(queue) : i + 1 \in DOMAIN queue /\ Tail(queue)[i] = queue[i + 1]
    BY <1>1, <2>1, TailOfOne DEF Dequeue
  <2>3. Covers(queue[1]) /\ AllCover(Tail(queue))
    BY <2>2 DEF SentInv, AllCover
  <2>4. UNCHANGED <<stored_task, status, uploaded, acked>> /\ worker' = "notify"
    BY <1>1 DEF Dequeue, vars, history, streamerVars, outcomeVars
  <2>5. PICK q, t : q = queue' /\ t = task'
    OBVIOUS
  <2>6. AllCover(q) /\ Covers(t)
    BY <1>1, <2>2, <2>3, <2>5 DEF Dequeue
  <2>7. QED
    BY <2>4, <2>5, <2>6 DEF SentInv, AllCover, Covers, TaskSent, AckedWasUploaded, RecordsOf
<1>2. CASE ClearQueue
  <2>1. /\ UNCHANGED <<stored_task, task, status, uploaded, acked>> /\ ~ TaskSent
    BY <1>2 DEF ClearQueue, SentInv, vars, history, streamerVars, outcomeVars
  <2>2. PICK q : q = queue'
    OBVIOUS
  <2>3. AllCover(q)
    BY <1>2, <2>2, NothingCovers DEF ClearQueue
  <2>4. QED
    BY <2>1, <2>2, <2>3 DEF SentInv, AllCover, Covers, TaskSent, AckedWasUploaded, RecordsOf
<1>3. CASE RunTask
  <2>1. UNCHANGED <<stored_task, queue, task, acked>>
    BY <1>3 DEF RunTask, vars, history, streamerVars
  <2>2. /\ worker' = "clear" => status' # "SUCCESS"
        /\ uploaded \subseteq uploaded'
        /\ status' = "SUCCESS" => task.data \subseteq uploaded'
    BY <1>3 DEF RunTask, AfterRun
  <2>3. QED
    BY <2>1, <2>2 DEF SentInv, AllCover, Covers, TaskSent, AckedWasUploaded, RecordsOf
<1>4. CASE SettleToken
  <2>1. /\ task.tokens \in Seq(HeldToken) /\ task.tokens # <<>>
        /\ NextToken \in HeldToken /\ NextToken = task.tokens[1]
    BY <1>4, SettleTokenStep DEF UploadInv
  <2>2. /\ 1 \in DOMAIN task.tokens
        /\ \A i \in DOMAIN Tail(task.tokens) :
             i + 1 \in DOMAIN task.tokens /\ Tail(task.tokens)[i] = task.tokens[i + 1]
    BY <2>1, TailOfOne
  <2>3. RecordsOf(Tail(task.tokens)) \subseteq RecordsOf(task.tokens)
    BY <2>2 DEF RecordsOf
  <2>4. RecordsOf(<<NextToken>>) \subseteq RecordsOf(task.tokens)
    <3>1. PICK s : s = <<NextToken>>
      OBVIOUS
    <3>2. DOMAIN s = {1} /\ s[1] = task.tokens[1]
      BY <2>1, <3>1
    <3>3. RecordsOf(s) \subseteq RecordsOf(task.tokens)
      BY <2>2, <3>2 DEF RecordsOf
    <3>4. QED
      BY <3>1, <3>3
  <2>5. /\ task'.tokens = Tail(task.tokens) /\ task'.data = task.data
        /\ UNCHANGED <<stored_task, queue, status, uploaded>>
        /\ worker = "settle" /\ worker' # "clear"
    BY <1>4 DEF SettleToken, UploadInv, PipelineTypes, Task, streamerVars, outcomeVars
  <2>6. acked' = acked \/ (TaskSent /\ acked' = acked \cup RecordsOf(<<NextToken>>))
    BY <1>4 DEF SettleToken
  <2>7. AckedWasUploaded'
    BY <2>4, <2>5, <2>6 DEF SentInv, AckedWasUploaded
  <2>8. PICK t : t = task'
    OBVIOUS
  <2>9. Covers(t) /\ (TaskSent => RecordsOf(t.tokens) \subseteq uploaded)
    BY <2>3, <2>5, <2>8 DEF SentInv, Covers
  <2>10. AllCover(stored_task)' /\ AllCover(queue)'
    BY <2>5 DEF SentInv, AllCover, Covers, RecordsOf
  <2>11. Covers(task)' /\ (TaskSent' => RecordsOf(task.tokens)' \subseteq uploaded')
    BY <2>5, <2>8, <2>9 DEF Covers, TaskSent, RecordsOf
  <2>12. QED
    BY <2>5, <2>7, <2>10, <2>11 DEF SentInv
<1>5. CASE WorkerLoops \/ WorkOnStream \/ NotifyProducer
  BY <1>5, SentSame DEF WorkerLoops, WorkOnStream, NotifyProducer, vars, history, streamerVars,
     outcomeVars
<1>6. QED
  BY <1>1, <1>2, <1>3, <1>4, <1>5 DEF WorkerWork

LEMMA SentInvNext ==
    ASSUME TimesDiffer, UploadInv, SentInv, [UploadNext]_uploadVars
    PROVE  SentInv'
<1>1. ASSUME NEW w \in Writer, WriteRecord(w)
      PROVE  SentInv'
  <2>1. acked' = acked
    BY <1>1 DEF WriteRecord, Write, checkIfWriteFileShouldRotate,
       checkIfStorageLimitHasBeenReached, deleteOldestFile, deleteFromEmptyList, append, history
  <2>2. QED
    BY <1>1, <2>1, SentGone, SentSame DEF WriteRecord, streamerVars, workerVars, outcomeVars
<1>2. ASSUME NEW w \in Writer, Announce(w)
      PROVE  SentInv'
  BY <1>2, SentSame DEF Announce, vars, history, streamerVars, workerVars, outcomeVars
<1>3. CASE StartService \/ StopWorker \/ EmptyCollection \/ ShutdownService
  BY <1>3, SentSame DEF StartService, StopWorker, EmptyCollection, ShutdownService, Start,
     Shutdown, vars, history, streamerVars, workerVars, outcomeVars
<1>4. CASE Crash \/ EndOfProcess
  BY <1>4, SentGone DEF Crash, EndOfProcess, ProcessEnds, history
<1>5. CASE UNCHANGED uploadVars
  BY <1>5, SentSame DEF uploadVars, pipelineVars, vars, history, streamerVars, workerVars,
     outcomeVars
<1>6. QED
  BY <1>1, <1>2, <1>3, <1>4, <1>5, SentStreamer, SentWorker DEF UploadNext

(* A line that was resolved as sent has been sent: in the order of reading *)
(* or not, and whatever of the batch was too old to send, was cleared from *)
(* the queue or is read a second time.  Metrics of one batch must differ   *)
(* in time for that, or else readBatch drops all but one of them           *)
(* (MetricFileManager::readBatch, LogFileManager::readBatch, onComplete).  *)
THEOREM AcknowledgedWasSent ==
    ASSUME TimesDiffer PROVE UploadSpec => []AckedWasUploaded
<1>1. UploadInit => SentInv
  <2> SUFFICES ASSUME UploadInit PROVE SentInv
    OBVIOUS
  <2>1. AllCover(stored_task) /\ AllCover(queue) /\ Covers(task)
    BY NothingCovers DEF UploadInit
  <2>2. QED
    BY <2>1 DEF UploadInit, Init, SentInv, AckedWasUploaded
<1>2. UploadInv /\ SentInv /\ [UploadNext]_uploadVars => SentInv'
  BY SentInvNext
<1>3. SentInv => AckedWasUploaded
  BY DEF SentInv
<1>4. QED
  BY <1>1, <1>2, <1>3, UploadInvHolds, PTL DEF UploadSpec
=============================================================================
