---------------------- MODULE CloudWatchService_proofs ----------------------
(***************************************************************************)
(* Theorems about the service, for every set of records, every size of     *)
(* batch and queue and any number of starts and shutdowns.                 *)
(***************************************************************************)
EXTENDS CloudWatchService, FiniteSetTheorems, TLAPS

(* The work thread has data only while it has a task.                      *)
TaskInv == thread \notin {"notify", "taken", "attempt", "publish"} => task = {}

(* The strengthening of QueueBounded: room that was made and not yet       *)
(* announced, or announced to a caller that has not yet used it, counts    *)
(* with the queue.                                                         *)
Notification == IF thread = "notify" THEN 1 ELSE 0
Wakened      == IF publishing = "woken" THEN 1 ELSE 0
QueueInv == Len(queue) + Notification + Wakened <= QueueSize + 1

(* The strengthening of OnlyEarlyTwice: a record of no cancelled batch is  *)
(* in one place only.                                                      *)
Out == stored \cup uploaded
OnceInv ==
    \A r \in Record \ early :
        /\ r \in fresh => r \notin batch /\ r \notin task /\ r \notin Out
        /\ r \in batch => r \notin task /\ r \notin Out
        /\ r \in task => r \notin Out
        /\ \A i \in 1..Len(queue) : r \in queue[i] =>
             /\ r \notin fresh /\ r \notin batch /\ r \notin task /\ r \notin Out
             /\ \A j \in 1..Len(queue) : r \in queue[j] => i = j

DataInv == NothingLost /\ OnceInv /\ OnlyEarlyTwice
SInv == TypeOK /\ TaskInv /\ QueueInv /\ DataInv

dataVars == <<fresh, batch, queue, task, results>>
-----------------------------------------------------------------------------
LEMMA InitInv == Init => SInv
<1> SUFFICES ASSUME Init
             PROVE  SInv
  OBVIOUS
<1>1. Cardinality(batch) = 0
  BY FS_EmptySet DEF Init
<1>2. TypeOK
  BY <1>1, ServiceAssumption DEF Init, TypeOK, State
<1>3. TaskInv
  BY DEF Init, TaskInv
<1>6. QueueInv
  BY ServiceAssumption DEF Init, QueueInv, Notification, Wakened
<1>4. DataInv
  BY DEF Init, DataInv, NothingLost, OnceInv, OnlyEarlyTwice, Out
<1>5. QED
  BY <1>2, <1>3, <1>4, <1>6 DEF SInv
-----------------------------------------------------------------------------
(* What a step does to the data, by kind of step.                          *)

LEMMA KeepsData ==
    ASSUME SInv, UNCHANGED dataVars
    PROVE  DataInv'
<1>1. UNCHANGED <<fresh, batch, queue, task, stored, uploaded, dropped, early, repeated>>
  BY DEF dataVars, results
<1>2. QED
  BY <1>1 DEF SInv, DataInv, NothingLost, Queued, OnceInv, OnlyEarlyTwice, Out

LEMMA Batches ==
    ASSUME SInv, NEW r \in Record, BatchData(r)
    PROVE  DataInv'
<1> USE DEF SInv, TypeOK, BatchData, Store, Repeats, DataInv
<1>1. NothingLost'
  BY DEF NothingLost, Queued
<1>2. OnlyEarlyTwice'
  BY DEF OnlyEarlyTwice, OnceInv, Out
<1>3. OnceInv'
  BY DEF OnceInv, Out
<1>4. QED
  BY <1>1, <1>2, <1>3

LEMMA Cancels ==
    ASSUME SInv, Store(batch), UNCHANGED <<fresh, batch, queue, task>>, early' = early \cup batch
    PROVE  DataInv'
<1> USE DEF SInv, TypeOK, Store, Repeats, DataInv
<1>1. NothingLost'
  BY DEF NothingLost, Queued
<1>2. OnlyEarlyTwice'
  BY DEF OnlyEarlyTwice
<1>3. OnceInv'
  BY DEF OnceInv, Out
<1>4. QED
  BY <1>1, <1>2, <1>3

LEMMA Writes ==
    ASSUME SInv, Store(batch), UNCHANGED <<fresh, queue, task, early>>, batch' = {}
    PROVE  DataInv'
<1> USE DEF SInv, TypeOK, Store, Repeats, DataInv
<1>1. NothingLost'
  BY DEF NothingLost, Queued
<1>2. OnlyEarlyTwice'
  BY DEF OnlyEarlyTwice, OnceInv, Out
<1>3. OnceInv'
  BY DEF OnceInv, Out
<1>4. QED
  BY <1>1, <1>2, <1>3

LEMMA Enqueues ==
    ASSUME SInv, EnqueueTask, UNCHANGED <<fresh, task>>
    PROVE  DataInv'
<1> USE DEF SInv, TypeOK, EnqueueTask, ResetBatchedData, DataInv, results
<1>1. /\ Len(queue') = Len(queue) + 1
      /\ queue'[Len(queue) + 1] = batch
      /\ \A i \in 1..Len(queue) : queue'[i] = queue[i]
      /\ Len(queue) \in Nat
  OBVIOUS
<1>2. NothingLost'
  <2>1. \A r \in batch : r \in Queued'
    BY <1>1 DEF Queued
  <2>2. \A r \in Queued : r \in Queued'
    BY <1>1 DEF Queued
  <2>3. QED
    BY <2>1, <2>2 DEF NothingLost
<1>3. OnlyEarlyTwice'
  BY DEF OnlyEarlyTwice
<1>4. OnceInv'
  BY <1>1 DEF OnceInv, Out
<1>5. QED
  BY <1>2, <1>3, <1>4

LEMMA Dequeues ==
    ASSUME SInv, Dequeue
    PROVE  DataInv'
<1> USE DEF SInv, TypeOK, Dequeue, DataInv, results, batchVars
<1>1. /\ Len(queue) \in Nat \ {0}
      /\ Len(queue') = Len(queue) - 1
      /\ task' = queue[1]
      /\ \A i \in 1..Len(queue') : queue'[i] = queue[i + 1]
  OBVIOUS
<1>2. task = {}
  BY DEF TaskInv
<1>3. NothingLost'
  <2>1. ASSUME NEW r \in Queued, r \notin task'
        PROVE  r \in Queued'
    <3>1. PICK i \in 1..Len(queue) : r \in queue[i]
      BY DEF Queued
    <3>2. i - 1 \in 1..Len(queue') /\ r \in queue'[i - 1]
      BY <1>1, <2>1, <3>1
    <3>3. QED
      BY <3>2 DEF Queued
  <2>2. QED
    BY <1>2, <2>1 DEF NothingLost
<1>4. OnlyEarlyTwice'
  BY DEF OnlyEarlyTwice
<1>5. OnceInv'
  <2> SUFFICES ASSUME NEW r \in Record \ early
               PROVE  OnceInv!(r)'
    BY DEF OnceInv
  <2>1. QED
    BY <1>1, <1>2 DEF OnceInv, Out
<1>6. QED
  BY <1>3, <1>4, <1>5

LEMMA Completes ==
    ASSUME SInv, NEW status, Complete(status)
    PROVE  DataInv'
<1> USE DEF SInv, TypeOK, Complete, OnStatus, Store, Repeats, DataInv, batchVars
<1>1. NothingLost'
  BY DEF NothingLost, Queued
<1>2. OnlyEarlyTwice'
  BY DEF OnlyEarlyTwice, OnceInv, Out
<1>3. OnceInv'
  BY DEF OnceInv, Out
<1>4. QED
  BY <1>1, <1>2, <1>3
-----------------------------------------------------------------------------
(* A step that neither takes a task nor wakes a caller leaves room as it   *)
(* was.                                                                    *)
LEMMA KeepsRoom ==
    ASSUME SInv, queue' = queue,
           thread' = thread \/ thread' # "notify",
           publishing' = publishing \/ publishing' # "woken"
    PROVE  QueueInv'
<1>1. Len(queue) \in Nat
  BY DEF SInv, TypeOK
<1>2. /\ Notification \in {0, 1} /\ Notification' \in {0, 1} /\ (Notification' = 1 => Notification = 1)
      /\ Wakened \in {0, 1} /\ Wakened' \in {0, 1} /\ (Wakened' = 1 => Wakened = 1)
  BY DEF Notification, Wakened
<1>3. QueueSize \in Nat
  BY ServiceAssumption
<1>4. QED
  BY <1>1, <1>2, <1>3 DEF SInv, QueueInv

LEMMA CallerInv ==
    ASSUME SInv, Caller
    PROVE  SInv'
<1> USE DEF SInv
<1>1. ASSUME NEW r \in Record, BatchData(r)
      PROVE  SInv'
  <2>1. IsFiniteSet(batch \cup {r})
    BY ServiceAssumption, FS_Subset DEF TypeOK
  <2>2. Cardinality(batch \cup {r}) \in Nat /\ Cardinality({}) = 0
    BY <2>1, FS_CardinalityType, FS_EmptySet
  <2>3. TypeOK'
    <3>1. /\ batch' \subseteq Record /\ Cardinality(batch') <= MaxBatchSize
          /\ publishing' \in {"no", "look"}
      <4>1. CASE TooMany(batch \cup {r})
        <5>1. batch' = {} /\ publishing' = "no"
          BY <1>1, <4>1 DEF BatchData
        <5>2. QED
          BY <2>2, <5>1, ServiceAssumption
      <4>2. CASE ~ TooMany(batch \cup {r})
        <5>1. Cardinality(batch \cup {r}) <= MaxBatchSize
          BY <2>2, <4>2, ServiceAssumption DEF TooMany
        <5>2. batch' = batch \cup {r} /\ publishing' \in {"no", "look"}
          BY <1>1, <4>2 DEF BatchData
        <5>3. QED
          BY <5>1, <5>2 DEF TypeOK
      <4>3. QED
        BY <4>1, <4>2
    <3>2. /\ stored' \subseteq Record /\ uploaded' \subseteq Record /\ dropped' \subseteq Record
          /\ repeated' \subseteq Record /\ fresh' \subseteq Record
      BY <1>1 DEF BatchData, Store, Repeats, TypeOK
    <3>3. UNCHANGED <<lifecycle, thread, queue, task, early>>
      BY <1>1 DEF BatchData
    <3>4. QED
      BY <3>1, <3>2, <3>3 DEF TypeOK, lifecycle
  <2>4. TaskInv'
    BY <1>1 DEF TaskInv, BatchData
  <2>6. QueueInv'
    BY <1>1, KeepsRoom DEF BatchData
  <2>5. QED
    BY <1>1, <2>3, <2>4, <2>6, Batches
<1>2. CASE publishBatchedData
  <2>1. TypeOK' /\ TaskInv'
    BY <1>2 DEF publishBatchedData, TypeOK, TaskInv, lifecycle, results
  <2>2. QED
    BY <1>2, <2>1, KeepsRoom, KeepsData DEF publishBatchedData, dataVars
<1>3. CASE LookIfStarted
  <2>1. TypeOK' /\ TaskInv'
    BY <1>3 DEF LookIfStarted, Store, Repeats, TypeOK, TaskInv, lifecycle, results
  <2>2. DataInv'
    BY <1>3, KeepsData, Cancels DEF LookIfStarted, dataVars
  <2>3. QueueInv'
    BY <1>3, KeepsRoom DEF LookIfStarted
  <2>4. QED
    BY <2>1, <2>2, <2>3
<1>4. CASE TryEnqueue \/ EnqueueAfterWait
  <2>1. Cardinality({}) = 0
    BY FS_EmptySet
  <2>2. TypeOK' /\ TaskInv' /\ QueueInv'
    <3>1. /\ batch' \subseteq Record /\ Cardinality(batch') <= MaxBatchSize
          /\ publishing' \in {"no", "wait"}
          /\ queue' \in Seq(SUBSET Record)
          /\ QueueInv'
      <4>1. CASE EnqueueTask
        <5>1. batch' = {} /\ publishing' = "no" /\ queue' = Append(queue, batch)
          BY <4>1 DEF EnqueueTask, ResetBatchedData
        <5>2. /\ queue' \in Seq(SUBSET Record)
              /\ Len(queue) \in Nat /\ Len(queue') = Len(queue) + 1
          BY <5>1 DEF TypeOK
        <5>3. Cardinality(batch') <= MaxBatchSize
          BY <2>1, <5>1, ServiceAssumption
        <5>4. thread' = thread /\ (publishing = "woken" \/ Len(queue) < QueueSize)
          BY <1>4, <4>1, <5>1 DEF TryEnqueue, EnqueueAfterWait, HasRoom
        <5>5. /\ Notification \in {0, 1} /\ Notification' = Notification
              /\ Wakened \in {0, 1} /\ Wakened' = 0 /\ (publishing = "woken" => Wakened = 1)
          BY <5>1, <5>4 DEF Notification, Wakened
        <5>6. QueueSize \in Nat
          BY ServiceAssumption
        <5>7. QueueInv'
          BY <5>2, <5>4, <5>5, <5>6 DEF QueueInv
        <5>8. QED
          BY <5>1, <5>2, <5>3, <5>7
      <4>2. CASE ~ EnqueueTask
        <5>1. publishing' = "wait" /\ UNCHANGED <<batch, queue, thread>>
          BY <1>4, <4>2 DEF TryEnqueue, EnqueueAfterWait
        <5>2. QED
          BY <5>1, KeepsRoom DEF TypeOK
      <4>3. QED
        BY <4>1, <4>2
    <3>2. UNCHANGED <<lifecycle, thread, fresh, task, results>>
      BY <1>4 DEF TryEnqueue, EnqueueAfterWait, EnqueueTask
    <3>3. QED
      BY <3>1, <3>2 DEF TypeOK, TaskInv, lifecycle, results
  <2>3. DataInv'
    BY <1>4, KeepsData, Enqueues DEF TryEnqueue, EnqueueAfterWait, dataVars
  <2>4. QED
    BY <2>2, <2>3
<1>5. CASE EnqueueTimesOut
  <2>1. Cardinality({}) = 0
    BY FS_EmptySet
  <2>2. TypeOK' /\ TaskInv'
    BY <1>5, <2>1, ServiceAssumption
       DEF EnqueueTimesOut, CancelTask, OnStatus, Store, Repeats, ResetBatchedData, TypeOK, TaskInv,
           lifecycle
  <2>3. DataInv'
    BY <1>5, Writes DEF EnqueueTimesOut, CancelTask, OnStatus, ResetBatchedData
  <2>4. QueueInv'
    BY <1>5, KeepsRoom DEF EnqueueTimesOut
  <2>5. QED
    BY <2>2, <2>3, <2>4
<1>6. QED
  BY <1>1, <1>2, <1>3, <1>4, <1>5 DEF Caller, Publishing

LEMMA WorkThreadInv ==
    ASSUME SInv, WorkThread
    PROVE  SInv'
<1> USE DEF SInv
<1>1. CASE CheckRun \/ DequeueTimesOut \/ RunTask \/ AttemptPublish
  <2>1. TypeOK' /\ TaskInv'
    BY <1>1
       DEF CheckRun, DequeueTimesOut, RunTask, AttemptPublish, TypeOK, TaskInv, lifecycle,
           batchVars, results
  <2>2. UNCHANGED dataVars
    BY <1>1 DEF CheckRun, DequeueTimesOut, RunTask, AttemptPublish, batchVars, dataVars
  <2>3. QueueInv'
    BY <1>1, KeepsRoom DEF CheckRun, DequeueTimesOut, RunTask, AttemptPublish, batchVars
  <2>4. QED
    BY <2>1, <2>2, <2>3, KeepsData
<1>2. CASE Dequeue
  <2>1. /\ queue' \in Seq(SUBSET Record) /\ task' \subseteq Record
        /\ Len(queue) \in Nat /\ Len(queue') = Len(queue) - 1
    BY <1>2 DEF Dequeue, TypeOK
  <2>2. /\ thread = "dequeue" /\ thread' = "notify"
        /\ UNCHANGED <<lifecycle, batchVars, results>>
    BY <1>2 DEF Dequeue
  <2>3. TypeOK' /\ TaskInv'
    BY <2>1, <2>2 DEF TypeOK, TaskInv, lifecycle, batchVars, results
  <2>4. QueueInv'
    BY <2>1, <2>2, ServiceAssumption DEF QueueInv, Notification, Wakened, batchVars
  <2>5. QED
    BY <1>2, <2>3, <2>4, Dequeues
<1>5. CASE NotifyProducer
  <2>1. TypeOK' /\ TaskInv'
    BY <1>5 DEF NotifyProducer, TypeOK, TaskInv, lifecycle, results
  <2>2. Len(queue) \in Nat /\ UNCHANGED dataVars
    BY <1>5 DEF NotifyProducer, dataVars, TypeOK
  <2>3. QueueInv'
    BY <1>5, <2>2, ServiceAssumption DEF NotifyProducer, QueueInv, Notification, Wakened
  <2>4. QED
    BY <2>1, <2>2, <2>3, KeepsData
<1>3. ASSUME NEW status, Complete(status)
      PROVE  SInv'
  <2>1. TypeOK' /\ TaskInv'
    BY <1>3 DEF Complete, OnStatus, Store, Repeats, TypeOK, TaskInv, lifecycle, batchVars
  <2>2. QED
    BY <1>3, <2>1, Completes, KeepsRoom DEF Complete, batchVars
<1>4. QED
  BY <1>1, <1>2, <1>3, <1>5 DEF WorkThread, CancelTaken, RefuseTask, PublishEnds

LEMMA OwnerInv ==
    ASSUME SInv, Owner
    PROVE  SInv'
<1> USE DEF SInv
<1>1. CASE EmptyCollection
  <2>1. Cardinality({}) = 0
    BY FS_EmptySet
  <2>2. TypeOK' /\ TaskInv'
    BY <1>1, <2>1, ServiceAssumption
       DEF EmptyCollection, Store, Repeats, TypeOK, TaskInv, State
  <2>3. QED
    BY <1>1, <2>2, Writes, KeepsRoom DEF EmptyCollection
<1>2. CASE \/ StartPublisher \/ SetShutdown \/ Starting \/ StopWorkerThread \/ StopPublisher
           \/ LockPublisher \/ StopBatcher \/ Join
  <2> USE <1>2 DEF Starting, StartPublisher, SetShutdown, StartBatcher, StartWorkerThread,
         SetStarted, StopWorkerThread, StopPublisher, LockPublisher, StopBatcher, Join, OwnerGoes
  <2>1. TypeOK'
    BY ServiceAssumption DEF TypeOK, State, batchVars, results
  <2>2. TaskInv'
    BY DEF TaskInv
  <2>3. UNCHANGED dataVars
    BY DEF batchVars, dataVars
  <2>4. QueueInv'
    BY KeepsRoom DEF batchVars
  <2>5. QED
    BY <2>1, <2>2, <2>3, <2>4, KeepsData
<1>3. QED
  BY <1>1, <1>2 DEF Owner, Stopping

LEMMA StepInv == SInv /\ [Next]_vars => SInv'
<1> SUFFICES ASSUME SInv, [Next]_vars
             PROVE  SInv'
  OBVIOUS
<1>1. CASE UNCHANGED vars
  <2>1. TypeOK' /\ TaskInv'
    BY <1>1 DEF SInv, TypeOK, TaskInv, vars, lifecycle, batchVars, results
  <2>2. QED
    BY <1>1, <2>1, KeepsData, KeepsRoom DEF SInv, vars, batchVars, dataVars
<1>2. QED
  BY <1>1, CallerInv, WorkThreadInv, OwnerInv DEF Next

LEMMA ServiceInvariant == Spec => []SInv
<1>1. QED
  BY InitInv, StepInv, PTL DEF Spec
-----------------------------------------------------------------------------
(* Every variable keeps its type, and a batch never exceeds its limit,     *)
(* whatever the state of the batcher (batchData).                          *)
THEOREM ServiceTypeCorrect == Spec => []TypeOK
<1>1. SInv => TypeOK
  BY DEF SInv
<1>2. QED
  BY <1>1, ServiceInvariant, PTL

(* The stream queue outgrows its maximum by no more than one task, however *)
(* late the work thread tells a caller of the room it made                 *)
(* (enqueueOnCondition, dequeue).                                          *)
THEOREM StreamQueueBounded == Spec => []QueueBounded
<1>1. SInv => QueueBounded
  <2> SUFFICES ASSUME SInv
               PROVE  QueueBounded
    OBVIOUS
  <2>1. Len(queue) \in Nat /\ QueueSize \in Nat
    BY ServiceAssumption DEF SInv, TypeOK
  <2>2. Notification \in {0, 1} /\ Wakened \in {0, 1}
    BY DEF Notification, Wakened
  <2>3. QED
    BY <2>1, <2>2 DEF SInv, QueueInv, QueueBounded
<1>2. QED
  BY <1>1, ServiceInvariant, PTL

(* No record that was given to the service is lost between the caller and  *)
(* the file manager or CloudWatch, through any starts and shutdowns        *)
(* (publishBatchedData, emptyCollection, work).                            *)
THEOREM NoRecordLost == Spec => []NothingLost
<1>1. SInv => NothingLost
  BY DEF SInv, DataInv
<1>2. QED
  BY <1>1, ServiceInvariant, PTL

(* Only a batch that is cancelled with its batcher not STARTED makes a     *)
(* record come twice (publishBatchedData).                                 *)
THEOREM TwiceOnlyWhenEarly == Spec => []OnlyEarlyTwice
<1>1. SInv => OnlyEarlyTwice
  BY DEF SInv, DataInv
<1>2. QED
  BY <1>1, ServiceInvariant, PTL
=============================================================================
