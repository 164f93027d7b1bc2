--------------------------- MODULE ObservedQueue ---------------------------
(***************************************************************************)
(* ObservedBlockingQueues (observed_queue.h) behind one QueueMonitor       *)
(* (queue_monitor.h, status_monitor.cpp): threads put tasks on bounded     *)
(* queues, one thread takes them off by priority and works on them.        *)
(*                                                                         *)
(* Producers hold dequeue_mutex_ from the look at the size until they have *)
(* told the monitor; the consumer pops without it and takes it afterwards  *)
(* to wake a producer.  A queue is the number of the tasks on it: which    *)
(* task is at the front is not the subject here.                           *)
(***************************************************************************)
EXTENDS Naturals, FiniteSets

CONSTANTS
    QueueName,
    Producer,
    QueueOf,            \* producer -> the queue that is its sink
    Direct,             \* producers that call enqueue, the others call tryEnqueue
    Priority,           \* queue -> its PriorityOptions
    MaxQueueSize,       \* queue -> max_queue_size_
    Cleared             \* queues that the completion of a task may clear

ASSUME QueueAssumption ==
    /\ QueueName # {}
    /\ IsFiniteSet(Producer)
    /\ QueueOf \in [Producer -> QueueName]
    /\ Direct \subseteq Producer
    /\ Priority \in [QueueName -> Nat]
    /\ MaxQueueSize \in [QueueName -> Nat \ {0}]
    /\ Cleared \subseteq QueueName

VARIABLES
    size,               \* queue -> tasks on it
    lock,               \* queue -> who holds dequeue_mutex_ from one step to the next
    mask,               \* the queues whose monitor says AVAILABLE
    producer,           \* producer -> where it is in enqueue or tryEnqueue
    consumer,           \* where the consumer is in dequeue and after it
    left,               \* queues it has not looked at since it woke
    source,             \* the queue it took its task from
    overtaken           \* history: tasks of lower priority taken while one waited

vars == <<size, lock, mask, producer, consumer, left, source, overtaken>>

Free == "free"
None == "none"
ASSUME NamesAssumption == Free \notin Producer /\ None \notin QueueName

TypeOK ==
    /\ size \in [QueueName -> Nat]
    /\ lock \in [QueueName -> Producer \cup {Free}]
    /\ mask \subseteq QueueName
    /\ producer \in [Producer -> {"idle", "announce", "blocked", "woken"}]
    /\ consumer \in {"check", "sleep", "waiting", "scan", "popped", "unavailable",
                     "notify", "work"}
    /\ left \subseteq QueueName
    /\ source \in QueueName \cup {None}
    /\ overtaken \in [QueueName -> 0..2]

Waiters(q)  == {p \in Producer : QueueOf[p] = q /\ p \notin Direct}
Blocked(q)  == {p \in Waiters(q) : producer[p] = "blocked"}
Woken(q)    == {p \in Waiters(q) : producer[p] = "woken"}
Higher(h, q) == Priority[h] > Priority[q]
-----------------------------------------------------------------------------
(* Producers *)

(* OQ::enqueue pushes and then tells the monitor, with the lock held.      *)
Push(p) ==
    LET q == QueueOf[p] IN
    /\ size' = [size EXCEPT ![q] = @ + 1]
    /\ lock' = [lock EXCEPT ![q] = p]
    /\ producer' = [producer EXCEPT ![p] = "announce"]

RoomAlways(p) == TRUE                                             \* mutated form
HasRoom(p) == size[QueueOf[p]] < MaxQueueSize[QueueOf[p]]

(* tryEnqueue: where the queue is full, wait_for gives up the lock.        *)
TryEnqueue(p) ==
    /\ p \notin Direct
    /\ producer[p] = "idle"
    /\ lock[QueueOf[p]] = Free
    /\ IF HasRoom(p) THEN Push(p)
       ELSE /\ producer' = [producer EXCEPT ![p] = "blocked"]
            /\ UNCHANGED <<size, lock>>
    /\ UNCHANGED <<mask, consumer, left, source, overtaken>>

(* enqueue compares with <= and never waits; it returns false when it      *)
(* fails.                                                                  *)
Enqueue(p) ==
    /\ p \in Direct
    /\ producer[p] = "idle"
    /\ lock[QueueOf[p]] = Free
    /\ size[QueueOf[p]] <= MaxQueueSize[QueueOf[p]]
    /\ Push(p)
    /\ UNCHANGED <<mask, consumer, left, source, overtaken>>

(* wait_for has returned no_timeout and has the lock again: enqueueOn-     *)
(* Condition does not look at the size a second time.                      *)
EnqueueAfterWait(p) ==
    /\ producer[p] = "woken"
    /\ lock[QueueOf[p]] = Free
    /\ Push(p)
    /\ UNCHANGED <<mask, consumer, left, source, overtaken>>

WaitsForEver(p) == FALSE                                          \* mutated form
TimesOut(p) ==
    /\ producer[p] = "blocked"
    /\ lock[QueueOf[p]] = Free
    /\ producer' = [producer EXCEPT ![p] = "idle"]
    /\ UNCHANGED <<size, lock, mask, consumer, left, source, overtaken>>

setAvailable(q) == mask' = mask \cup {q}

(* Only a consumer that is waiting already is woken.                       *)
notify == consumer' = IF consumer = "waiting" THEN "scan" ELSE consumer

Announce(p) ==
    LET q == QueueOf[p] IN
    /\ producer[p] = "announce"
    /\ setAvailable(q)
    /\ notify
    /\ lock' = [lock EXCEPT ![q] = Free]
    /\ producer' = [producer EXCEPT ![p] = "idle"]
    /\ UNCHANGED <<size, left, source, overtaken>>
-----------------------------------------------------------------------------
(* The consumer: QueueMonitor::dequeue and the work on what it returns *)

hasWork == mask # {}

(* waitForWork looks at the mask first and takes idle_mutex_ after that:   *)
(* what is announced in between is not heard.                              *)
CheckForWork ==
    /\ consumer = "check"
    /\ consumer' = IF hasWork THEN "scan" ELSE "sleep"
    /\ UNCHANGED <<size, lock, mask, producer, left, source, overtaken>>

FallAsleep ==
    /\ consumer = "sleep"
    /\ consumer' = "waiting"
    /\ UNCHANGED <<size, lock, mask, producer, left, source, overtaken>>

SleepsOn == FALSE                                                 \* mutated form
WaitTimesOut ==
    /\ consumer = "waiting"
    /\ consumer' = "scan"
    /\ UNCHANGED <<size, lock, mask, producer, left, source, overtaken>>

(* priority_vector_ is sorted with std::greater.                           *)
LowestFirst(q) == q \in left /\ \A h \in left : ~ Higher(q, h)    \* mutated form
NextToLookAt(q) == q \in left /\ \A h \in left : ~ Higher(h, q)

HasTaskAlways(q) == TRUE                                          \* mutated form
HasTask(q) == size[q] > 0

LookAtEmptyQueue ==
    /\ consumer = "scan"
    /\ \E q \in QueueName :
        /\ NextToLookAt(q)
        /\ ~ HasTask(q)
        /\ left' = IF left = {q} THEN QueueName ELSE left \ {q}
        /\ consumer' = IF left = {q} THEN "check" ELSE "scan"
    /\ UNCHANGED <<size, lock, mask, producer, source, overtaken>>

(* OQ::dequeue, called by ObservedBlockingQueue::dequeue without the lock. *)
Pop(q) ==
    /\ consumer = "scan"
    /\ NextToLookAt(q)
    /\ HasTask(q)
    /\ size' = [size EXCEPT ![q] = @ - 1]
    /\ source' = q
    /\ left' = QueueName
    /\ consumer' = "popped"
    /\ overtaken' = [h \in QueueName |->
                       IF h = q THEN 0
                       ELSE IF Higher(h, q) /\ size[h] > 0 /\ overtaken[h] < 2
                              THEN overtaken[h] + 1 ELSE overtaken[h]]
    /\ UNCHANGED <<lock, mask, producer>>

LookWhetherEmpty ==
    /\ consumer = "popped"
    /\ consumer' = IF size[source] = 0 THEN "unavailable" ELSE "notify"
    /\ UNCHANGED <<size, lock, mask, producer, left, source, overtaken>>

(* A task may have been pushed and announced since the look.               *)
SetUnavailable ==
    /\ consumer = "unavailable"
    /\ mask' = mask \ {source}
    /\ consumer' = "notify"
    /\ UNCHANGED <<size, lock, producer, left, source, overtaken>>

(* notify_one, with the lock.                                              *)
WakeNobody(q) == UNCHANGED producer                               \* mutated form
WakeOne(q) ==
    IF Blocked(q) = {} THEN UNCHANGED producer
    ELSE \E p \in Blocked(q) : producer' = [producer EXCEPT ![p] = "woken"]

NotifyProducer ==
    /\ consumer = "notify"
    /\ lock[source] = Free
    /\ WakeOne(source)
    /\ consumer' = "work"
    /\ UNCHANGED <<size, lock, mask, left, source, overtaken>>

WorkEnds ==
    /\ consumer = "work"
    /\ consumer' = "check"
    /\ source' = None
    /\ UNCHANGED <<size, lock, mask, producer, left, overtaken>>

(* The completion of a failed task clears the queue it came from           *)
(* (FileUploadStreamer::onComplete).  Nothing is said to the monitor, and  *)
(* nobody is woken.                                                        *)
Clear ==
    /\ consumer = "work"
    /\ source \in Cleared
    /\ lock[source] = Free
    /\ size' = [size EXCEPT ![source] = 0]
    /\ overtaken' = [overtaken EXCEPT ![source] = 0]
    /\ consumer' = "check"
    /\ source' = None
    /\ UNCHANGED <<lock, mask, producer, left>>
-----------------------------------------------------------------------------
Init ==
    /\ size = [q \in QueueName |-> 0]
    /\ lock = [q \in QueueName |-> Free]
    /\ mask = {}
    /\ producer = [p \in Producer |-> "idle"]
    /\ consumer = "check"
    /\ left = QueueName
    /\ source = None
    /\ overtaken = [q \in QueueName |-> 0]

ProducerStep(p) == \/ TryEnqueue(p) \/ Enqueue(p)
                   \/ EnqueueAfterWait(p) \/ TimesOut(p) \/ Announce(p)
ConsumerStep == \/ CheckForWork \/ FallAsleep \/ WaitTimesOut
                \/ LookAtEmptyQueue \/ (\E q \in QueueName : Pop(q))
                \/ LookWhetherEmpty \/ SetUnavailable \/ NotifyProducer
                \/ WorkEnds \/ Clear
Next == ConsumerStep \/ \E p \in Producer : ProducerStep(p)

Spec == Init /\ [][Next]_vars

(* A thread that has come to an end of a step goes on, a wait_for ends,    *)
(* and a thread that waits for a mutex again and again gets it at some     *)
(* time.  Nobody need enqueue.                                             *)
ReturnsFromWait(p) == EnqueueAfterWait(p) \/ TimesOut(p)
Fairness ==
    /\ WF_vars(ConsumerStep) /\ SF_vars(NotifyProducer)
    /\ \A p \in Producer : WF_vars(Announce(p))
    /\ \A p \in Producer \ Direct : SF_vars(ReturnsFromWait(p))
FairSpec == Spec /\ Fairness
-----------------------------------------------------------------------------
(* Properties *)

(* One task that was woken for can be in the hands of the consumer.        *)
Pending(q) == IF source = q /\ consumer \in {"popped", "unavailable", "notify"} THEN 1 ELSE 0

(* How far a queue can outgrow its maximum: each thread that waits in      *)
(* tryEnqueue may be woken for a room another one takes; a call of         *)
(* enqueue admits one more, and can do so between the pop of a task and    *)
(* the notification for it (enqueueOnCondition, enqueue, dequeue).         *)
Excess(q) == Cardinality(Waiters(q)) + (IF \E p \in Direct : QueueOf[p] = q THEN 2 ELSE 0)
QueueBounded == \A q \in QueueName : size[q] <= MaxQueueSize[q] + Excess(q)

(* No producer waits in vain: a queue somebody waits at is full, but for   *)
(* the room of those who are awake and the one the consumer is about to    *)
(* notify of.  clear() breaks this, for the queues it is called on         *)
(* (enqueueOnCondition, dequeue, clear).                                   *)
BlockedProducersAwaited ==
    \A q \in QueueName \ Cleared :
        Blocked(q) # {} => size[q] + Cardinality(Woken(q)) + Pending(q) >= MaxQueueSize[q]

(* A task waits for one of a lower priority at most, whatever arrives      *)
(* while the monitor goes through its queues (QueueMonitor::dequeue).      *)
OvertakenOnce == \A q \in QueueName : overtaken[q] <= 1

(* Tasks of the highest priority are taken, although an announcement may   *)
(* be missed between check and wait and a monitor overwritten after it     *)
(* (waitForWork, dequeue).                                                 *)
Highest(q) == \A h \in QueueName : ~ Higher(h, q)
TasksAreTaken ==
    \A q \in QueueName : Highest(q) => (size[q] > 0 ~> source = q)

(* Every call returns, although clear() wakes nobody and tasks of a low    *)
(* priority may never be taken (tryEnqueue).                               *)
ProducersReturn == \A p \in Producer : producer[p] # "idle" ~> producer[p] = "idle"
=============================================================================
