----------------------- MODULE ObservedQueue_proofs -----------------------
(***************************************************************************)
(* Theorems about the observed queues, for any number of queues and        *)
(* producers and any sizes and priorities.                                 *)
(***************************************************************************)
EXTENDS ObservedQueue, FiniteSetTheorems, TLAPS

(* Whoever calls enqueue never waits.                                      *)
DirectNeverWaits == \A p \in Direct : producer[p] \notin {"blocked", "woken"}

(* The strengthening of QueueBounded: the tasks on the queue, the woken    *)
(* producers and the room nobody was notified of yet, together.            *)
InStock(q) == size[q] + Cardinality(Woken(q)) + Pending(q)
StockBounded == \A q \in QueueName : InStock(q) <= MaxQueueSize[q] + Excess(q)

(* The strengthening of OvertakenOnce: the queue that was overtaken has a  *)
(* task and will be looked at before any of a lower priority.              *)
NextIsOvertaken ==
    /\ consumer # "scan" => left = QueueName
    /\ \A q \in QueueName : overtaken[q] = 1 => size[q] > 0 /\ q \in left

QInv == TypeOK /\ DirectNeverWaits /\ StockBounded
-----------------------------------------------------------------------------
LEMMA Sizes ==
    ASSUME TypeOK, NEW q \in QueueName
    PROVE  /\ IsFiniteSet(Woken(q)) /\ Cardinality(Woken(q)) \in Nat
           /\ IsFiniteSet(Waiters(q)) /\ Cardinality(Waiters(q)) \in Nat
           /\ Cardinality(Woken(q)) <= Cardinality(Waiters(q))
           /\ Pending(q) \in {0, 1}
           /\ size[q] \in Nat /\ MaxQueueSize[q] \in Nat \ {0}
<1>1. IsFiniteSet(Waiters(q))
  <2>1. Waiters(q) \in SUBSET Producer
    BY DEF Waiters
  <2>2. QED
    BY <2>1, QueueAssumption, FS_Subset
<1>2. Woken(q) \in SUBSET Waiters(q)
  BY DEF Woken
<1>3. /\ IsFiniteSet(Woken(q))
      /\ Cardinality(Woken(q)) <= Cardinality(Waiters(q))
  BY <1>1, <1>2, FS_Subset
<1>4. Cardinality(Woken(q)) \in Nat /\ Cardinality(Waiters(q)) \in Nat
  BY <1>1, <1>3, FS_CardinalityType
<1>5. QED
  BY <1>1, <1>3, <1>4, QueueAssumption DEF TypeOK, Pending

(* A producer that is not awake leaves room among those who are.           *)
LEMMA OneNotWoken ==
    ASSUME TypeOK, NEW p \in Producer, p \notin Direct, producer[p] # "woken"
    PROVE  Cardinality(Woken(QueueOf[p])) + 1 <= Cardinality(Waiters(QueueOf[p]))
<1> DEFINE q == QueueOf[p]
<1>1. q \in QueueName
  BY QueueAssumption
<1>2. Woken(q) \cup {p} \in SUBSET Waiters(q)
  BY DEF Woken, Waiters
<1>3. p \notin Woken(q)
  BY DEF Woken
<1>4. IsFiniteSet(Woken(q)) /\ IsFiniteSet(Waiters(q)) /\ Cardinality(Woken(q)) \in Nat
  BY <1>1, Sizes
<1>5. Cardinality(Woken(q) \cup {p}) = Cardinality(Woken(q)) + 1
  BY <1>3, <1>4, FS_AddElement
<1>6. Cardinality(Woken(q) \cup {p}) <= Cardinality(Waiters(q))
  BY <1>2, <1>4, FS_Subset
<1>7. QED
  BY <1>5, <1>6

(* Who is awake changes with a step of one producer only.                  *)
LEMMA WokenUnchanged ==
    ASSUME NEW q \in QueueName,
           \A p \in Producer : producer'[p] = "woken" <=> producer[p] = "woken"
    PROVE  Woken(q)' = Woken(q)
  BY DEF Woken, Waiters

LEMMA WokenLeaves ==
    ASSUME TypeOK, NEW p \in Producer, p \notin Direct, producer[p] = "woken",
           NEW s, s # "woken", producer' = [producer EXCEPT ![p] = s],
           NEW q \in QueueName
    PROVE  Cardinality(Woken(q)') = IF q = QueueOf[p] THEN Cardinality(Woken(q)) - 1
                                    ELSE Cardinality(Woken(q))
<1>1. CASE q = QueueOf[p]
  <2>1. Woken(q)' = Woken(q) \ {p}
    BY <1>1 DEF Woken, Waiters, TypeOK
  <2>2. p \in Woken(q)
    BY <1>1 DEF Woken, Waiters
  <2>3. IsFiniteSet(Woken(q))
    BY Sizes
  <2>4. QED
    BY <1>1, <2>1, <2>2, <2>3, FS_RemoveElement
<1>2. CASE q # QueueOf[p]
  <2>1. Woken(q)' = Woken(q)
    BY <1>2 DEF Woken, Waiters, TypeOK
  <2>2. QED
    BY <1>2, <2>1
<1>3. QED
  BY <1>1, <1>2

LEMMA WokenJoins ==
    ASSUME TypeOK, NEW b \in QueueName, NEW p \in Blocked(b),
           producer' = [producer EXCEPT ![p] = "woken"],
           NEW q \in QueueName
    PROVE  Cardinality(Woken(q)') = IF q = b THEN Cardinality(Woken(q)) + 1
                                    ELSE Cardinality(Woken(q))
<1>1. p \in Producer /\ QueueOf[p] = b /\ p \notin Direct /\ producer[p] = "blocked"
  BY DEF Blocked, Waiters
<1>2. CASE q = b
  <2>1. Woken(q)' = Woken(q) \cup {p}
    BY <1>1, <1>2 DEF Woken, Waiters, TypeOK
  <2>2. p \notin Woken(q)
    BY <1>1 DEF Woken
  <2>3. IsFiniteSet(Woken(q))
    BY Sizes
  <2>4. QED
    BY <1>2, <2>1, <2>2, <2>3, FS_AddElement
<1>3. CASE q # b
  <2>1. Woken(q)' = Woken(q)
    BY <1>1, <1>3 DEF Woken, Waiters, TypeOK
  <2>2. QED
    BY <1>3, <2>1
<1>4. QED
  BY <1>2, <1>3
-----------------------------------------------------------------------------
(* Types *)

LEMMA ProducerStepTypes ==
    ASSUME TypeOK, NEW p \in Producer, ProducerStep(p)
    PROVE  TypeOK'
<1>1. QueueOf[p] \in QueueName
  BY QueueAssumption
<1>2. CASE TryEnqueue(p)
  BY <1>1, <1>2 DEF TypeOK, TryEnqueue, Push
<1>3. CASE Enqueue(p)
  BY <1>1, <1>3 DEF TypeOK, Enqueue, Push
<1>4. CASE EnqueueAfterWait(p)
  BY <1>1, <1>4 DEF TypeOK, EnqueueAfterWait, Push
<1>5. CASE TimesOut(p)
  BY <1>5 DEF TypeOK, TimesOut
<1>6. CASE Announce(p)
  BY <1>1, <1>6 DEF TypeOK, Announce, setAvailable, notify
<1>7. QED
  BY <1>2, <1>3, <1>4, <1>5, <1>6 DEF ProducerStep

LEMMA PopTypes ==
    ASSUME TypeOK, NEW q \in QueueName, Pop(q)
    PROVE  TypeOK'
<1>1. size' \in [QueueName -> Nat]
  BY DEF TypeOK, Pop, HasTask
<1>2. overtaken' \in [QueueName -> 0..2]
  <2>1. ASSUME NEW h \in QueueName
        PROVE  (IF h = q THEN 0
                ELSE IF Higher(h, q) /\ size[h] > 0 /\ overtaken[h] < 2
                       THEN overtaken[h] + 1 ELSE overtaken[h]) \in 0..2
    BY DEF TypeOK
  <2>2. QED
    BY <2>1 DEF Pop
<1>3. QED
  BY <1>1, <1>2 DEF TypeOK, Pop

LEMMA ConsumerStepTypes ==
    ASSUME TypeOK, ConsumerStep
    PROVE  TypeOK'
<1>1. CASE CheckForWork
  BY <1>1 DEF TypeOK, CheckForWork, hasWork
<1>2. CASE FallAsleep
  BY <1>2 DEF TypeOK, FallAsleep
<1>3. CASE WaitTimesOut
  BY <1>3 DEF TypeOK, WaitTimesOut
<1>4. CASE LookAtEmptyQueue
  BY <1>4 DEF TypeOK, LookAtEmptyQueue
<1>5. CASE \E q \in QueueName : Pop(q)
  BY <1>5, PopTypes
<1>6. CASE LookWhetherEmpty
  BY <1>6 DEF TypeOK, LookWhetherEmpty
<1>7. CASE SetUnavailable
  BY <1>7 DEF TypeOK, SetUnavailable
<1>8. CASE NotifyProducer
  BY <1>8 DEF TypeOK, NotifyProducer, WakeOne, Blocked, Waiters
<1>9. CASE WorkEnds
  BY <1>9 DEF TypeOK, WorkEnds
<1>10. CASE Clear
  <2>1. size' \in [QueueName -> Nat]
    BY <1>10 DEF TypeOK, Clear
  <2>2. overtaken' \in [QueueName -> 0..2]
    <3>1. 0 \in 0..2
      OBVIOUS
    <3>2. overtaken \in [QueueName -> 0..2] /\ overtaken' = [overtaken EXCEPT ![source] = 0]
      BY <1>10 DEF TypeOK, Clear
    <3>3. QED
      BY <3>1, <3>2, Zenon
  <2>3. QED
    BY <1>10, <2>1, <2>2 DEF TypeOK, Clear
<1>11. QED
  BY <1>1, <1>2, <1>3, <1>4, <1>5, <1>6, <1>7, <1>8, <1>9, <1>10 DEF ConsumerStep

LEMMA StepTypes == TypeOK /\ [Next]_vars => TypeOK'
<1>1. CASE UNCHANGED vars
  BY <1>1 DEF TypeOK, vars
<1>2. QED
  BY <1>1, ProducerStepTypes, ConsumerStepTypes DEF Next

LEMMA InitTypes == Init => TypeOK
  BY DEF Init, TypeOK
-----------------------------------------------------------------------------
(* Who calls enqueue never waits *)

LEMMA StepDirect == TypeOK /\ DirectNeverWaits /\ [Next]_vars => DirectNeverWaits'
<1> SUFFICES ASSUME TypeOK, DirectNeverWaits, [Next]_vars
             PROVE  DirectNeverWaits'
  OBVIOUS
<1> USE QueueAssumption
<1>1. CASE UNCHANGED vars
  BY <1>1 DEF DirectNeverWaits, vars
<1>2. ASSUME NEW p \in Producer, ProducerStep(p)
      PROVE  DirectNeverWaits'
  BY <1>2 DEF DirectNeverWaits, TypeOK, ProducerStep, TryEnqueue, Enqueue, EnqueueAfterWait,
              TimesOut, Announce, Push
<1>3. CASE ConsumerStep
  <2>1. CASE NotifyProducer
    BY <2>1 DEF DirectNeverWaits, TypeOK, NotifyProducer, WakeOne, Blocked, Waiters
  <2>2. CASE producer' = producer
    BY <2>2 DEF DirectNeverWaits
  <2>3. QED
    BY <1>3, <2>1, <2>2 DEF ConsumerStep, CheckForWork, hasWork, FallAsleep, WaitTimesOut,
       LookAtEmptyQueue, Pop, LookWhetherEmpty, SetUnavailable, WorkEnds, Clear
<1>4. QED
  BY <1>1, <1>2, <1>3 DEF Next
-----------------------------------------------------------------------------
(* The bound *)

LEMMA ExcessConstant == \A q \in QueueName : Excess(q)' = Excess(q) /\ Waiters(q)' = Waiters(q)
  BY DEF Excess, Waiters

LEMMA ExcessNumber ==
    ASSUME TypeOK, NEW q \in QueueName
    PROVE  /\ Excess(q) \in Nat
           /\ Excess(q) >= Cardinality(Waiters(q))
           /\ (\E p \in Direct : QueueOf[p] = q) => Excess(q) = Cardinality(Waiters(q)) + 2
  BY Sizes DEF Excess

(* What a step of a producer on its queue must show: the other queues are  *)
(* as they were.                                                           *)
LEMMA ProducerBound ==
    ASSUME QInv, TypeOK', NEW p \in Producer, ProducerStep(p)
    PROVE  StockBounded'
<1> DEFINE b == QueueOf[p]
<1>0. b \in QueueName /\ TypeOK /\ DirectNeverWaits /\ StockBounded
  BY QueueAssumption DEF QInv
<1> SUFFICES ASSUME NEW q \in QueueName
             PROVE  InStock(q)' <= (MaxQueueSize[q] + Excess(q))'
  BY DEF StockBounded
<1>1. InStock(q) <= MaxQueueSize[q] + Excess(q)
  BY <1>0 DEF StockBounded
<1>2. Excess(q)' = Excess(q)
  BY ExcessConstant
<1> HIDE DEF b
<1>3. CASE TryEnqueue(p)
  <2>1. Woken(q)' = Woken(q) /\ Pending(q)' = Pending(q)
    BY <1>0, <1>3, WokenUnchanged DEF TryEnqueue, Push, TypeOK, Pending
  <2>2. CASE q = b /\ HasRoom(p)
    <3>1. size[q] < MaxQueueSize[q] /\ size'[q] = size[q] + 1
      BY <1>0, <1>3, <2>2 DEF TryEnqueue, Push, HasRoom, TypeOK, b
    <3>2. Cardinality(Woken(q)) + 1 <= Cardinality(Waiters(q))
      BY <1>0, <1>3, <2>2, OneNotWoken DEF TryEnqueue, b
    <3>3. QED
      BY <1>0, <1>2, <2>1, <3>1, <3>2, Sizes, ExcessNumber DEF InStock
  <2>3. CASE ~ (q = b /\ HasRoom(p))
    <3>1. size'[q] = size[q]
      BY <1>0, <1>3, <2>3 DEF TryEnqueue, Push, TypeOK, b
    <3>2. QED
      BY <1>1, <1>2, <2>1, <3>1 DEF InStock
  <2>4. QED
    BY <2>2, <2>3
<1>4. CASE Enqueue(p)
  <2>1. Woken(q)' = Woken(q) /\ Pending(q)' = Pending(q)
    BY <1>0, <1>4, WokenUnchanged DEF Enqueue, Push, TypeOK, Pending
  <2>2. CASE q = b
    <3>1. size[q] <= MaxQueueSize[q] /\ size'[q] = size[q] + 1
      BY <1>0, <1>4, <2>2 DEF Enqueue, Push, TypeOK, b
    <3>2. Excess(q) = Cardinality(Waiters(q)) + 2
      BY <1>0, <1>4, <2>2, ExcessNumber DEF Enqueue, b
    <3>3. QED
      BY <1>0, <1>2, <2>1, <3>1, <3>2, Sizes DEF InStock
  <2>3. CASE q # b
    <3>1. size'[q] = size[q]
      BY <1>0, <1>4, <2>3 DEF Enqueue, Push, TypeOK, b
    <3>2. QED
      BY <1>1, <1>2, <2>1, <3>1 DEF InStock
  <2>4. QED
    BY <2>2, <2>3
<1>5. CASE EnqueueAfterWait(p)
  <2>0. p \notin Direct /\ producer[p] = "woken"
    BY <1>0, <1>5 DEF EnqueueAfterWait, DirectNeverWaits
  <2>1. producer' = [producer EXCEPT ![p] = "announce"] /\ Pending(q)' = Pending(q)
    BY <1>5 DEF EnqueueAfterWait, Push, Pending
  <2>2. Cardinality(Woken(q)') = IF q = b THEN Cardinality(Woken(q)) - 1
                                 ELSE Cardinality(Woken(q))
    BY <1>0, <2>0, <2>1, WokenLeaves DEF b
  <2>3. size'[q] = IF q = b THEN size[q] + 1 ELSE size[q]
    BY <1>0, <1>5 DEF EnqueueAfterWait, Push, TypeOK, b
  <2>4. InStock(q)' = InStock(q)
    BY <1>0, <2>1, <2>2, <2>3, Sizes DEF InStock
  <2>5. QED
    BY <1>1, <1>2, <2>4
<1>6. CASE TimesOut(p) \/ Announce(p)
  <2>1. Woken(q)' = Woken(q)
    BY <1>0, <1>6, WokenUnchanged DEF TimesOut, Announce, setAvailable, notify, TypeOK
  <2>2. Pending(q)' = Pending(q) /\ size' = size
    BY <1>6 DEF TimesOut, Announce, setAvailable, notify, Pending
  <2>3. QED
    BY <1>1, <1>2, <2>1, <2>2 DEF InStock
<1>7. QED
  BY <1>3, <1>4, <1>5, <1>6 DEF ProducerStep

(* A pop leaves the stock as it is, and the notification turns the room    *)
(* into a woken producer, or is lost.                                      *)
LEMMA PopKeepsStock ==
    ASSUME TypeOK, NEW b \in QueueName, Pop(b), NEW q \in QueueName
    PROVE  InStock(q)' = InStock(q) /\ Woken(q)' = Woken(q)
<1>1. Woken(q)' = Woken(q)
  BY WokenUnchanged DEF Pop
<1>2. size'[q] = IF q = b THEN size[q] - 1 ELSE size[q]
  BY DEF Pop, TypeOK
<1>3. Pending(q) = 0 /\ Pending(q)' = IF q = b THEN 1 ELSE 0
  BY DEF Pop, Pending
<1>4. QED
  BY <1>1, <1>2, <1>3, Sizes DEF InStock

LEMMA NotifyStock ==
    ASSUME TypeOK, NotifyProducer, NEW q \in QueueName
    PROVE  /\ InStock(q)' <= InStock(q)
           /\ Blocked(q) # {} => InStock(q)' = InStock(q)
<1>0. size' = size /\ consumer = "notify" /\ consumer' = "work" /\ source' = source
  BY DEF NotifyProducer
<1>1. Pending(q) = (IF q = source THEN 1 ELSE 0) /\ Pending(q)' = 0
  BY <1>0 DEF Pending
<1>2. CASE Blocked(source) = {}
  <2>1. Woken(q)' = Woken(q)
    BY <1>2, WokenUnchanged DEF NotifyProducer, WakeOne
  <2>2. QED
    BY <1>0, <1>1, <1>2, <2>1, Sizes DEF InStock
<1>3. CASE Blocked(source) # {}
  <2>1. PICK p \in Blocked(source) : producer' = [producer EXCEPT ![p] = "woken"]
    BY <1>3 DEF NotifyProducer, WakeOne
  <2>2. source \in QueueName
    BY <2>1, QueueAssumption DEF Blocked, Waiters
  <2>3. Cardinality(Woken(q)') = IF q = source THEN Cardinality(Woken(q)) + 1
                                 ELSE Cardinality(Woken(q))
    BY <2>1, <2>2, WokenJoins
  <2>4. QED
    BY <1>0, <1>1, <2>3, Sizes DEF InStock
<1>4. QED
  BY <1>2, <1>3

(* The other steps of the consumer touch neither side of the balance,      *)
(* except that clear() empties a queue.                                    *)
QuietStep == \/ CheckForWork \/ FallAsleep \/ WaitTimesOut \/ LookAtEmptyQueue
             \/ LookWhetherEmpty \/ SetUnavailable \/ WorkEnds
LEMMA QuietKeepsStock ==
    ASSUME TypeOK, QuietStep, NEW q \in QueueName
    PROVE  InStock(q)' = InStock(q) /\ producer' = producer
<1>1. size' = size /\ producer' = producer
  BY DEF QuietStep, CheckForWork, hasWork, FallAsleep, WaitTimesOut, LookAtEmptyQueue,
         LookWhetherEmpty, SetUnavailable, WorkEnds
<1>2. Woken(q)' = Woken(q)
  BY <1>1, WokenUnchanged
<1>3. Pending(q)' = Pending(q)
  BY DEF QuietStep, CheckForWork, hasWork, FallAsleep, WaitTimesOut, LookAtEmptyQueue,
         LookWhetherEmpty, SetUnavailable, WorkEnds, Pending
<1>4. QED
  BY <1>1, <1>2, <1>3 DEF InStock

LEMMA ClearStock ==
    ASSUME TypeOK, Clear, NEW q \in QueueName
    PROVE  /\ InStock(q)' <= InStock(q)
           /\ q \notin Cleared => InStock(q)' = InStock(q)
           /\ producer' = producer
<1>1. Woken(q)' = Woken(q) /\ producer' = producer
  BY WokenUnchanged DEF Clear
<1>2. Pending(q)' = 0 /\ Pending(q) = 0
  BY DEF Clear, Pending
<1>3. size'[q] = (IF q = source THEN 0 ELSE size[q]) /\ source \in Cleared
  BY DEF Clear, TypeOK
<1>4. QED
  BY <1>1, <1>2, <1>3, Sizes DEF InStock

LEMMA StepBound == QInv /\ [Next]_vars => QInv'
<1> SUFFICES ASSUME QInv, [Next]_vars
             PROVE  QInv'
  OBVIOUS
<1>1. TypeOK /\ TypeOK' /\ DirectNeverWaits' /\ StockBounded
  BY StepTypes, StepDirect DEF QInv
<1>2. StockBounded'
  <2>1. CASE UNCHANGED vars
    BY <1>1, <2>1 DEF StockBounded, InStock, Woken, Waiters, Pending, Excess, vars
  <2>2. CASE \E p \in Producer : ProducerStep(p)
    BY <1>1, <2>2, ProducerBound
  <2>3. CASE ConsumerStep
    <3> SUFFICES ASSUME NEW q \in QueueName
                 PROVE  InStock(q)' <= (MaxQueueSize[q] + Excess(q))'
      BY DEF StockBounded
    <3>1. InStock(q) <= MaxQueueSize[q] + Excess(q) /\ Excess(q)' = Excess(q)
      BY <1>1, ExcessConstant DEF StockBounded
    <3>2. InStock(q)' <= InStock(q)
      <4>0. InStock(q) \in Nat
        BY <1>1, Sizes DEF InStock
      <4>1. CASE \E b \in QueueName : Pop(b)
        BY <1>1, <4>0, <4>1, PopKeepsStock
      <4>2. CASE NotifyProducer
        BY <1>1, <4>2, NotifyStock
      <4>3. CASE Clear
        BY <1>1, <4>3, ClearStock
      <4>4. CASE QuietStep
        BY <1>1, <4>0, <4>4, QuietKeepsStock
      <4>5. QED
        BY <2>3, <4>1, <4>2, <4>3, <4>4 DEF ConsumerStep, QuietStep
    <3>3. InStock(q) \in Nat /\ InStock(q)' \in Nat /\ Excess(q) \in Nat
          /\ MaxQueueSize[q] \in Nat
      <4>1. InStock(q) \in Nat
        BY <1>1, Sizes DEF InStock
      <4>2. IsFiniteSet(Woken(q)')
        <5>1. Woken(q)' \in SUBSET Waiters(q)
          BY DEF Woken, Waiters
        <5>2. QED
          BY <1>1, <5>1, Sizes, FS_Subset
      <4>3. Cardinality(Woken(q)') \in Nat
        BY <4>2, FS_CardinalityType
      <4>4. InStock(q)' \in Nat
        BY <1>1, <4>3 DEF InStock, TypeOK, Pending
      <4>5. QED
        BY <1>1, <4>1, <4>4, Sizes, ExcessNumber
    <3>4. QED
      BY <3>1, <3>2, <3>3
  <2>4. QED
    BY <2>1, <2>2, <2>3 DEF Next
<1>3. QED
  BY <1>1, <1>2 DEF QInv

LEMMA InitBound == Init => QInv
<1> SUFFICES ASSUME Init
             PROVE  QInv
  OBVIOUS
<1>1. TypeOK
  BY InitTypes
<1>2. DirectNeverWaits
  BY QueueAssumption DEF Init, DirectNeverWaits
<1>3. ASSUME NEW q \in QueueName
      PROVE  InStock(q) <= MaxQueueSize[q] + Excess(q)
  <2>1. Woken(q) = {}
    BY DEF Init, Woken, Waiters
  <2>2. Cardinality(Woken(q)) = 0
    BY <2>1, FS_EmptySet
  <2>3. InStock(q) = 0
    BY <2>2 DEF Init, InStock, Pending
  <2>4. QED
    BY <1>1, <2>3, Sizes, ExcessNumber
<1>4. QED
  BY <1>1, <1>2, <1>3 DEF QInv, StockBounded

LEMMA BoundImplies == QInv => QueueBounded
<1> SUFFICES ASSUME QInv, NEW q \in QueueName
             PROVE  size[q] <= MaxQueueSize[q] + Excess(q)
  BY DEF QueueBounded
<1>1. InStock(q) <= MaxQueueSize[q] + Excess(q) /\ TypeOK
  BY DEF QInv, StockBounded
<1>2. QED
  BY <1>1, Sizes, ExcessNumber DEF InStock

(* The types of queues, monitor, producers and consumer, for any number of *)
(* queues and producers (ObservedBlockingQueue, QueueMonitor).             *)
THEOREM QueueTypeCorrect == Spec => []TypeOK
<1>1. Init => TypeOK
  BY InitTypes
<1>2. TypeOK /\ [Next]_vars => TypeOK'
  BY StepTypes
<1>3. QED
  BY <1>1, <1>2, PTL DEF Spec

(* A queue outgrows its maximum by no more than the threads that can wait  *)
(* for it, and by two where enqueue is called (enqueueOnCondition,         *)
(* enqueue).                                                               *)
THEOREM ObservedQueueStaysBounded == Spec => []QueueBounded
<1>1. Init => QInv
  BY InitBound
<1>2. QInv /\ [Next]_vars => QInv'
  BY StepBound
<1>3. QInv => QueueBounded
  BY BoundImplies
<1>4. QED
  BY <1>1, <1>2, <1>3, PTL DEF Spec
-----------------------------------------------------------------------------
(* No producer waits in vain *)

LEMMA BlockedStays ==
    ASSUME TypeOK, NEW p \in Producer, NEW s, s # "blocked",
           producer' = [producer EXCEPT ![p] = s], NEW q \in QueueName
    PROVE  Blocked(q)' \subseteq Blocked(q)
  BY DEF Blocked, Waiters, TypeOK

LEMMA ProducerAwaited ==
    ASSUME QInv, BlockedProducersAwaited, NEW p \in Producer, ProducerStep(p)
    PROVE  BlockedProducersAwaited'
<1> DEFINE b == QueueOf[p]
<1>0. TypeOK /\ DirectNeverWaits /\ b \in QueueName
  BY QueueAssumption DEF QInv
<1> HIDE DEF b
<1> SUFFICES ASSUME NEW q \in QueueName \ Cleared, Blocked(q)' # {}
             PROVE  InStock(q)' >= MaxQueueSize[q]
  BY DEF BlockedProducersAwaited, InStock
<1>1. Blocked(q) # {} => InStock(q) >= MaxQueueSize[q]
  BY DEF BlockedProducersAwaited, InStock
<1>2. CASE TryEnqueue(p)
  <2>1. Woken(q)' = Woken(q) /\ Pending(q)' = Pending(q)
    BY <1>0, <1>2, WokenUnchanged DEF TryEnqueue, Push, TypeOK, Pending
  <2>2. CASE HasRoom(p)
    <3>1. Blocked(q) # {}
      BY <1>0, <1>2, <2>2, BlockedStays DEF TryEnqueue, Push
    <3>2. size'[q] >= size[q] /\ size'[q] \in Nat
      BY <1>0, <1>2, <2>2 DEF TryEnqueue, Push, TypeOK, b
    <3>3. QED
      BY <1>0, <1>1, <2>1, <3>1, <3>2, Sizes DEF InStock
  <2>3. CASE ~ HasRoom(p)
    <3>1. size' = size
      BY <1>2, <2>3 DEF TryEnqueue
    <3>2. CASE q = b
      <4>1. size[q] >= MaxQueueSize[q]
        BY <1>0, <2>3, <3>2, Sizes DEF HasRoom, b
      <4>2. QED
        BY <1>0, <2>1, <3>1, <4>1, Sizes DEF InStock
    <3>3. CASE q # b
      <4>1. Blocked(q)' = Blocked(q)
        BY <1>0, <1>2, <2>3, <3>3 DEF TryEnqueue, Blocked, Waiters, TypeOK, b
      <4>2. QED
        BY <1>1, <2>1, <3>1, <4>1 DEF InStock
    <3>4. QED
      BY <3>2, <3>3
  <2>4. QED
    BY <2>2, <2>3
<1>3. CASE Enqueue(p)
  <2>1. Woken(q)' = Woken(q) /\ Pending(q)' = Pending(q)
    BY <1>0, <1>3, WokenUnchanged DEF Enqueue, Push, TypeOK, Pending
  <2>2. Blocked(q) # {}
    BY <1>0, <1>3, BlockedStays DEF Enqueue, Push
  <2>3. size'[q] >= size[q] /\ size'[q] \in Nat
    BY <1>0, <1>3 DEF Enqueue, Push, TypeOK, b
  <2>4. QED
    BY <1>0, <1>1, <2>1, <2>2, <2>3, Sizes DEF InStock
<1>4. CASE EnqueueAfterWait(p)
  <2>1. p \notin Direct /\ producer[p] = "woken"
    BY <1>0, <1>4 DEF EnqueueAfterWait, DirectNeverWaits
  <2>2. producer' = [producer EXCEPT ![p] = "announce"] /\ Pending(q)' = Pending(q)
    BY <1>4 DEF EnqueueAfterWait, Push, Pending
  <2>3. Cardinality(Woken(q)') = IF q = b THEN Cardinality(Woken(q)) - 1
                                 ELSE Cardinality(Woken(q))
    BY <1>0, <2>1, <2>2, WokenLeaves DEF b
  <2>4. size'[q] = IF q = b THEN size[q] + 1 ELSE size[q]
    BY <1>0, <1>4 DEF EnqueueAfterWait, Push, TypeOK, b
  <2>5. InStock(q)' = InStock(q)
    BY <1>0, <2>2, <2>3, <2>4, Sizes DEF InStock
  <2>6. Blocked(q) # {}
    BY <1>0, <2>2, BlockedStays
  <2>7. QED
    BY <1>1, <2>5, <2>6
<1>5. CASE TimesOut(p) \/ Announce(p)
  <2>1. Woken(q)' = Woken(q)
    BY <1>0, <1>5, WokenUnchanged DEF TimesOut, Announce, setAvailable, notify, TypeOK
  <2>2. Pending(q)' = Pending(q) /\ size' = size
    BY <1>5 DEF TimesOut, Announce, setAvailable, notify, Pending
  <2>3. Blocked(q) # {}
    BY <1>0, <1>5, BlockedStays DEF TimesOut, Announce, setAvailable, notify
  <2>4. QED
    BY <1>1, <2>1, <2>2, <2>3 DEF InStock
<1>6. QED
  BY <1>2, <1>3, <1>4, <1>5 DEF ProducerStep

LEMMA ConsumerAwaited ==
    ASSUME QInv, BlockedProducersAwaited, ConsumerStep
    PROVE  BlockedProducersAwaited'
<1>0. TypeOK
  BY DEF QInv
<1> SUFFICES ASSUME NEW q \in QueueName \ Cleared, Blocked(q)' # {}
             PROVE  InStock(q)' >= MaxQueueSize[q]
  BY DEF BlockedProducersAwaited, InStock
<1>1. Blocked(q) # {} => InStock(q) >= MaxQueueSize[q]
  BY DEF BlockedProducersAwaited, InStock
<1>2. CASE NotifyProducer
  <2>1. Blocked(q) # {}
    BY <1>0, <1>2 DEF NotifyProducer, WakeOne, Blocked, Waiters, TypeOK
  <2>2. QED
    BY <1>0, <1>1, <1>2, <2>1, NotifyStock
<1>3. CASE (\E b \in QueueName : Pop(b)) \/ Clear \/ QuietStep
  <2>1. producer' = producer /\ InStock(q)' = InStock(q)
    <3>1. CASE \E b \in QueueName : Pop(b)
      BY <1>0, <3>1, PopKeepsStock DEF Pop
    <3>2. CASE Clear \/ QuietStep
      BY <1>0, <3>2, ClearStock, QuietKeepsStock
    <3>3. QED
      BY <1>3, <3>1, <3>2
  <2>2. Blocked(q)' = Blocked(q)
    BY <2>1 DEF Blocked, Waiters
  <2>3. QED
    BY <1>1, <2>1, <2>2
<1>4. QED
  BY <1>2, <1>3 DEF ConsumerStep, QuietStep

(* Nobody waits at a queue that has room nobody else is about to take or   *)
(* to announce, unless the queue is one that is cleared                    *)
(* (enqueueOnCondition, dequeue).                                          *)
THEOREM BlockedAreAwaited == Spec => []BlockedProducersAwaited
<1> DEFINE AInv == QInv /\ BlockedProducersAwaited
<1>1. Init => AInv
  <2> SUFFICES ASSUME Init
               PROVE  BlockedProducersAwaited
    BY InitBound
  <2>1. \A q \in QueueName : Blocked(q) = {}
    BY DEF Init, Blocked, Waiters
  <2>2. QED
    BY <2>1 DEF BlockedProducersAwaited
<1>2. AInv /\ [Next]_vars => AInv'
  <2> SUFFICES ASSUME AInv, [Next]_vars
               PROVE  BlockedProducersAwaited'
    BY StepBound
  <2>1. CASE UNCHANGED vars
    BY <2>1 DEF BlockedProducersAwaited, Blocked, Woken, Waiters, Pending, vars
  <2>2. QED
    BY <2>1, ProducerAwaited, ConsumerAwaited DEF Next
<1>3. QED
  BY <1>1, <1>2, PTL DEF Spec
-----------------------------------------------------------------------------
(* Priorities *)

LEMMA StepOvertaken ==
    ASSUME TypeOK, TypeOK', NextIsOvertaken, OvertakenOnce, [Next]_vars
    PROVE  NextIsOvertaken' /\ OvertakenOnce'
<1>1. CASE UNCHANGED vars
  BY <1>1 DEF NextIsOvertaken, OvertakenOnce, vars
<1>2. ASSUME NEW p \in Producer, ProducerStep(p)
      PROVE  NextIsOvertaken' /\ OvertakenOnce'
  <2>1. /\ \A q \in QueueName : size'[q] >= size[q]
        /\ overtaken' = overtaken /\ left' = left
        /\ consumer' = consumer \/ consumer = "waiting"
    BY <1>2, QueueAssumption DEF ProducerStep, TryEnqueue, Enqueue, EnqueueAfterWait, TimesOut,
       Announce, setAvailable, notify, Push, TypeOK
  <2>2. \A q \in QueueName : size[q] \in Nat /\ size'[q] \in Nat
    BY DEF TypeOK
  <2>3. QED
    BY <2>1, <2>2 DEF NextIsOvertaken, OvertakenOnce
<1>3. CASE LookAtEmptyQueue
  <2>1. PICK e \in QueueName :
           /\ ~ HasTask(e)
           /\ left' = IF left = {e} THEN QueueName ELSE left \ {e}
           /\ consumer' = IF left = {e} THEN "check" ELSE "scan"
    BY <1>3 DEF LookAtEmptyQueue
  <2>2. size' = size /\ overtaken' = overtaken
    BY <1>3 DEF LookAtEmptyQueue
  <2>3. ASSUME NEW q \in QueueName, overtaken[q] = 1
        PROVE  size[q] > 0 /\ q \in left'
    <3>1. size[q] > 0 /\ q \in left
      BY <2>3 DEF NextIsOvertaken
    <3>2. q # e
      BY <2>1, <3>1 DEF HasTask
    <3>3. QED
      BY <2>1, <3>1, <3>2
  <2>4. consumer' # "scan" => left' = QueueName
    BY <2>1
  <2>5. QED
    BY <2>2, <2>3, <2>4 DEF NextIsOvertaken, OvertakenOnce
<1>4. ASSUME NEW b \in QueueName, Pop(b)
      PROVE  NextIsOvertaken' /\ OvertakenOnce'
  <2>1. left' = QueueName /\ consumer = "scan" /\ NextToLookAt(b)
    BY <1>4 DEF Pop
  <2>2. ASSUME NEW h \in QueueName
        PROVE  overtaken'[h] <= 1 /\ (overtaken'[h] = 1 => size'[h] > 0)
    <3>1. overtaken[h] \in {0, 1}
      BY DEF OvertakenOnce, TypeOK
    <3>2. CASE h = b
      BY <1>4, <3>2 DEF Pop
    <3>3. CASE h # b /\ overtaken[h] = 1
      <4>1. ~ Higher(h, b)
        BY <2>1, <3>3 DEF NextIsOvertaken, NextToLookAt
      <4>2. overtaken'[h] = overtaken[h] /\ size'[h] = size[h]
        BY <1>4, <3>3, <4>1 DEF Pop, TypeOK
      <4>3. QED
        BY <3>3, <4>2 DEF NextIsOvertaken
    <3>4. CASE h # b /\ overtaken[h] = 0
      <4>1. size'[h] = size[h]
        BY <1>4, <3>4 DEF Pop, TypeOK
      <4>2. overtaken'[h] = IF Higher(h, b) /\ size[h] > 0 THEN 1 ELSE 0
        BY <1>4, <3>4 DEF Pop
      <4>3. QED
        BY <4>1, <4>2
    <3>5. QED
      BY <3>1, <3>2, <3>3, <3>4
  <2>3. QED
    BY <2>1, <2>2 DEF NextIsOvertaken, OvertakenOnce
<1>5. CASE Clear
  <2>1. consumer = "work" /\ left' = left
    BY <1>5 DEF Clear
  <2>2. ASSUME NEW q \in QueueName
        PROVE  overtaken'[q] <= 1 /\ (overtaken'[q] = 1 => size'[q] > 0 /\ q \in left')
    <3>1. CASE q = source
      <4>1. overtaken'[q] = 0
        BY <1>5, <3>1 DEF Clear, TypeOK
      <4>2. QED
        BY <4>1
    <3>2. CASE q # source
      <4>1. overtaken'[q] = overtaken[q] /\ size'[q] = size[q]
        BY <1>5, <3>2 DEF Clear, TypeOK
      <4>2. QED
        BY <2>1, <4>1 DEF NextIsOvertaken, OvertakenOnce
    <3>3. QED
      BY <3>1, <3>2
  <2>3. consumer' # "scan" => left' = QueueName
    BY <2>1 DEF NextIsOvertaken
  <2>4. QED
    BY <2>2, <2>3 DEF NextIsOvertaken, OvertakenOnce
<1>6. CASE CheckForWork \/ FallAsleep \/ WaitTimesOut \/ LookWhetherEmpty \/ SetUnavailable
           \/ NotifyProducer \/ WorkEnds
  BY <1>6 DEF NextIsOvertaken, OvertakenOnce, CheckForWork, hasWork, FallAsleep, WaitTimesOut,
     LookWhetherEmpty, SetUnavailable, NotifyProducer, WorkEnds
<1>7. QED
  BY <1>1, <1>2, <1>3, <1>4, <1>5, <1>6 DEF Next, ConsumerStep

(* Of the tasks of a lower priority no more than one overtakes a task that *)
(* waits, for any number of queues (QueueMonitor::dequeue, addSource).     *)
THEOREM PriorityKept == Spec => []OvertakenOnce
<1> DEFINE OInv == TypeOK /\ NextIsOvertaken /\ OvertakenOnce
<1>1. Init => OInv
  BY InitTypes DEF Init, NextIsOvertaken, OvertakenOnce
<1>2. OInv /\ [Next]_vars => OInv'
  BY StepTypes, StepOvertaken
<1>3. QED
  BY <1>1, <1>2, PTL DEF Spec
=============================================================================
