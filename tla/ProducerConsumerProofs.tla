----------------------- MODULE ProducerConsumerProofs -----------------------
(***************************************************************************)
(* Proofs about ProducerConsumer for any number of threads, any QUEUESIZE  *)
(* and any WORK_MAX, when the counters start at zero.                      *)
(***************************************************************************)
EXTENDS ProducerConsumer, TLAPS

\* The invariants the run checks are inductive together, not one by one: that
\* full and empty tell the number of items is needed to know that a broadcast
\* reached every thread that may go on, and both need the mutex.
IInv == /\ TypeOK
        /\ MutexInv
        /\ RingInv
        /\ ContentInv
        /\ NoLostWakeup
        /\ ExitInv

-----------------------------------------------------------------------------
(***************************************************************************)
(* The circular array.                                                     *)
(***************************************************************************)
\* queueAdd() (lines 110-141) field by field.
LEMMA QueueAddFields ==
  ASSUME NEW q \in Queue, NEW in \in Int
  PROVE  /\ queueAdd(q, in) \in Queue
         /\ queueAdd(q, in).buf = [q.buf EXCEPT ![q.tail] = in]
         /\ queueAdd(q, in).head = q.head
         /\ queueAdd(q, in).tail = Following(q.tail)
         /\ queueAdd(q, in).full = IF Following(q.tail) = q.head THEN 1 ELSE q.full
         /\ queueAdd(q, in).empty = 0
BY SizeAssumption DEF queueAdd, Queue, Following, Slots

\* queueRemove() (lines 143-172) field by field.
LEMMA QueueRemoveFields ==
  ASSUME NEW q \in Queue
  PROVE  /\ queueRemove(q) \in Queue
         /\ queueRemove(q).buf = q.buf
         /\ queueRemove(q).head = Following(q.head)
         /\ queueRemove(q).tail = q.tail
         /\ queueRemove(q).empty = IF Following(q.head) = q.tail THEN 1 ELSE q.empty
         /\ queueRemove(q).full = 0
BY SizeAssumption DEF queueRemove, Queue, Following, Slots

\* Moving head by one and counting from there is counting one further.
LEMMA AfterFollowing ==
  ASSUME NEW h \in Slots, NEW i \in Slots
  PROVE  /\ After(Following(h), i) = After(h, i + 1)
         /\ Following(After(h, i)) = After(h, i + 1)
         /\ After(h, i) \in Slots
         /\ Following(After(h, i)) = h <=> i + 1 = QUEUESIZE
         /\ Following(h) = After(h, i + 1) <=> i = 0
BY SizeAssumption DEF After, Following, Slots

\* Two places of the queue are two slots of the array.
LEMMA AfterDistinct ==
  ASSUME NEW h \in Slots, NEW i \in Slots, NEW j \in Slots, i # j
  PROVE  After(h, i) # After(h, j)
BY SizeAssumption DEF After, Slots

-----------------------------------------------------------------------------
\* After queueInit() and two zeroed counters the invariant holds.
LEMMA InitIInv == ASSUME ZeroedHeap, Init PROVE IInv
<1> USE SizeAssumption, WorkAssumption, ThreadsAssumption
<1>1. PICK memory \in [Slots -> HeapInts] : fifo = queueInit(memory)
  BY DEF Init
<1>2. /\ fifo \in Queue
      /\ fifo.head = 0 /\ fifo.tail = 0 /\ fifo.full = 0 /\ fifo.empty = 1
  BY <1>1 DEF ZeroedHeap, queueInit, Queue, Slots
<1>3. procount = 0 /\ concount = 0
  BY DEF ZeroedHeap, Init
<1>4. TypeOK
  BY <1>2, <1>3 DEF Init, TypeOK, Labels
<1>5. MutexInv
  BY DEF Init, MutexInv, Critical
<1>6. RingInv
  BY <1>2, <1>3 DEF RingInv, InQueue, Place, After
<1>7. ContentInv
  BY <1>3 DEF ContentInv, InQueue, Slots
<1>8. NoLostWakeup /\ ExitInv
  BY DEF Init, NoLostWakeup, ExitInv, Threads
<1> QED BY <1>4, <1>5, <1>6, <1>7, <1>8 DEF IInv

\* A step that leaves the array, its counters and so its content alone.
LEMMA RingUnchanged ==
  ASSUME IInv, UNCHANGED <<fifo, procount, concount>>
  PROVE  RingInv' /\ ContentInv'
BY DEF IInv, RingInv, ContentInv, InQueue, Place

\* pthread_mutex_lock, and the return of pthread_cond_wait.
LEMMA LockStep ==
  ASSUME IInv, NEW t \in Threads, Lock(t)
  PROVE  IInv'
<1> USE ThreadsAssumption DEF IInv, Lock, goto
<1>1. TypeOK'
  BY DEF TypeOK, Labels
<1>2. MutexInv'
  BY DEF TypeOK, MutexInv, Critical, Threads
<1>3. RingInv' /\ ContentInv'
  BY RingUnchanged
<1>4. NoLostWakeup'
  BY DEF TypeOK, NoLostWakeup, MutexInv, Critical, Threads
<1>5. ExitInv'
  BY DEF TypeOK, ExitInv, Threads
<1> QED BY <1>1, <1>2, <1>3, <1>4, <1>5

\* The two places that release the mutex outside a condition variable.
LEMMA UnlockStep ==
  ASSUME IInv, NEW t \in Threads, Unlock(t) \/ Exit(t)
  PROVE  IInv'
<1> USE ThreadsAssumption DEF IInv, Unlock, Exit, goto
<1>1. TypeOK'
  BY DEF TypeOK, Labels
<1>2. MutexInv'
  BY DEF TypeOK, MutexInv, Critical, Threads
<1>3. RingInv' /\ ContentInv'
  BY RingUnchanged
<1>4. NoLostWakeup'
  BY DEF TypeOK, NoLostWakeup, Threads
<1>5. ExitInv'
  BY DEF TypeOK, ExitInv, Threads
<1> QED BY <1>1, <1>2, <1>3, <1>4, <1>5

\* A thread that wakes without a broadcast only leaves the blocked set.
LEMMA SpuriousStep ==
  ASSUME IInv, NEW t \in Threads, SpuriousWake(t)
  PROVE  IInv'
<1> USE ThreadsAssumption DEF IInv, SpuriousWake
<1>1. TypeOK'
  BY DEF TypeOK
<1>2. MutexInv'
  BY DEF TypeOK, MutexInv
<1>3. RingInv' /\ ContentInv'
  BY RingUnchanged
<1>4. NoLostWakeup' /\ ExitInv'
  BY DEF TypeOK, NoLostWakeup, ExitInv
<1> QED BY <1>1, <1>2, <1>3, <1>4

-----------------------------------------------------------------------------
(***************************************************************************)
(* The steps of a producer.                                                *)
(***************************************************************************)
\* Going to sleep on notFull, or leaving the loop.
LEMMA ProducerQuietStep ==
  ASSUME IInv, NEW p \in Producers,
         ProducerWait(p) \/ ProducerBreak(p) \/ ProducerBroadcast(p)
  PROVE  IInv'
<1> USE ThreadsAssumption, WorkAssumption
        DEF IInv, ProducerWait, ProducerBreak, ProducerBroadcast, ProducerMustWait, goto
<1>1. TypeOK'
  BY DEF TypeOK, Labels, Threads
<1>2. MutexInv'
  BY DEF TypeOK, MutexInv, Critical, Threads
<1>3. RingInv' /\ ContentInv'
  BY RingUnchanged
<1>4. procount <= WORK_MAX /\ procount \in Int
  BY DEF TypeOK, RingInv
<1>5. NoLostWakeup'
  BY <1>4 DEF TypeOK, NoLostWakeup, Threads
<1>6. ExitInv'
  BY <1>4 DEF TypeOK, ExitInv, Threads
<1> QED BY <1>1, <1>2, <1>3, <1>5, <1>6

\* Adding an item: the only step that moves tail.
LEMMA ProduceStep ==
  ASSUME IInv, NEW p \in Producers, Produce(p)
  PROVE  IInv'
<1> USE ThreadsAssumption, SizeAssumption, WorkAssumption
<1>1. /\ fifo \in Queue /\ fifo' \in Queue
      /\ fifo'.buf = [fifo.buf EXCEPT ![fifo.tail] = procount]
      /\ fifo'.head = fifo.head
      /\ fifo'.tail = Following(fifo.tail)
      /\ fifo'.full = IF Following(fifo.tail) = fifo.head THEN 1 ELSE fifo.full
      /\ fifo'.empty = 0
  BY QueueAddFields DEF IInv, TypeOK, Produce
<1>2. /\ procount \in Int /\ concount \in Int
      /\ procount' = procount + 1 /\ concount' = concount
      /\ procount < WORK_MAX /\ fifo.full # 1
  <2>1. /\ procount \in Int /\ concount \in Int /\ procount < WORK_MAX
        /\ procount' = procount + 1 /\ concount' = concount
    BY DEF IInv, TypeOK, Produce
  <2>2. procount # WORK_MAX
    BY <2>1
  <2> QED BY <2>1, <2>2, Zenon DEF Produce, ProducerMustWait
<1>3. fifo.head \in Slots /\ fifo.tail \in Slots
  BY <1>1 DEF Queue
<1>4. PICK n \in Int : /\ 0 <= concount /\ 0 <= n /\ n < QUEUESIZE
                       /\ fifo.tail = Place(n)
                       /\ n = procount - concount /\ n = InQueue
  BY <1>2, <1>3 DEF IInv, RingInv, InQueue
<1>5. /\ pc' = [pc EXCEPT ![p] = "broadcast"]
      /\ item' = [item EXCEPT ![p] = procount]
      /\ mutex' = mutex /\ main' = main
      /\ notFull' = notFull /\ notEmpty' = notEmpty
      /\ pc[p] = "test" /\ p \in Threads
  BY DEF Produce, goto, Threads
<1>6. TypeOK'
  <2>1. fifo' \in Queue
    BY <1>1
  <2> QED BY <1>2, <1>5, <2>1 DEF IInv, TypeOK, Labels
<1>11. MutexInv'
  BY <1>5 DEF IInv, TypeOK, MutexInv, Critical
<1>7. RingInv'
  <2>1. n \in Slots /\ n + 1 = InQueue'
    BY <1>2, <1>4 DEF Slots, InQueue
  <2>2. /\ Following(After(fifo.head, n)) = After(fifo.head, n + 1)
        /\ Following(After(fifo.head, n)) = fifo.head <=> n + 1 = QUEUESIZE
    BY <1>3, <2>1, AfterFollowing
  <2>3. /\ fifo'.tail = Place(n + 1)'
        /\ Following(fifo.tail) = fifo.head <=> n + 1 = QUEUESIZE
    BY <1>1, <1>4, <2>2 DEF Place
  <2> QED BY <1>1, <1>2, <1>4, <2>1, <2>3 DEF RingInv
<1>8. ContentInv'
  <2> SUFFICES ASSUME NEW i \in Slots, i < n + 1
               PROVE  fifo'.buf[Place(i)] = concount + i
    BY <1>1, <1>2, <1>4 DEF ContentInv, InQueue, Place
  <2>1. fifo.buf \in [Slots -> Int] /\ n \in Slots
    BY <1>1, <1>2, <1>4 DEF Queue, Slots
  <2>2. CASE i = n
    BY <1>1, <1>2, <1>3, <1>4, <2>1, <2>2
  <2>3. CASE i # n
    <3>1. Place(i) # Place(n) /\ Place(i) \in Slots
      BY <1>3, <2>1, <2>3, AfterDistinct, AfterFollowing DEF Place
    <3>2. fifo.buf[Place(i)] = concount + i
      BY <1>2, <1>4, <2>3 DEF IInv, ContentInv, Slots
    <3> QED BY <1>1, <1>4, <2>1, <3>1, <3>2
  <2> QED BY <2>2, <2>3
<1>9. NoLostWakeup'
  <2>1. pc'[p] = "broadcast" /\ \A c \in Consumers : pc'[c] = pc[c]
    BY <1>5 DEF IInv, TypeOK, Threads
  <2>2. notFull = {} \/ \E c \in Consumers : pc[c] = "broadcast"
    BY <1>2, Zenon DEF IInv, NoLostWakeup
  <2> QED BY <1>5, <2>1, <2>2 DEF NoLostWakeup
<1>10. ExitInv'
  <2>1. \A t \in Threads : pc'[t] \in {"exit", "done"} => pc[t] \in {"exit", "done"}
    BY <1>5 DEF IInv, TypeOK
  <2> QED BY <1>2, <2>1 DEF IInv, ExitInv, Threads
<1> QED BY <1>6, <1>7, <1>8, <1>9, <1>10, <1>11 DEF IInv

-----------------------------------------------------------------------------
(***************************************************************************)
(* The steps of a consumer.                                                *)
(***************************************************************************)
\* Going to sleep on notEmpty, or leaving the loop.
LEMMA ConsumerQuietStep ==
  ASSUME IInv, NEW c \in Consumers,
         ConsumerWait(c) \/ ConsumerBreak(c) \/ ConsumerBroadcast(c)
  PROVE  IInv'
<1> USE ThreadsAssumption, WorkAssumption
        DEF IInv, ConsumerWait, ConsumerBreak, ConsumerBroadcast, ConsumerMustWait, goto
<1>1. TypeOK'
  BY DEF TypeOK, Labels, Threads
<1>2. MutexInv'
  BY DEF TypeOK, MutexInv, Critical, Threads
<1>3. RingInv' /\ ContentInv'
  BY RingUnchanged
<1>4. concount <= WORK_MAX /\ concount \in Int
  BY DEF TypeOK, RingInv, InQueue
<1>5. NoLostWakeup'
  BY <1>4 DEF TypeOK, NoLostWakeup, Threads
<1>6. ExitInv'
  BY <1>4 DEF TypeOK, ExitInv, Threads
<1> QED BY <1>1, <1>2, <1>3, <1>5, <1>6

\* Taking an item: the only step that moves head.
LEMMA ConsumeStep ==
  ASSUME IInv, NEW c \in Consumers, Consume(c)
  PROVE  IInv'
<1> USE ThreadsAssumption, SizeAssumption, WorkAssumption
<1>1. /\ fifo \in Queue /\ fifo' \in Queue
      /\ fifo'.buf = fifo.buf
      /\ fifo'.head = Following(fifo.head)
      /\ fifo'.tail = fifo.tail
      /\ fifo'.empty = IF Following(fifo.head) = fifo.tail THEN 1 ELSE fifo.empty
      /\ fifo'.full = 0
  BY QueueRemoveFields DEF IInv, TypeOK, Consume
<1>2. /\ procount \in Int /\ concount \in Int /\ concount < WORK_MAX
      /\ procount' = procount /\ concount' = concount + 1
      /\ fifo.empty # 1
  BY DEF IInv, TypeOK, Consume, ConsumerMustWait
<1>3. fifo.head \in Slots /\ fifo.tail \in Slots /\ fifo.buf \in [Slots -> Int]
  BY <1>1 DEF Queue
<1>4. PICK n \in Int : /\ 0 <= concount /\ procount <= WORK_MAX
                       /\ 0 < n /\ n <= QUEUESIZE
                       /\ fifo.tail = Place(n)
                       /\ n = procount - concount /\ n = InQueue
  BY <1>2, <1>3 DEF IInv, RingInv, InQueue
<1>5. /\ pc' = [pc EXCEPT ![c] = "broadcast"]
      /\ item' = [item EXCEPT ![c] = fifo.buf[fifo.head]]
      /\ mutex' = mutex /\ main' = main
      /\ notFull' = notFull /\ notEmpty' = notEmpty
      /\ pc[c] = "test" /\ c \in Threads
  BY DEF Consume, goto, Threads
<1>6. TypeOK'
  <2>1. fifo.buf[fifo.head] \in Int /\ fifo' \in Queue
    BY <1>1, <1>3
  <2> QED BY <1>2, <1>5, <2>1 DEF IInv, TypeOK, Labels
<1>7. MutexInv'
  BY <1>5 DEF IInv, TypeOK, MutexInv, Critical
<1>8. RingInv'
  <2>1. n - 1 \in Slots /\ (n - 1) + 1 = n /\ n - 1 = InQueue'
    BY <1>2, <1>4 DEF Slots, InQueue
  <2>2. /\ fifo'.tail = Place(n - 1)'
        /\ Following(fifo.head) = fifo.tail <=> n - 1 = 0
    BY <1>1, <1>3, <1>4, <2>1, AfterFollowing DEF Place
  <2> QED BY <1>1, <1>2, <1>4, <2>1, <2>2 DEF RingInv
<1>9. ContentInv'
  <2> SUFFICES ASSUME NEW i \in Slots, i < n - 1
               PROVE  fifo'.buf[Place(i)'] = concount + 1 + i
    BY <1>1, <1>2, <1>4 DEF ContentInv, InQueue, Place
  <2>1. Place(i)' = Place(i + 1)
    BY <1>1, <1>3, AfterFollowing DEF Place
  <2>2. i + 1 \in Slots /\ i + 1 < n
    BY <1>2, <1>4 DEF Slots
  <2> QED BY <1>1, <1>2, <1>4, <2>1, <2>2 DEF IInv, ContentInv, Slots
<1>10. NoLostWakeup'
  <2>1. pc'[c] = "broadcast" /\ \A p \in Producers : pc'[p] = pc[p]
    BY <1>5 DEF IInv, TypeOK, Threads
  <2>2. notEmpty = {} \/ \E p \in Producers : pc[p] = "broadcast"
    BY <1>2 DEF IInv, NoLostWakeup
  <2> QED BY <1>5, <2>1, <2>2 DEF NoLostWakeup
<1>11. ExitInv'
  <2>1. \A t \in Threads : pc'[t] \in {"exit", "done"} => pc[t] \in {"exit", "done"}
    BY <1>5 DEF IInv, TypeOK
  <2> QED BY <1>2, <2>1 DEF IInv, ExitInv, Threads
<1> QED BY <1>6, <1>7, <1>8, <1>9, <1>10, <1>11 DEF IInv

-----------------------------------------------------------------------------
\* main() creating a thread, joining, returning.
LEMMA MainSteps ==
  ASSUME IInv, MainStep
  PROVE  IInv'
<1> USE ThreadsAssumption
        DEF IInv, MainStep, Create, StartJoining, ProducersJoined, ConsumersJoined, goto
<1>1. TypeOK'
  BY DEF TypeOK, Labels
<1>2. MutexInv'
  BY DEF TypeOK, MutexInv, Critical, Threads
<1>3. RingInv' /\ ContentInv'
  BY RingUnchanged
<1>4. NoLostWakeup'
  BY DEF TypeOK, NoLostWakeup, Threads
<1>5. ExitInv'
  BY DEF TypeOK, ExitInv, Threads
<1> QED BY <1>1, <1>2, <1>3, <1>4, <1>5

\* Every step preserves the invariant.
LEMMA NextIInv == ASSUME IInv, [Next]_vars PROVE IInv'
<1>1. ASSUME NEW t \in Threads, SharedStep(t) \/ SpuriousWake(t) PROVE IInv'
  BY <1>1, LockStep, UnlockStep, SpuriousStep DEF SharedStep
<1>2. ASSUME NEW p \in Producers, ProducerStep(p) PROVE IInv'
  BY <1>2, ProducerQuietStep, ProduceStep DEF ProducerStep
<1>3. ASSUME NEW c \in Consumers, ConsumerStep(c) PROVE IInv'
  BY <1>3, ConsumerQuietStep, ConsumeStep DEF ConsumerStep
<1>4. ASSUME MainStep PROVE IInv'
  BY <1>4, MainSteps
<1>5. ASSUME UNCHANGED vars PROVE IInv'
  <2>1. MutexInv' /\ NoLostWakeup' /\ ExitInv' /\ TypeOK'
    BY <1>5 DEF IInv, vars, TypeOK, MutexInv, NoLostWakeup, ExitInv
  <2> QED BY <1>5, <2>1, RingUnchanged DEF IInv, vars
<1> QED BY <1>1, <1>2, <1>3, <1>4, <1>5 DEF Next, Terminated

\* The inductive invariant holds throughout.
LEMMA SpecIInv == ASSUME ZeroedHeap PROVE Spec => []IInv
<1>1. Init => IInv
  BY InitIInv
<1>2. IInv /\ [Next]_vars => IInv'
  BY NextIInv
<1> QED BY <1>1, <1>2, PTL DEF Spec

\* Types and ranges, for any number of threads and any QUEUESIZE.
THEOREM TypeCorrect == ASSUME ZeroedHeap PROVE Spec => []TypeOK
<1>1. IInv => TypeOK
  BY DEF IInv
<1> QED BY <1>1, SpecIInv, PTL

\* Only the owner of the mutex is between lock and unlock.
THEOREM MutexCorrect == ASSUME ZeroedHeap PROVE Spec => []MutexInv
<1>1. IInv => MutexInv
  BY DEF IInv
<1> QED BY <1>1, SpecIInv, PTL

\* The flags, indices and contents of the circular array (queueAdd() and
\* queueRemove()) are those of a queue of InQueue items.
THEOREM RingCorrect == ASSUME ZeroedHeap PROVE Spec => [](RingInv /\ ContentInv)
<1>1. IInv => RingInv /\ ContentInv
  BY DEF IInv
<1> QED BY <1>1, SpecIInv, PTL

\* No wakeup of pthread_cond_wait is lost, spurious ones included.
THEOREM WakeupsCorrect == ASSUME ZeroedHeap PROVE Spec => []NoLostWakeup
<1>1. IInv => NoLostWakeup
  BY DEF IInv
<1> QED BY <1>1, SpecIInv, PTL

\* The producers and consumers never all sleep: a blocked consumer means an
\* empty array with work left, hence a producer that is neither finished nor,
\* as the array is not full, blocked; and the other way round.
THEOREM StallFree == ASSUME ZeroedHeap PROVE Spec => []NoStall
<1>1. ASSUME IInv PROVE NoStall
  <2> SUFFICES ASSUME \A t \in Threads : Blocked(t) \/ pc[t] = "done"
               PROVE  notFull = {} /\ notEmpty = {}
    BY DEF NoStall, Blocked
  <2>1. /\ procount \in Int /\ concount \in Int
        /\ notFull \subseteq Producers /\ notEmpty \subseteq Consumers
    BY <1>1 DEF IInv, TypeOK
  <2>2. \A t \in Threads : pc[t] # "broadcast"
    BY <1>1 DEF IInv, MutexInv, Blocked
  <2>3. /\ notEmpty # {} => InQueue = 0 /\ concount < WORK_MAX
        /\ notFull # {} => InQueue = QUEUESIZE /\ procount < WORK_MAX
    BY <1>1, <2>2 DEF IInv, NoLostWakeup, RingInv, Threads
  <2>4. /\ notFull = {} => procount = WORK_MAX
        /\ notEmpty = {} => concount = WORK_MAX
    BY <1>1, <2>1, ThreadsAssumption DEF IInv, ExitInv, Blocked, Threads
  <2>5. InQueue = procount - concount /\ procount <= WORK_MAX
    BY <1>1 DEF InQueue, IInv, RingInv
  <2> QED BY <2>1, <2>3, <2>4, <2>5, SizeAssumption, WorkAssumption
<1> QED BY <1>1, SpecIInv, PTL

-----------------------------------------------------------------------------
(***************************************************************************)
(* The circular array implements the abstract FIFO.                        *)
(***************************************************************************)
\* What is in the queue is the run of numbers from concount to procount - 1.
RunInv == /\ InQueue \in Nat /\ InQueue <= QUEUESIZE
          /\ procount \in Int /\ concount \in Int /\ InQueue = procount - concount
          /\ Content = [i \in 1 .. InQueue |-> concount + i - 1]

\* RingInv and ContentInv say so slot by slot.
LEMMA ContentIsRun == IInv => RunInv
<1> SUFFICES ASSUME IInv PROVE RunInv
  OBVIOUS
<1>1. /\ InQueue \in Nat /\ InQueue <= QUEUESIZE
      /\ procount \in Int /\ concount \in Int /\ InQueue = procount - concount
  BY DEF IInv, TypeOK, RingInv, InQueue
<1>2. ASSUME NEW i \in 1 .. InQueue
      PROVE  fifo.buf[Place(i - 1)] = concount + i - 1
  <2>1. i - 1 \in Slots /\ i - 1 < InQueue
    BY <1>1, SizeAssumption DEF Slots
  <2> QED BY <1>1, <2>1 DEF IInv, ContentInv
<1> QED BY <1>1, <1>2 DEF RunInv, Content

\* queueInit() is the empty buffer.
LEMMA InitBuffer == ASSUME ZeroedHeap, Init PROVE Buffer!Init
<1>1. procount = 0 /\ concount = 0
  BY DEF ZeroedHeap, Init
<1>2. Content = << >>
  BY <1>1 DEF Content, InQueue
<1>3. [c \in Consumers |-> item[c]] = [c \in Consumers |-> -1]
  BY DEF Init, Threads
<1> QED BY <1>1, <1>2, <1>3 DEF Buffer!Init

\* queueAdd() by a producer appends the next number.
LEMMA ProducePuts ==
  ASSUME IInv, RunInv, RunInv', NEW p \in Producers, Produce(p)
  PROVE  Buffer!Put
<1>1. /\ procount < WORK_MAX /\ fifo.full # 1
      /\ procount' = procount + 1 /\ concount' = concount
  BY WorkAssumption DEF IInv, TypeOK, Produce, ProducerMustWait
<1>2. PICK n \in Nat : n = InQueue
  BY DEF RunInv
<1>3. n < QUEUESIZE
  BY <1>1, <1>2, SizeAssumption DEF IInv, RingInv, RunInv
<1>4. InQueue' = n + 1
  BY <1>1, <1>2 DEF RunInv, InQueue
<1>5. /\ Content = [i \in 1 .. n |-> concount + i - 1]
      /\ Content' = [i \in 1 .. n + 1 |-> concount + i - 1]
      /\ procount = concount + n /\ procount \in Int /\ concount \in Int
  BY <1>1, <1>2, <1>4 DEF RunInv
<1>6. Len(Content) = n /\ Content' = Append(Content, procount)
  BY <1>2, <1>5
<1>7. [c \in Consumers |-> item[c]]' = [c \in Consumers |-> item[c]]
  BY ThreadsAssumption DEF Produce, IInv, TypeOK, Threads
<1> QED BY <1>1, <1>3, <1>6, <1>7 DEF Buffer!Put

\* The item queueRemove() hands out is the one with the lowest number.
LEMMA OldestItem ==
  ASSUME IInv, NEW c \in Consumers, Consume(c)
  PROVE  fifo.buf[fifo.head] = concount
<1>1. 0 \in Slots /\ fifo.head \in Slots /\ concount \in Int
  BY SizeAssumption DEF Slots, IInv, TypeOK, Queue
<1>2. 0 < InQueue
  <2>1. InQueue \in Int /\ 0 <= InQueue /\ InQueue # 0
    BY WorkAssumption
       DEF IInv, TypeOK, RingInv, InQueue, Consume, ConsumerMustWait
  <2> QED BY <2>1
<1>3. Place(0) = fifo.head
  BY <1>1, SizeAssumption DEF Place, After, Slots
<1> QED BY <1>1, <1>2, <1>3 DEF IInv, ContentInv

\* queueRemove() by a consumer hands it the oldest number.
LEMMA ConsumeGets ==
  ASSUME IInv, RunInv, RunInv', NEW c \in Consumers, Consume(c)
  PROVE  Buffer!Get(c)
<1>1. /\ fifo.empty # 1
      /\ procount' = procount /\ concount' = concount + 1
      /\ item' = [item EXCEPT ![c] = fifo.buf[fifo.head]]
  BY WorkAssumption DEF IInv, TypeOK, Consume, ConsumerMustWait
<1>2. PICK n \in Nat : n = InQueue
  BY DEF RunInv
<1>3. n > 0 /\ InQueue' = n - 1
  BY <1>1, <1>2 DEF RunInv, IInv, RingInv, InQueue
<1>4. /\ Content = [i \in 1 .. n |-> concount + i - 1]
      /\ Content' = [i \in 1 .. n - 1 |-> concount + 1 + i - 1]
      /\ concount \in Int
  BY <1>1, <1>2, <1>3 DEF RunInv
<1>5. Content # << >> /\ Content' = Tail(Content) /\ Head(Content) = concount
  BY <1>2, <1>3, <1>4
<1>6. fifo.buf[fifo.head] = concount
  BY OldestItem
<1>7. [d \in Consumers |-> item[d]]'
        = [[d \in Consumers |-> item[d]] EXCEPT ![c] = Head(Content)]
  BY <1>1, <1>5, <1>6 DEF IInv, TypeOK, Threads
<1> QED BY <1>1, <1>5, <1>7 DEF Buffer!Get

\* No other step is visible through the buffer.
LEMMA QuietIsStutter ==
  ASSUME UNCHANGED <<fifo, procount, concount, item>>
  PROVE  UNCHANGED Buffer!vars
BY DEF Buffer!vars, Content, InQueue, Place

\* Producers and consumers of any number see a FIFO buffer of QUEUESIZE items:
\* no item lost, doubled, or out of order.
THEOREM Refinement == ASSUME ZeroedHeap PROVE Spec => ImplementsBuffer
<1>1. Init => Buffer!Init
  BY InitBuffer
<1>2. ASSUME IInv, RunInv, RunInv', [Next]_vars PROVE [Buffer!Next]_(Buffer!vars)
  <2>1. ASSUME NEW p \in Producers, ProducerStep(p)
        PROVE  [Buffer!Next]_(Buffer!vars)
    BY <1>2, <2>1, ProducePuts, QuietIsStutter
       DEF ProducerStep, ProducerWait, ProducerBreak, ProducerBroadcast, Buffer!Next
  <2>2. ASSUME NEW c \in Consumers, ConsumerStep(c)
        PROVE  [Buffer!Next]_(Buffer!vars)
    BY <1>2, <2>2, ConsumeGets, QuietIsStutter
       DEF ConsumerStep, ConsumerWait, ConsumerBreak, ConsumerBroadcast, Buffer!Next
  <2>3. ASSUME NEW t \in Threads, SharedStep(t) \/ SpuriousWake(t)
        PROVE  [Buffer!Next]_(Buffer!vars)
    BY <2>3, QuietIsStutter DEF SharedStep, Lock, Unlock, Exit, SpuriousWake
  <2>4. ASSUME MainStep PROVE [Buffer!Next]_(Buffer!vars)
    BY <2>4, QuietIsStutter
       DEF MainStep, Create, StartJoining, ProducersJoined, ConsumersJoined
  <2>5. ASSUME UNCHANGED vars PROVE [Buffer!Next]_(Buffer!vars)
    BY <2>5, QuietIsStutter DEF vars
  <2> QED BY <1>2, <2>1, <2>2, <2>3, <2>4, <2>5 DEF Next, Terminated
<1> QED BY <1>1, <1>2, SpecIInv, ContentIsRun, PTL DEF Spec, ImplementsBuffer, Buffer!Spec

-----------------------------------------------------------------------------
(***************************************************************************)
(* What the threads have done when main() returns.                         *)
(***************************************************************************)
\* The last number produced is still in the hands of who produced it, the last
\* one consumed in those of who consumed it; and joined threads are done.
JoinInv == /\ \E p \in Producers : item[p] = procount - 1
           /\ \E c \in Consumers : item[c] = concount - 1
           /\ main \in {"join_consumers", "done"} => \A p \in Producers : pc[p] = "done"
           /\ main = "done" => \A c \in Consumers : pc[c] = "done"

\* Nothing was produced or consumed, and the threads' items are -1.
LEMMA InitJoinInv == ASSUME ZeroedHeap, Init PROVE JoinInv
<1>1. procount = 0 /\ concount = 0
  BY DEF ZeroedHeap, Init
<1>2. /\ \E p \in Producers : item[p] = procount - 1
      /\ \E c \in Consumers : item[c] = concount - 1
  BY <1>1, ThreadsAssumption DEF Init, Threads
<1> QED BY <1>2 DEF Init, JoinInv

\* A step that hands nobody an item, of a thread that is not done or of main().
LEMMA JoinInvQuiet ==
  ASSUME IInv, JoinInv, UNCHANGED <<item, procount, concount>>,
         \A t \in Threads : pc[t] = "done" => pc'[t] = "done",
         \/ main' = main
         \/ ProducersJoined \/ ConsumersJoined
         \/ StartJoining
  PROVE  JoinInv'
<1>1. /\ \E p \in Producers : item'[p] = procount' - 1
      /\ \E c \in Consumers : item'[c] = concount' - 1
  BY DEF JoinInv
<1>2. main' \in {"join_consumers", "done"} => \A p \in Producers : pc[p] = "done"
  BY DEF JoinInv, ProducersJoined, ConsumersJoined, StartJoining
<1>3. main' = "done" => \A c \in Consumers : pc[c] = "done"
  BY DEF JoinInv, ProducersJoined, ConsumersJoined, StartJoining
<1> QED BY <1>1, <1>2, <1>3 DEF JoinInv, Threads

\* Every step preserves it.
LEMMA NextJoinInv == ASSUME IInv, JoinInv, [Next]_vars PROVE JoinInv'
<1> USE ThreadsAssumption
<1>1. pc \in [Threads -> Labels] /\ item \in [Threads -> Int]
      /\ procount \in Int /\ concount \in Int
  BY DEF IInv, TypeOK
<1>2. ASSUME NEW t \in Threads, SharedStep(t) \/ SpuriousWake(t) PROVE JoinInv'
  BY <1>1, <1>2, JoinInvQuiet DEF SharedStep, Lock, Unlock, Exit, SpuriousWake, goto
<1>3. ASSUME NEW p \in Producers, ProducerStep(p) PROVE JoinInv'
  <2>1. CASE ProducerWait(p) \/ ProducerBreak(p) \/ ProducerBroadcast(p)
    BY <1>1, <2>1, JoinInvQuiet
       DEF ProducerWait, ProducerBreak, ProducerBroadcast, goto, Threads
  <2>2. CASE Produce(p)
    <3>1. /\ item' = [item EXCEPT ![p] = procount] /\ pc[p] = "test" /\ main' = main
          /\ pc' = [pc EXCEPT ![p] = "broadcast"]
          /\ procount' = procount + 1 /\ concount' = concount /\ p \in Threads
      BY <2>2 DEF Produce, goto, Threads
    <3>2. item'[p] = procount' - 1
      BY <1>1, <3>1
    <3>3. \A c \in Consumers : item'[c] = item[c] /\ pc'[c] = pc[c]
      BY <1>1, <3>1 DEF Threads
    <3> QED BY <3>1, <3>2, <3>3 DEF JoinInv
  <2> QED BY <1>3, <2>1, <2>2 DEF ProducerStep
<1>4. ASSUME NEW c \in Consumers, ConsumerStep(c) PROVE JoinInv'
  <2>1. CASE ConsumerWait(c) \/ ConsumerBreak(c) \/ ConsumerBroadcast(c)
    BY <1>1, <2>1, JoinInvQuiet
       DEF ConsumerWait, ConsumerBreak, ConsumerBroadcast, goto, Threads
  <2>2. CASE Consume(c)
    <3>1. /\ item' = [item EXCEPT ![c] = fifo.buf[fifo.head]] /\ pc[c] = "test"
          /\ pc' = [pc EXCEPT ![c] = "broadcast"] /\ main' = main
          /\ procount' = procount /\ concount' = concount + 1 /\ c \in Threads
      BY <2>2 DEF Consume, goto, Threads
    <3>2. item'[c] = concount' - 1
      BY <1>1, <2>2, <3>1, OldestItem
    <3>3. \A p \in Producers : item'[p] = item[p] /\ pc'[p] = pc[p]
      BY <1>1, <3>1 DEF Threads
    <3> QED BY <3>1, <3>2, <3>3 DEF JoinInv
  <2> QED BY <1>4, <2>1, <2>2 DEF ConsumerStep
<1>5. ASSUME MainStep PROVE JoinInv'
  BY <1>1, <1>5, JoinInvQuiet
     DEF MainStep, Create, StartJoining, ProducersJoined, ConsumersJoined, goto
<1>6. ASSUME UNCHANGED vars PROVE JoinInv'
  BY <1>6 DEF JoinInv, vars
<1> QED BY <1>2, <1>3, <1>4, <1>5, <1>6 DEF Next, Terminated

\* When main() returns all of the work has been produced and consumed: joined
\* threads left their loops, which they do only at WORK_MAX.
THEOREM AllWorkDone == ASSUME ZeroedHeap PROVE Spec => []WorkDone
<1>1. Init => IInv /\ JoinInv
  BY InitIInv, InitJoinInv
<1>2. IInv /\ JoinInv /\ [Next]_vars => IInv' /\ JoinInv'
  BY NextIInv, NextJoinInv
<1>3. IInv /\ JoinInv => WorkDone
  BY ThreadsAssumption DEF IInv, JoinInv, ExitInv, WorkDone
<1> QED BY <1>1, <1>2, <1>3, PTL DEF Spec
=============================================================================
