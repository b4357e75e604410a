-------------------------- MODULE ProducerConsumer --------------------------
(***************************************************************************)
(* pthreads_pc/producer_consumer.c: producer and consumer threads sharing  *)
(* a circular array guarded by one mutex and two condition variables.      *)
(*                                                                         *)
(* A thread's steps are separated where another thread can run: at         *)
(* pthread_mutex_lock, pthread_cond_wait, pthread_cond_broadcast and       *)
(* pthread_mutex_unlock.  The statements between two of these are made     *)
(* under the mutex and form one step.  do_work() touches no shared state   *)
(* and is the time a thread spends before its next lock.                   *)
(***************************************************************************)
EXTENDS Integers, Sequences

CONSTANTS Producers,   \* threads running producer()
          Consumers,   \* threads running consumer()
          QUEUESIZE,   \* slots of the circular array
          WORK_MAX,    \* items to produce, and to consume, in total
          HeapInts,    \* values an int in memory fresh from malloc() can hold
          NoThread     \* the owner of a free mutex

Threads == Producers \cup Consumers

ASSUME ThreadsAssumption == /\ Producers # {}
                            /\ Consumers # {}
                            /\ Producers \cap Consumers = {}
                            /\ NoThread \notin Threads
ASSUME SizeAssumption == QUEUESIZE \in Nat \ {0}
ASSUME WorkAssumption == WORK_MAX \in Nat
ASSUME HeapAssumption == HeapInts \subseteq Int

\* malloc() happens to return zeroed memory, as on a heap nothing was freed to.  The
\* code counts on it: nothing else sets the two counters.
ZeroedHeap == HeapInts = {0}

VARIABLES fifo,        \* the queue: buf, head, tail, full, empty
          mutex,       \* owner of fifo->mutex
          notFull,     \* threads blocked on condition variable notFull
          notEmpty,    \* threads blocked on condition variable notEmpty
          procount,    \* *total_produced
          concount,    \* *total_consumed
          item,        \* item_produced or item_consumed of each thread
          pc,          \* where each thread is
          main         \* where main() is

vars == <<fifo, mutex, notFull, notEmpty, procount, concount, item, pc, main>>

(***************************************************************************)
(* The circular array.                                                     *)
(***************************************************************************)
Slots == 0 .. QUEUESIZE - 1

Queue == [buf : [Slots -> Int], head : Slots, tail : Slots,
          full : {0, 1}, empty : {0, 1}]

\* buf is not initialised: nothing reads a slot before it is written.
queueInit(memory) == [buf |-> memory, head |-> 0, tail |-> 0,
                      full |-> 0, empty |-> 1]

\* Fault: the end of the array is one slot too far.
FollowingLate(i) == IF i = QUEUESIZE THEN 0 ELSE i + 1

\* The slot after i, around the end of the array.
Following(i) == IF i + 1 = QUEUESIZE THEN 0 ELSE i + 1

\* Fault: an add that never sets the full flag.
queueAddNoFull(q, in) ==
  [buf   |-> [q.buf EXCEPT ![q.tail] = in],
   head  |-> q.head,
   tail  |-> Following(q.tail),
   full  |-> q.full,
   empty |-> 0]

queueAdd(q, in) ==
  [buf   |-> [q.buf EXCEPT ![q.tail] = in],
   head  |-> q.head,
   tail  |-> Following(q.tail),
   full  |-> IF Following(q.tail) = q.head THEN 1 ELSE q.full,
   empty |-> 0]

queueRemove(q) ==
  [buf   |-> q.buf,
   head  |-> Following(q.head),
   tail  |-> q.tail,
   full  |-> 0,
   empty |-> IF Following(q.head) = q.tail THEN 1 ELSE q.empty]

(***************************************************************************)
(* Init is main() after queueInit() and the two malloc() calls.            *)
(***************************************************************************)
Init == /\ \E memory \in [Slots -> HeapInts] : fifo = queueInit(memory)
        /\ mutex = NoThread
        /\ notFull = {} /\ notEmpty = {}
        /\ procount \in HeapInts
        /\ concount \in HeapInts
        /\ item = [t \in Threads |-> -1]
        /\ pc = [t \in Threads |-> "new"]
        /\ main = "create"

goto(t, label) == pc' = [pc EXCEPT ![t] = label]

(***************************************************************************)
(* Steps producers and consumers share.  A thread blocked in               *)
(* pthread_cond_wait is at "wait" and in the condition variable's set; a   *)
(* thread woken there is at "wait" and in neither set, and must take the   *)
(* mutex again before it tests its loop condition.                         *)
(***************************************************************************)
Lock(t) == /\ \/ pc[t] = "lock"
              \/ pc[t] = "wait" /\ t \notin notFull \cup notEmpty
           /\ mutex = NoThread
           /\ mutex' = t
           /\ goto(t, "test")
           /\ UNCHANGED <<fifo, notFull, notEmpty, procount, concount, item, main>>

Unlock(t) == /\ pc[t] = "unlock"
             /\ mutex' = NoThread
             /\ goto(t, "lock")
             /\ UNCHANGED <<fifo, notFull, notEmpty, procount, concount, item, main>>

\* The unlock behind the loop, after break.
Exit(t) == /\ pc[t] = "exit"
           /\ mutex' = NoThread
           /\ goto(t, "done")
           /\ UNCHANGED <<fifo, notFull, notEmpty, procount, concount, item, main>>

\* POSIX lets pthread_cond_wait return without a broadcast.
SpuriousWake(t) == /\ t \in notFull \cup notEmpty
                   /\ notFull' = notFull \ {t}
                   /\ notEmpty' = notEmpty \ {t}
                   /\ UNCHANGED <<fifo, mutex, procount, concount, item, pc, main>>

(***************************************************************************)
(* producer()                                                              *)
(***************************************************************************)
ProducerMustWait == fifo.full = 1 /\ procount # WORK_MAX

ProducerWait(p) == /\ pc[p] = "test"
                   /\ ProducerMustWait
                   /\ mutex' = NoThread
                   /\ notFull' = notFull \cup {p}
                   /\ goto(p, "wait")
                   /\ UNCHANGED <<fifo, notEmpty, procount, concount, item, main>>

ProducerBreak(p) == /\ pc[p] = "test"
                    /\ ~ProducerMustWait
                    /\ procount >= WORK_MAX
                    /\ goto(p, "exit")
                    /\ UNCHANGED <<fifo, mutex, notFull, notEmpty, procount, concount, item, main>>

Produce(p) == /\ pc[p] = "test"
              /\ ~ProducerMustWait
              /\ procount < WORK_MAX
              /\ item' = [item EXCEPT ![p] = procount]
              /\ procount' = procount + 1
              /\ fifo' = queueAdd(fifo, procount)
              /\ goto(p, "broadcast")
              /\ UNCHANGED <<mutex, notFull, notEmpty, concount, main>>

\* Fault: wake one consumer instead of all.
ProducerSignal(p) == /\ pc[p] = "broadcast"
                     /\ IF notEmpty = {} THEN notEmpty' = {}
                        ELSE \E c \in notEmpty : notEmpty' = notEmpty \ {c}
                     /\ goto(p, "unlock")
                     /\ UNCHANGED <<fifo, mutex, notFull, procount, concount, item, main>>

ProducerBroadcast(p) == /\ pc[p] = "broadcast"
                        /\ notEmpty' = {}
                        /\ goto(p, "unlock")
                        /\ UNCHANGED <<fifo, mutex, notFull, procount, concount, item, main>>

(***************************************************************************)
(* consumer()                                                              *)
(***************************************************************************)
\* Fault: the loop condition without its test for the end of the work.
ConsumerMustWaitForever == fifo.empty = 1

ConsumerMustWait == fifo.empty = 1 /\ concount # WORK_MAX

ConsumerWait(c) == /\ pc[c] = "test"
                   /\ ConsumerMustWait
                   /\ mutex' = NoThread
                   /\ notEmpty' = notEmpty \cup {c}
                   /\ goto(c, "wait")
                   /\ UNCHANGED <<fifo, notFull, procount, concount, item, main>>

\* Fault: the last item is taken for the one after it.
ConsumerBreakEarly(c) == /\ pc[c] = "test"
                         /\ ~ConsumerMustWait
                         /\ concount + 1 >= WORK_MAX
                         /\ goto(c, "exit")
                         /\ UNCHANGED <<fifo, mutex, notFull, notEmpty, procount, concount,
                                        item, main>>

ConsumerBreak(c) == /\ pc[c] = "test"
                    /\ ~ConsumerMustWait
                    /\ concount >= WORK_MAX
                    /\ goto(c, "exit")
                    /\ UNCHANGED <<fifo, mutex, notFull, notEmpty, procount, concount, item, main>>

\* Fault: the head moves before the slot is read.
ConsumeNext(c) == /\ pc[c] = "test"
                  /\ ~ConsumerMustWait
                  /\ concount < WORK_MAX
                  /\ item' = [item EXCEPT ![c] = fifo.buf[Following(fifo.head)]]
                  /\ fifo' = queueRemove(fifo)
                  /\ concount' = concount + 1
                  /\ goto(c, "broadcast")
                  /\ UNCHANGED <<mutex, notFull, notEmpty, procount, main>>

Consume(c) == /\ pc[c] = "test"
              /\ ~ConsumerMustWait
              /\ concount < WORK_MAX
              /\ item' = [item EXCEPT ![c] = fifo.buf[fifo.head]]
              /\ fifo' = queueRemove(fifo)
              /\ concount' = concount + 1
              /\ goto(c, "broadcast")
              /\ UNCHANGED <<mutex, notFull, notEmpty, procount, main>>

\* Fault: the consumer wakes the consumers, not the producers.
ConsumerWrongBroadcast(c) ==
                     /\ pc[c] = "broadcast"
                     /\ notEmpty' = {}
                     /\ goto(c, "unlock")
                     /\ UNCHANGED <<fifo, mutex, notFull, procount, concount, item, main>>

ConsumerBroadcast(c) == /\ pc[c] = "broadcast"
                        /\ notFull' = {}
                        /\ goto(c, "unlock")
                        /\ UNCHANGED <<fifo, mutex, notEmpty, procount, concount, item, main>>

(***************************************************************************)
(* main(): create the producers, then the consumers; join the producers,   *)
(* then the consumers; delete the queue and return.                        *)
(***************************************************************************)
Create(t) == /\ main = "create"
             /\ pc[t] = "new"
             /\ t \in Consumers => \A p \in Producers : pc[p] # "new"
             /\ goto(t, "lock")
             /\ UNCHANGED <<fifo, mutex, notFull, notEmpty, procount, concount, item, main>>

StartJoining == /\ main = "create"
                /\ \A t \in Threads : pc[t] # "new"
                /\ main' = "join_producers"
                /\ UNCHANGED <<fifo, mutex, notFull, notEmpty, procount, concount, item, pc>>

ProducersJoined == /\ main = "join_producers"
                   /\ \A p \in Producers : pc[p] = "done"
                   /\ main' = "join_consumers"
                   /\ UNCHANGED <<fifo, mutex, notFull, notEmpty, procount, concount, item, pc>>

\* The last join, queueDelete() and return.
ConsumersJoined == /\ main = "join_consumers"
                   /\ \A c \in Consumers : pc[c] = "done"
                   /\ main' = "done"
                   /\ UNCHANGED <<fifo, mutex, notFull, notEmpty, procount, concount, item, pc>>

Terminated == main = "done" /\ UNCHANGED vars

(***************************************************************************)
(* The specification.                                                      *)
(***************************************************************************)
ProducerStep(p) == \/ ProducerWait(p) \/ ProducerBreak(p)
                   \/ Produce(p) \/ ProducerBroadcast(p)

ConsumerStep(c) == \/ ConsumerWait(c) \/ ConsumerBreak(c)
                   \/ Consume(c) \/ ConsumerBroadcast(c)

SharedStep(t) == Lock(t) \/ Unlock(t) \/ Exit(t)

MainStep == \/ \E t \in Threads : Create(t)
            \/ StartJoining \/ ProducersJoined \/ ConsumersJoined

Next == \/ \E t \in Threads : SharedStep(t) \/ SpuriousWake(t)
        \/ \E p \in Producers : ProducerStep(p)
        \/ \E c \in Consumers : ConsumerStep(c)
        \/ MainStep
        \/ Terminated

\* The kernel runs every thread that stays runnable.  It owes nobody a mutex
\* that is free only now and then, and no spurious wakeup.
Fairness == /\ \A t \in Threads : WF_vars(SharedStep(t))
            /\ \A p \in Producers : WF_vars(ProducerStep(p))
            /\ \A c \in Consumers : WF_vars(ConsumerStep(c))
            /\ WF_vars(MainStep)

Spec == Init /\ [][Next]_vars

FairSpec == Spec /\ Fairness

(***************************************************************************)
(* Properties.                                                             *)
(***************************************************************************)
Labels == {"new", "lock", "test", "wait", "broadcast", "unlock", "exit", "done"}

\* Every variable keeps its C type and its range: indices inside the array,
\* producers blocked only on notFull and consumers only on notEmpty.
TypeOK == /\ fifo \in Queue
          /\ mutex \in Threads \cup {NoThread}
          /\ notFull \subseteq Producers
          /\ notEmpty \subseteq Consumers
          /\ procount \in Int
          /\ concount \in Int
          /\ item \in [Threads -> Int]
          /\ pc \in [Threads -> Labels]
          /\ main \in {"create", "join_producers", "join_consumers", "done"}

Critical == {"test", "broadcast", "unlock", "exit"}

\* The threads between pthread_mutex_lock and the unlock (or the wait) that
\* gives the mutex up are exactly its owner: nobody touches fifo without it.
MutexInv == /\ \A t \in Threads : pc[t] \in Critical <=> mutex = t
            /\ \A t \in notFull \cup notEmpty : pc[t] = "wait"

\* The slot i places after slot h, for i up to QUEUESIZE.
After(h, i) == IF h + i < QUEUESIZE THEN h + i ELSE h + i - QUEUESIZE

Place(i) == After(fifo.head, i)

InQueue == procount - concount

\* The two flags that queueAdd() and queueRemove() maintain by comparing head
\* with tail never mistake a full array for an empty one: head, tail, full and
\* empty all tell the number of items that were produced and not consumed.
RingInv == /\ 0 <= concount /\ procount <= WORK_MAX
           /\ 0 <= InQueue /\ InQueue <= QUEUESIZE
           /\ fifo.tail = Place(InQueue)
           /\ fifo.full = 1 <=> (InQueue = QUEUESIZE)
           /\ fifo.empty = 1 <=> (InQueue = 0)

\* The array holds the produced and not yet consumed numbers, in order.
ContentInv == \A i \in Slots : i < InQueue => fifo.buf[Place(i)] = concount + i

\* Broadcasting only after an add and only to notEmpty (after a remove, to
\* notFull) is enough: a blocked thread still has to wait, or the owner of the
\* mutex is about to broadcast to it.  In particular nobody is left blocked
\* when the last item of the work is produced or consumed.
NoLostWakeup ==
  /\ notEmpty # {} => \/ fifo.empty = 1 /\ concount < WORK_MAX
                      \/ \E p \in Producers : pc[p] = "broadcast"
  /\ notFull # {} => \/ fifo.full = 1 /\ procount < WORK_MAX
                     \/ \E c \in Consumers : pc[c] = "broadcast"

\* A thread leaves its loop only when its side of the work is complete.
ExitInv == /\ \A p \in Producers : pc[p] \in {"exit", "done"} => procount = WORK_MAX
           /\ \A c \in Consumers : pc[c] \in {"exit", "done"} => concount = WORK_MAX

Blocked(t) == t \in notFull \cup notEmpty

\* The threads never all wait for each other: while one is blocked, another
\* one can still run.
NoStall == (\A t \in Threads : Blocked(t) \/ pc[t] = "done")
             => (\A t \in Threads : pc[t] = "done")

\* Lines 447-450: "Create a counter tracking how many items were produced [...]
\* and one to track how many items were consumed".  If they do, then when main()
\* returns the last item of the work has been produced and consumed.
WorkDone ==
  main = "done" => /\ \E p \in Producers : item[p] = WORK_MAX - 1
                   /\ \E c \in Consumers : item[c] = WORK_MAX - 1

\* The queue as its users see it: a first-in first-out buffer.
Content == [i \in 1 .. InQueue |-> fifo.buf[Place(i - 1)]]

Buffer == INSTANCE BoundedBuffer
            WITH Size <- QUEUESIZE, items <- Content, made <- procount,
                 got <- [c \in Consumers |-> item[c]]

\* Whatever the threads' interleaving, adds and removes on the circular array
\* are the puts and gets of a FIFO: nothing is lost, doubled or reordered.
ImplementsBuffer == Buffer!Spec

\* main() returns, with any number of producers and consumers from one up, as
\* long as spurious wakeups end some time (a thread woken and blocked again for
\* ever may keep the others from the mutex, which nothing makes fair).
Termination ==
  <>[][\A t \in Threads : ~SpuriousWake(t)]_vars => <>(main = "done")
=============================================================================
