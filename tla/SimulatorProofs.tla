-------------------------- MODULE SimulatorProofs ---------------------------
(***************************************************************************)
(* Proofs about Scheduler for any number of cores and jobs, any running    *)
(* times and priorities, and any caller that keeps libscheduler.h's rules; *)
(* then about Simulator for any input file, number of cores and quantum:   *)
(* main() calls the scheduler only as libscheduler.h allows, its table and *)
(* the scheduler's array agree, it never ends in a complaint, and the      *)
(* scheduler's totals are the sums of what the finished jobs waited; last  *)
(* about PriQueue, the library the scheduler keeps its jobs in: its ring   *)
(* array is a sorted sequence.                                             *)
(***************************************************************************)
EXTENDS Simulator, FiniteSetTheorems, SequenceTheorems, WellFoundedInduction, TLAPS

-----------------------------------------------------------------------------
(***************************************************************************)
(* The order of a scheme.                                                  *)
(***************************************************************************)
\* Every set of natural numbers has a least one.
LEMMA LeastNumber ==
  ASSUME NEW T, T \subseteq Nat, T # {}
  PROVE  \E m \in T : \A n \in T : m <= n
<1> DEFINE R == OpToRel(<, Nat)
<1>1. IsWellFoundedOn(R, Nat)
  BY NatLessThanWellFounded
<1>2. \A x, y \in Nat : <<y, x>> \in R <=> y < x
  BY DEF OpToRel
<1> HIDE DEF R
<1>3. PICK x \in T : \A y \in T : ~(<<y, x>> \in R)
  BY <1>1, WFMin
<1>4. ASSUME NEW y \in T PROVE x <= y
  <2>1. x \in Nat /\ y \in Nat /\ ~(<<y, x>> \in R)
    BY <1>3
  <2>2. ~(y < x)
    BY <1>2, <2>1
  <2> QED BY <2>1, <2>2
<1> QED BY <1>4

\* The comparison functions are strict weak orders, though job_compare_fcfs()
\* calls neither of two jobs with the same queue time the first.
LEMMA CompareOrder ==
  ASSUME g_scheme \in Schemes, NEW a \in Job, NEW b \in Job, NEW c \in Job
  PROVE  /\ job_compare(a, b) \in Int
         /\ job_compare(a, b) < 0 => job_compare(b, a) >= 0
         /\ job_compare(b, a) >= 0 /\ job_compare(c, b) >= 0 => job_compare(c, a) >= 0
         /\ Preemptive => (job_compare(a, b) <= 0 <=> job_compare(b, a) >= 0)
         /\ g_scheme \in {"FCFS", "RR"}
              => (job_compare(a, b) >= 0 <=> a.latest_queue_time >= b.latest_queue_time)
<1>1. ASSUME NEW j \in Job
      PROVE  /\ j.latest_queue_time \in Int /\ j.arrival_time \in Int
             /\ j.remaining_time \in Int /\ j.priority \in Int
  <2>1. /\ j.latest_queue_time \in Nat \cup {-1} /\ j.arrival_time \in Nat
        /\ j.remaining_time \in Int /\ j.priority \in Priorities
    BY DEF Job
  <2>2. j.latest_queue_time \in Int /\ j.arrival_time \in Int /\ j.remaining_time \in Int
    BY <2>1
  <2>3. j.priority \in Int
    BY <2>1, PrioritiesAssumption
  <2> QED BY <2>2, <2>3
<1>2. CASE g_scheme \in {"FCFS", "RR"}
  BY <1>1, <1>2 DEF job_compare, job_compare_fcfs, Preemptive
<1>3. CASE g_scheme \in {"PRI", "PPRI"}
  BY <1>1, <1>3 DEF job_compare, job_compare_pri, Preemptive
<1>4. CASE g_scheme \in {"SJF", "PSJF"}
  BY <1>1, <1>4 DEF job_compare, job_compare_sjf, Preemptive
<1> QED BY <1>2, <1>3, <1>4 DEF Schemes

\* priqueue_offer()'s loop ends at a position, and there is a new element.
LEMMA InsertAtPosition ==
  ASSUME g_scheme \in Schemes, NEW s \in Seq(Job), NEW x \in Job
  PROVE  \E n \in 1 .. Len(s) + 1 :
           /\ \A k \in 1 .. n - 1 : job_compare(x, s[k]) >= 0
           /\ n <= Len(s) => job_compare(x, s[n]) < 0
           /\ Order!Insert(s, x) \in Seq(Job)
           /\ Len(Order!Insert(s, x)) = Len(s) + 1
           /\ \A k \in 1 .. Len(s) + 1 :
                Order!Insert(s, x)[k] = IF k < n THEN s[k] ELSE IF k = n THEN x ELSE s[k - 1]
<1> DEFINE T == {m \in 1 .. Len(s) + 1 : m <= Len(s) => job_compare(x, s[m]) < 0}
<1>1. T \subseteq Nat /\ Len(s) + 1 \in T
  OBVIOUS
<1>2. PICK m \in T : \A k \in T : m <= k
  BY <1>1, LeastNumber
<1>3. m \in 1 .. Len(s) + 1 /\ (m <= Len(s) => job_compare(x, s[m]) < 0)
  BY <1>2
<1>4. ASSUME NEW k \in 1 .. m - 1 PROVE job_compare(x, s[k]) >= 0
  <2>1. k \in 1 .. Len(s) /\ k \notin T
    BY <1>2, <1>3
  <2>2. job_compare(x, s[k]) \in Int
    BY <2>1, CompareOrder
  <2> QED BY <2>1, <2>2
<1>5. Order!IsPosition(s, x, m)
  BY <1>3, <1>4 DEF Order!IsPosition
<1> DEFINE n == Order!Position(s, x)
<1>6. n \in 1 .. Len(s) + 1 /\ Order!IsPosition(s, x, n)
  BY <1>3, <1>5 DEF Order!Position
<1> HIDE DEF n, T
<1>7. /\ Order!Put(s, x, n) \in Seq(Job)
      /\ Len(Order!Put(s, x, n)) = Len(s) + 1
      /\ \A k \in 1 .. Len(s) + 1 :
           Order!Put(s, x, n)[k] = IF k < n THEN s[k] ELSE IF k = n THEN x ELSE s[k - 1]
  BY <1>6 DEF Order!Put
<1> QED BY <1>6, <1>7 DEF Order!Insert, Order!IsPosition, n

\* It keeps the queue sorted, and adds one job to it.
LEMMA InsertSorted ==
  ASSUME g_scheme \in Schemes, NEW s \in Seq(Job), NEW x \in Job, Order!Sorted(s)
  PROVE  Order!Sorted(Order!Insert(s, x))
<1> DEFINE q == Order!Insert(s, x)
<1>1. PICK n \in 1 .. Len(s) + 1 :
           /\ \A k \in 1 .. n - 1 : job_compare(x, s[k]) >= 0
           /\ n <= Len(s) => job_compare(x, s[n]) < 0
           /\ q \in Seq(Job)
           /\ Len(q) = Len(s) + 1
           /\ \A k \in 1 .. Len(s) + 1 :
                q[k] = IF k < n THEN s[k] ELSE IF k = n THEN x ELSE s[k - 1]
  BY InsertAtPosition
<1> HIDE DEF q
<1>2. \A k, l \in 1 .. Len(s) : k < l => job_compare(s[l], s[k]) >= 0
  BY DEF Order!Sorted
<1> SUFFICES ASSUME NEW k \in 1 .. Len(s) + 1, NEW l \in 1 .. Len(s) + 1, k < l
             PROVE  job_compare(q[l], q[k]) >= 0
  BY <1>1 DEF Order!Sorted, q
<1>3. CASE l < n
  <2>1. q[k] = s[k] /\ q[l] = s[l] /\ k \in 1 .. Len(s) /\ l \in 1 .. Len(s)
    BY <1>1, <1>3
  <2> QED BY <1>2, <2>1
<1>4. CASE l = n
  BY <1>1, <1>4
<1>5. CASE k < n /\ n < l
  <2>1. /\ q[k] = s[k] /\ q[l] = s[l - 1] /\ k < l - 1
        /\ k \in 1 .. Len(s) /\ l - 1 \in 1 .. Len(s)
    BY <1>1, <1>5
  <2> QED BY <1>2, <2>1
<1>6. CASE n < k
  <2>1. /\ k - 1 \in 1 .. Len(s) /\ l - 1 \in 1 .. Len(s) /\ k - 1 < l - 1
        /\ q[k] = s[k - 1] /\ q[l] = s[l - 1]
    BY <1>1, <1>6
  <2> QED BY <1>2, <2>1
<1>7. CASE k = n
  <2>1. /\ n \in 1 .. Len(s) /\ l - 1 \in 1 .. Len(s) /\ n <= l - 1
        /\ q[k] = x /\ q[l] = s[l - 1]
        /\ s[n] \in Job /\ s[l - 1] \in Job
    BY <1>1, <1>7
  <2>2. job_compare(s[n], x) >= 0
    <3>1. job_compare(x, s[n]) < 0
      BY <1>1, <2>1
    <3> QED BY <2>1, <3>1, CompareOrder
  <2>3. n < l - 1 => job_compare(s[l - 1], s[n]) >= 0
    BY <1>2, <2>1
  <2>4. CASE n = l - 1
    BY <2>1, <2>2, <2>4
  <2>5. CASE n < l - 1
    BY <2>1, <2>2, <2>3, <2>5, CompareOrder
  <2> QED BY <2>1, <2>4, <2>5
<1> QED BY <1>3, <1>4, <1>5, <1>6, <1>7

-----------------------------------------------------------------------------
(***************************************************************************)
(* The invariant, of a queue q and the jobs r on the cores: a call passes  *)
(* through states in which a job is in neither.                            *)
(***************************************************************************)
\* Every job is in one place.
Placed(q, r) ==
  /\ q \in Seq(Job)
  /\ r \in [Cores -> Job \cup {NULL}]
  /\ \A c, d \in Cores : r[c] # NULL /\ r[d] # NULL /\ c # d => r[c].job_id # r[d].job_id
  /\ \A k, l \in 1 .. Len(q) : k # l => q[k].job_id # q[l].job_id
  /\ \A c \in Cores, k \in 1 .. Len(q) : r[c] # NULL => r[c].job_id # q[k].job_id

\* The queue is in the order of the scheme, behind the running jobs if it preempts.
Ranked(q, r) ==
  /\ Order!Sorted(q)
  /\ Preemptive => \A c \in Cores, k \in 1 .. Len(q) :
                     r[c] # NULL => job_compare(r[c], q[k]) <= 0

\* What is noted in a job lies in the past.
Past(j) == j.arrival_time <= time /\ j.start_time <= time

Timed(q, r) ==
  /\ \A k \in 1 .. Len(q) : Past(q[k]) /\ q[k].latest_queue_time <= time
  /\ \A c \in Cores : r[c] # NULL => Past(r[c]) /\ r[c].latest_update_time <= time

\* a does not let b, which came later, go first.
InTurn(a, b) == a.arrival_time < b.arrival_time /\ b.start_time # -1
                  => a.start_time # -1 /\ a.start_time <= b.start_time

InPlay(q, r) == {q[k] : k \in 1 .. Len(q)} \cup ({r[c] : c \in Cores} \ {NULL})

\* Under FCFS and RR a job that has not run stands in the queue since it came.
Served(q, r) == g_scheme \in {"FCFS", "RR"} =>
  /\ \A c \in Cores : r[c] # NULL => r[c].start_time # -1
  /\ \A k \in 1 .. Len(q) :
       q[k].start_time = -1 => q[k].latest_queue_time = q[k].arrival_time
  /\ \A a, b \in InPlay(q, r) : InTurn(a, b)

Sound(q, r) == Placed(q, r) /\ Ranked(q, r) /\ Timed(q, r) /\ Served(q, r)

\* A job that is nowhere yet.
New(q, r, x) == /\ x \in Job
                /\ \A k \in 1 .. Len(q) : q[k].job_id # x.job_id
                /\ \A c \in Cores : r[c] # NULL => r[c].job_id # x.job_id

Clock == time \in Nat /\ g_scheme \in Schemes

-----------------------------------------------------------------------------
(***************************************************************************)
(* The steps a call consists of.                                           *)
(***************************************************************************)
\* schedule_job(): what is set, and what the order does not look at.
LEMMA StartedFields ==
  ASSUME Clock, NEW j \in Job
  PROVE  /\ Started(j) \in Job /\ Started(j) # NULL
         /\ Started(j).job_id = j.job_id
         /\ Started(j).arrival_time = j.arrival_time
         /\ Started(j).remaining_time = j.remaining_time
         /\ Started(j).start_time = IF j.start_time = -1 THEN time ELSE j.start_time
         /\ Started(j).start_time # -1
         /\ Started(j).latest_update_time = time
         /\ \A w \in Job : Preemptive => job_compare(Started(j), w) = job_compare(j, w)
<1> DEFINE v == IF j.start_time = -1 THEN time ELSE j.start_time
<1>1. j.start_time \in Nat \cup {-1} /\ time \in Nat
  BY DEF Job, Clock
<1>2. v \in Nat /\ v \in Nat \cup {-1} /\ v # -1
  BY <1>1
<1> HIDE DEF v
<1>3. Started(j) = [j EXCEPT !.start_time = v, !.latest_update_time = time]
  BY DEF Started, v
<1>4. Started(j) \in Job
  BY <1>1, <1>2, <1>3 DEF Job
<1>5. /\ Started(j).job_id = j.job_id
      /\ Started(j).arrival_time = j.arrival_time
      /\ Started(j).remaining_time = j.remaining_time
      /\ Started(j).priority = j.priority
      /\ Started(j).start_time = v
      /\ Started(j).latest_update_time = time
  BY <1>3 DEF Job
<1>6. ASSUME NEW w \in Job, Preemptive
      PROVE  job_compare(Started(j), w) = job_compare(j, w)
  BY <1>5, <1>6 DEF job_compare, job_compare_sjf, job_compare_pri, Preemptive
<1> QED BY <1>2, <1>4, <1>5, <1>6, NullAssumption DEF v

\* update_remaining_time(): only the remaining time gets less.
LEMMA UpdatedFields ==
  ASSUME Clock, NEW j \in Job, j.latest_update_time <= time
  PROVE  /\ Updated(j) \in Job /\ Updated(j) # NULL
         /\ Updated(j).job_id = j.job_id
         /\ Updated(j).arrival_time = j.arrival_time
         /\ Updated(j).start_time = j.start_time
         /\ Updated(j).priority = j.priority
         /\ Updated(j).latest_update_time = time
         /\ Updated(j).remaining_time = j.remaining_time - (time - j.latest_update_time)
         /\ Updated(j).remaining_time <= j.remaining_time
<1> DEFINE v == j.remaining_time - (time - j.latest_update_time)
<1>1. j.remaining_time \in Int /\ j.latest_update_time \in Nat \cup {-1}
  BY DEF Job
<1>2. j.latest_update_time \in Int /\ time \in Nat /\ time \in Nat \cup {-1}
  BY <1>1 DEF Clock
<1>3. v \in Int /\ v <= j.remaining_time
  BY <1>1, <1>2
<1>4. Updated(j) = [j EXCEPT !.remaining_time = v, !.latest_update_time = time]
  BY DEF Updated, Job
<1> HIDE DEF v
<1>5. Updated(j) \in Job
  BY <1>2, <1>3, <1>4 DEF Job
<1>6. /\ Updated(j).job_id = j.job_id
      /\ Updated(j).arrival_time = j.arrival_time
      /\ Updated(j).start_time = j.start_time
      /\ Updated(j).priority = j.priority
      /\ Updated(j).latest_update_time = time
      /\ Updated(j).remaining_time = v
  BY <1>4 DEF Job
<1> QED BY <1>3, <1>5, <1>6, NullAssumption DEF v

\* unschedule_job() of a job that is up to date.
LEMMA QueuedAgainFields ==
  ASSUME Clock, NEW j \in Job, j.latest_update_time = time
  PROVE  /\ QueuedAgain(j) \in Job
         /\ QueuedAgain(j).job_id = j.job_id
         /\ QueuedAgain(j).arrival_time = j.arrival_time
         /\ QueuedAgain(j).start_time \in {-1, j.start_time}
         /\ QueuedAgain(j).latest_queue_time = time
         /\ QueuedAgain(j).remaining_time = j.remaining_time
         /\ QueuedAgain(j).priority = j.priority
<1> DEFINE v == IF j.start_time = time THEN -1 ELSE j.start_time
<1>1. /\ Updated(j) \in Job
      /\ Updated(j).job_id = j.job_id
      /\ Updated(j).arrival_time = j.arrival_time
      /\ Updated(j).priority = j.priority
      /\ Updated(j).remaining_time = j.remaining_time - (time - time)
  BY UpdatedFields DEF Clock
<1>2. Updated(j).remaining_time = j.remaining_time
  <2>1. j.remaining_time \in Int
    BY DEF Job
  <2> QED BY <1>1, <2>1 DEF Clock
<1>3. v \in Nat \cup {-1} /\ time \in Nat \cup {-1} /\ v \in {-1, j.start_time}
  BY DEF Job, Clock
<1>4. QueuedAgain(j) = [Updated(j) EXCEPT !.start_time = v, !.latest_queue_time = time]
  BY DEF QueuedAgain
<1> HIDE DEF v
<1>5. QueuedAgain(j) \in Job
  BY <1>1, <1>3, <1>4 DEF Job
<1>6. /\ QueuedAgain(j).job_id = Updated(j).job_id
      /\ QueuedAgain(j).arrival_time = Updated(j).arrival_time
      /\ QueuedAgain(j).start_time = v
      /\ QueuedAgain(j).latest_queue_time = time
      /\ QueuedAgain(j).remaining_time = Updated(j).remaining_time
      /\ QueuedAgain(j).priority = Updated(j).priority
  BY <1>1, <1>4 DEF Job
<1> QED BY <1>1, <1>2, <1>3, <1>5, <1>6

\* A job leaves its core.
LEMMA Vacate ==
  ASSUME NEW q, NEW r, Sound(q, r), NEW c \in Cores
  PROVE  Sound(q, [r EXCEPT ![c] = NULL])
<1> DEFINE s == [r EXCEPT ![c] = NULL]
<1>1. r \in [Cores -> Job \cup {NULL}]
  BY DEF Sound, Placed
<1>2. s \in [Cores -> Job \cup {NULL}] /\ \A d \in Cores : s[d] # NULL => s[d] = r[d]
  BY <1>1
<1> HIDE DEF s
<1>3. Placed(q, s)
  BY <1>2 DEF Sound, Placed
<1>4. Ranked(q, s)
  BY <1>2 DEF Sound, Ranked
<1>5. Timed(q, s)
  BY <1>2 DEF Sound, Timed
<1>6. InPlay(q, s) \subseteq InPlay(q, r)
  BY <1>2 DEF InPlay
<1>7. Served(q, s)
  BY <1>2, <1>6 DEF Sound, Served
<1> QED BY <1>3, <1>4, <1>5, <1>7 DEF Sound, s

\* A job that is nowhere is put in the queue.
LEMMA Enqueue ==
  ASSUME Clock, NEW q, NEW r, Sound(q, r), NEW x, New(q, r, x),
         Past(x), x.latest_queue_time <= time,
         Preemptive => \A c \in Cores : r[c] # NULL => job_compare(r[c], x) <= 0,
         g_scheme \in {"FCFS", "RR"} =>
           /\ x.start_time = -1 => x.latest_queue_time = x.arrival_time
           /\ \A b \in InPlay(q, r) : InTurn(x, b) /\ InTurn(b, x)
  PROVE  Sound(Order!Insert(q, x), r)
<1> DEFINE s == Order!Insert(q, x)
<1>1. q \in Seq(Job) /\ x \in Job /\ r \in [Cores -> Job \cup {NULL}]
  BY DEF Sound, Placed, New
<1>2. PICK n \in 1 .. Len(q) + 1 :
           /\ s \in Seq(Job)
           /\ Len(s) = Len(q) + 1
           /\ \A k \in 1 .. Len(q) + 1 :
                s[k] = IF k < n THEN q[k] ELSE IF k = n THEN x ELSE q[k - 1]
  BY <1>1, InsertAtPosition DEF Clock
<1>3. Order!Sorted(s)
  BY <1>1, InsertSorted DEF Clock, Sound, Ranked
<1> HIDE DEF s
<1>4. Len(q) \in Nat
  BY <1>1
<1>5. \A k \in 1 .. Len(s) : k # n => \E m \in 1 .. Len(q) :
        s[k] = q[m] /\ m = IF k < n THEN k ELSE k - 1
  BY <1>2, <1>4
<1>6. s[n] = x /\ n \in 1 .. Len(s)
  BY <1>2, <1>4
<1>7. Placed(s, r)
  <2>1. ASSUME NEW k \in 1 .. Len(s), NEW l \in 1 .. Len(s), k # l
        PROVE  s[k].job_id # s[l].job_id
    <3>1. CASE k # n /\ l # n
      <4>1. PICK m \in 1 .. Len(q) : s[k] = q[m] /\ m = IF k < n THEN k ELSE k - 1
        BY <1>5, <3>1
      <4>2. PICK o \in 1 .. Len(q) : s[l] = q[o] /\ o = IF l < n THEN l ELSE l - 1
        BY <1>5, <3>1
      <4>3. m # o
        BY <2>1, <3>1, <4>1, <4>2
      <4> QED BY <4>1, <4>2, <4>3 DEF Sound, Placed
    <3>2. CASE k = n \/ l = n
      BY <1>5, <1>6, <2>1, <3>2 DEF New
    <3> QED BY <3>1, <3>2
  <2>2. ASSUME NEW c \in Cores, NEW k \in 1 .. Len(s), r[c] # NULL
        PROVE  r[c].job_id # s[k].job_id
    BY <1>5, <1>6, <2>2 DEF Sound, Placed, New
  <2> QED BY <1>1, <1>2, <2>1, <2>2 DEF Sound, Placed
<1>8. Ranked(s, r)
  BY <1>3, <1>5, <1>6 DEF Sound, Ranked
<1>9. Timed(s, r)
  BY <1>5, <1>6 DEF Sound, Timed
<1>10. \A a \in InPlay(s, r) : a = x \/ a \in InPlay(q, r)
  BY <1>5, <1>6 DEF InPlay
<1>11. ASSUME g_scheme \in {"FCFS", "RR"}
       PROVE  \A a, b \in InPlay(s, r) : InTurn(a, b)
  <2>1. InTurn(x, x)
    <3>1. x.arrival_time \in Nat
      BY <1>1 DEF Job
    <3> QED BY <3>1 DEF InTurn
  <2> QED BY <1>10, <1>11, <2>1 DEF Sound, Served
<1>12. Served(s, r)
  BY <1>5, <1>6, <1>11 DEF Sound, Served
<1> QED BY <1>7, <1>8, <1>9, <1>12 DEF Sound, s

\* The next job of the queue gets a free core.
LEMMA StartHead ==
  ASSUME Clock, NEW q, NEW r, Sound(q, r), q # <<>>, NEW c \in Cores, r[c] = NULL
  PROVE  Sound(Tail(q), [r EXCEPT ![c] = Started(Head(q))])
<1> DEFINE x == Head(q)
           p == Tail(q)
           s == [r EXCEPT ![c] = Started(x)]
<1>1. q \in Seq(Job) /\ r \in [Cores -> Job \cup {NULL}]
  BY DEF Sound, Placed
<1>2. /\ x \in Job /\ x = q[1] /\ p \in Seq(Job) /\ Len(p) = Len(q) - 1
      /\ 1 \in 1 .. Len(q)
      /\ \A k \in 1 .. Len(p) : k + 1 \in 1 .. Len(q) /\ p[k] = q[k + 1] /\ 1 < k + 1
  BY <1>1
<1>3. /\ s \in [Cores -> Job \cup {NULL}] /\ s[c] = Started(x)
      /\ \A d \in Cores : d # c => s[d] = r[d]
  BY <1>1, <1>2, StartedFields
<1> HIDE DEF x, p, s
<1>4. /\ Started(x) \in Job /\ Started(x) # NULL
      /\ Started(x).job_id = x.job_id
      /\ Started(x).arrival_time = x.arrival_time
      /\ Started(x).start_time = IF x.start_time = -1 THEN time ELSE x.start_time
      /\ Started(x).start_time # -1
      /\ Started(x).latest_update_time = time
      /\ \A w \in Job : Preemptive => job_compare(Started(x), w) = job_compare(x, w)
  BY <1>2, StartedFields
<1>5. Placed(p, s)
  <2>1. ASSUME NEW k \in 1 .. Len(p), NEW l \in 1 .. Len(p), k # l
        PROVE  p[k].job_id # p[l].job_id
    BY <1>2, <2>1 DEF Sound, Placed
  <2>2. ASSUME NEW d \in Cores, NEW k \in 1 .. Len(p), s[d] # NULL
        PROVE  s[d].job_id # p[k].job_id
    BY <1>2, <1>3, <1>4, <2>2 DEF Sound, Placed
  <2>3. ASSUME NEW d \in Cores, NEW e \in Cores, s[d] # NULL, s[e] # NULL, d # e
        PROVE  s[d].job_id # s[e].job_id
    BY <1>2, <1>3, <1>4, <2>3 DEF Sound, Placed
  <2> QED BY <1>2, <1>3, <2>1, <2>2, <2>3 DEF Placed
<1>6. Ranked(p, s)
  <2>1. Order!Sorted(p)
    BY <1>2 DEF Sound, Ranked, Order!Sorted
  <2>2. ASSUME Preemptive, NEW k \in 1 .. Len(p)
        PROVE  job_compare(Started(x), p[k]) <= 0
    <3>1. job_compare(q[k + 1], q[1]) >= 0
      BY <1>2 DEF Sound, Ranked, Order!Sorted
    <3>2. p[k] \in Job
      BY <1>2
    <3> QED BY <1>2, <1>4, <2>2, <3>1, <3>2, CompareOrder DEF Clock
  <2>3. ASSUME Preemptive, NEW d \in Cores, NEW k \in 1 .. Len(p), s[d] # NULL
        PROVE  job_compare(s[d], p[k]) <= 0
    BY <1>2, <1>3, <2>2, <2>3 DEF Sound, Ranked
  <2> QED BY <2>1, <2>3 DEF Ranked
<1>7. Past(x) /\ Past(Started(x))
  BY <1>2, <1>4 DEF Sound, Timed, Past, Clock
<1>8. Timed(p, s)
  BY <1>2, <1>3, <1>4, <1>7 DEF Sound, Timed, Clock
<1>9. \A a \in InPlay(p, s) : a = Started(x) \/ a \in InPlay(q, r)
  BY <1>2, <1>3 DEF InPlay
<1>10. ASSUME g_scheme \in {"FCFS", "RR"}, NEW b \in InPlay(q, r)
       PROVE  InTurn(Started(x), b) /\ InTurn(b, Started(x))
  <2>1. x \in InPlay(q, r)
    BY <1>2 DEF InPlay
  <2>2. InTurn(x, b) /\ InTurn(b, x)
    BY <1>10, <2>1 DEF Sound, Served
  <2>3. /\ b \in Job /\ x.arrival_time \in Nat /\ b.arrival_time \in Nat
        /\ x.start_time \in Nat \cup {-1} /\ b.start_time \in Nat \cup {-1}
    <3>1. b \in Job
      BY <1>1 DEF InPlay
    <3> QED BY <1>2, <3>1 DEF Job
  <2>4. Past(b)
    BY DEF InPlay, Sound, Timed
  <2>5. ASSUME b.start_time = -1, x.start_time = -1
        PROVE  ~(b.arrival_time < x.arrival_time)
    <3>1. PICK k \in 1 .. Len(q) : b = q[k]
      BY <1>10, <2>5 DEF InPlay, Sound, Served
    <3>2. b.latest_queue_time = b.arrival_time /\ x.latest_queue_time = x.arrival_time
      BY <1>2, <1>10, <2>5, <3>1 DEF Sound, Served
    <3>3. CASE k = 1
      BY <1>2, <2>3, <3>1, <3>3
    <3>4. CASE k # 1
      <4>1. job_compare(q[k], q[1]) >= 0
        BY <1>2, <3>4 DEF Sound, Ranked, Order!Sorted
      <4>2. b.latest_queue_time >= x.latest_queue_time
        BY <1>2, <1>10, <2>3, <3>1, <4>1, CompareOrder DEF Clock
      <4> QED BY <2>3, <3>2, <4>2
    <3> QED BY <3>3, <3>4
  <2> QED BY <1>4, <2>2, <2>3, <2>4, <2>5 DEF InTurn, Past, Clock
<1>11. ASSUME g_scheme \in {"FCFS", "RR"}
       PROVE  \A a, b \in InPlay(p, s) : InTurn(a, b)
  <2>1. InTurn(Started(x), Started(x))
    <3>1. Started(x).arrival_time \in Nat
      BY <1>4 DEF Job
    <3> QED BY <3>1 DEF InTurn
  <2> QED BY <1>9, <1>10, <1>11, <2>1 DEF Sound, Served
<1>12. Served(p, s)
  BY <1>2, <1>3, <1>4, <1>11 DEF Sound, Served
<1> QED BY <1>5, <1>6, <1>8, <1>12 DEF Sound, p, s, x

\* A job that has just come gets a free core.
LEMMA StartNew ==
  ASSUME Clock, NEW q, NEW r, Sound(q, r), NEW x, New(q, r, x),
         x.arrival_time = time, x.start_time = -1, NEW c \in Cores, r[c] = NULL,
         Preemptive => \A k \in 1 .. Len(q) : job_compare(x, q[k]) <= 0,
         g_scheme \in {"FCFS", "RR"} => q = <<>>
  PROVE  Sound(q, [r EXCEPT ![c] = Started(x)])
<1> DEFINE s == [r EXCEPT ![c] = Started(x)]
<1>1. q \in Seq(Job) /\ r \in [Cores -> Job \cup {NULL}] /\ x \in Job
  BY DEF Sound, Placed, New
<1>2. /\ Started(x) \in Job /\ Started(x) # NULL
      /\ Started(x).job_id = x.job_id
      /\ Started(x).arrival_time = time
      /\ Started(x).start_time = time
      /\ Started(x).latest_update_time = time
      /\ time # -1
      /\ \A w \in Job : Preemptive => job_compare(Started(x), w) = job_compare(x, w)
  BY <1>1, StartedFields
<1>3. /\ s \in [Cores -> Job \cup {NULL}] /\ s[c] = Started(x)
      /\ \A d \in Cores : d # c => s[d] = r[d]
  BY <1>1, <1>2
<1> HIDE DEF s
<1>4. Placed(q, s)
  <2>1. ASSUME NEW d \in Cores, NEW k \in 1 .. Len(q), s[d] # NULL
        PROVE  s[d].job_id # q[k].job_id
    BY <1>2, <1>3, <2>1 DEF Sound, Placed, New
  <2>2. ASSUME NEW d \in Cores, NEW e \in Cores, s[d] # NULL, s[e] # NULL, d # e
        PROVE  s[d].job_id # s[e].job_id
    BY <1>2, <1>3, <2>2 DEF Sound, Placed, New
  <2> QED BY <1>1, <1>3, <2>1, <2>2 DEF Sound, Placed
<1>5. Ranked(q, s)
  <2>1. ASSUME Preemptive, NEW d \in Cores, NEW k \in 1 .. Len(q), s[d] # NULL
        PROVE  job_compare(s[d], q[k]) <= 0
    <3>1. q[k] \in Job
      BY <1>1
    <3> QED BY <1>2, <1>3, <2>1, <3>1 DEF Sound, Ranked
  <2> QED BY <2>1 DEF Sound, Ranked
<1>6. Timed(q, s)
  BY <1>2, <1>3 DEF Sound, Timed, Past, Clock
<1>7. ASSUME g_scheme \in {"FCFS", "RR"}
      PROVE  \A a, b \in InPlay(q, s) : InTurn(a, b)
  <2>1. ASSUME NEW b \in InPlay(q, s)
        PROVE  /\ b = Started(x) \/ b \in InPlay(q, r)
               /\ b \in Job /\ b.start_time # -1
               /\ b.arrival_time <= time /\ b.start_time <= time
    <3>1. PICK d \in Cores : b = s[d] /\ s[d] # NULL
      BY <1>7 DEF InPlay
    <3>2. CASE d = c
      BY <1>2, <1>3, <3>1, <3>2 DEF Clock
    <3>3. CASE d # c
      BY <1>1, <1>3, <1>7, <3>1, <3>3 DEF InPlay, Sound, Timed, Past, Served
    <3> QED BY <3>2, <3>3
  <2>2. ASSUME NEW b \in InPlay(q, s)
        PROVE  InTurn(b, Started(x)) /\ InTurn(Started(x), b)
    <3>1. b.arrival_time \in Nat
      BY <2>1 DEF Job
    <3> QED BY <1>2, <2>1, <3>1 DEF InTurn, Clock
  <2> QED BY <1>7, <2>1, <2>2 DEF Sound, Served
<1>8. Served(q, s)
  BY <1>2, <1>3, <1>7 DEF Sound, Served
<1> QED BY <1>4, <1>5, <1>6, <1>8 DEF Sound, s

\* update_remaining_time() of every running job, when no core is idle.
LEMMA UpdateAll ==
  ASSUME Clock, NEW q, NEW r, Sound(q, r), \A c \in Cores : r[c] # NULL, Preemptive
  PROVE  Sound(q, [c \in Cores |-> Updated(r[c])])
<1> DEFINE s == [c \in Cores |-> Updated(r[c])]
<1>1. \A c \in Cores : r[c] \in Job /\ r[c].latest_update_time <= time
  BY DEF Sound, Placed, Timed
<1>2. ASSUME NEW c \in Cores
      PROVE  /\ s[c] \in Job
             /\ s[c].job_id = r[c].job_id
             /\ s[c].arrival_time = r[c].arrival_time
             /\ s[c].start_time = r[c].start_time
             /\ s[c].priority = r[c].priority
             /\ s[c].latest_update_time = time
             /\ s[c].remaining_time <= r[c].remaining_time
  BY <1>1, UpdatedFields
<1>3. s \in [Cores -> Job \cup {NULL}]
  BY <1>2
<1> HIDE DEF s
<1>4. Placed(q, s)
  BY <1>2, <1>3 DEF Sound, Placed
<1>5. Ranked(q, s)
  <2>1. ASSUME NEW c \in Cores, NEW k \in 1 .. Len(q)
        PROVE  job_compare(s[c], q[k]) <= 0
    <3>1. q[k] \in Job /\ s[c] \in Job /\ r[c] \in Job
      BY <1>1, <1>2 DEF Sound, Placed
    <3>2. /\ q[k].arrival_time \in Nat /\ r[c].arrival_time \in Nat
          /\ q[k].remaining_time \in Int /\ r[c].remaining_time \in Int
          /\ s[c].remaining_time \in Int
      BY <3>1 DEF Job
    <3>3. job_compare(r[c], q[k]) <= 0
      BY DEF Sound, Ranked
    <3>4. CASE g_scheme = "PPRI"
      BY <1>2, <3>3, <3>4 DEF job_compare, job_compare_pri
    <3>5. CASE g_scheme = "PSJF"
      BY <1>2, <3>2, <3>3, <3>5 DEF job_compare, job_compare_sjf
    <3> QED BY <3>4, <3>5 DEF Preemptive
  <2> QED BY <2>1 DEF Sound, Ranked
<1>6. Timed(q, s)
  BY <1>2 DEF Sound, Timed, Past, Clock
<1>7. Served(q, s)
  BY DEF Served, Preemptive
<1> QED BY <1>4, <1>5, <1>6, <1>7 DEF Sound, s

-----------------------------------------------------------------------------
(***************************************************************************)
(* The calls keep the invariant.                                           *)
(***************************************************************************)
\* The idle cores are those without a job, and none is idle while a job waits.
IdleAgree == /\ \A c \in Cores : c \in g_idle_cores <=> g_running_jobs[c] = NULL
             /\ g_idle_cores # {} => g_job_queue = <<>>

SchedIInv == SchedTypeOK /\ IdleAgree /\ Sound(g_job_queue, g_running_jobs)

\* What a call leaves is judged by the same clock and scheme.
LEMMA Carry ==
  ASSUME UNCHANGED <<g_scheme, time>>, Sound(g_job_queue', g_running_jobs')
  PROVE  Sound(g_job_queue, g_running_jobs)'
<1>1. Placed(g_job_queue, g_running_jobs)'
  BY DEF Sound, Placed
<1>2. Ranked(g_job_queue, g_running_jobs)'
  BY DEF Sound, Ranked, Preemptive, Order!Sorted, job_compare, job_compare_fcfs,
         job_compare_sjf, job_compare_pri
<1>3. Timed(g_job_queue, g_running_jobs)'
  BY DEF Sound, Timed, Past
<1>4. Served(g_job_queue, g_running_jobs)'
  BY DEF Sound, Served, InPlay, InTurn
<1> QED BY <1>1, <1>2, <1>3, <1>4 DEF Sound

\* What is to be shown of a call whose accounting has the right types.
LEMMA CallDone ==
  ASSUME SchedIInv, UNCHANGED <<g_scheme, time>>, Sound(g_job_queue', g_running_jobs'),
         g_idle_cores' \subseteq Cores, IdleAgree',
         total' \in [jobs : Nat, waiting : Int, turnaround : Int, response : Int]
  PROVE  SchedIInv'
<1>1. Sound(g_job_queue, g_running_jobs)'
  BY Carry
<1>2. g_job_queue' \in Seq(Job) /\ g_running_jobs' \in [Cores -> Job \cup {NULL}]
  BY DEF Sound, Placed
<1> QED BY <1>1, <1>2 DEF SchedIInv, SchedTypeOK

\* A job of scheduler_new_job() is nowhere yet and later than all others.
LEMMA NewJobFields ==
  ASSUME SchedIInv, NEW id \in Jobs \ LiveIds, NEW p \in Priorities, NEW t \in RunTimes,
         NEW j, j = new_job(id, p, t)
  PROVE  /\ Clock
         /\ New(g_job_queue, g_running_jobs, j)
         /\ j.arrival_time = time /\ j.start_time = -1 /\ Past(j)
         /\ \A b \in InPlay(g_job_queue, g_running_jobs) : b \in Job /\ Past(b)
<1>1. Clock
  BY DEF SchedIInv, SchedTypeOK, Clock
<1>2. j \in Job
  <2>1. t \in Int
    BY RunTimesAssumption
  <2> QED BY <1>1, <2>1 DEF new_job, Job, Clock
<1>3. j.job_id = id /\ j.arrival_time = time /\ j.start_time = -1
  BY DEF new_job
<1>4. /\ \A k \in 1 .. Len(g_job_queue) : g_job_queue[k].job_id # id
      /\ \A c \in Cores : g_running_jobs[c] # NULL => g_running_jobs[c].job_id # id
  BY DEF LiveIds, Waiting, Running
<1>5. New(g_job_queue, g_running_jobs, j)
  BY <1>2, <1>3, <1>4 DEF New
<1>6. \A b \in InPlay(g_job_queue, g_running_jobs) : b \in Job /\ Past(b)
  BY DEF InPlay, SchedIInv, Sound, Placed, Timed
<1> QED BY <1>1, <1>3, <1>5, <1>6 DEF Past, Clock

LEMMA NewJobStartsStep ==
  ASSUME SchedIInv, NEW id \in Jobs \ LiveIds, NEW p \in Priorities, NEW t \in RunTimes,
         NEW j, j = new_job(id, p, t), NEW core, NewJobStarts(j, core), UNCHANGED time
  PROVE  SchedIInv'
<1>1. /\ core \in g_idle_cores /\ core \in Cores
      /\ g_running_jobs[core] = NULL /\ g_job_queue = <<>>
  BY DEF NewJobStarts, SchedIInv, SchedTypeOK, IdleAgree
<1>2. Sound(g_job_queue, [g_running_jobs EXCEPT ![core] = Started(j)])
  BY <1>1, NewJobFields, StartNew DEF SchedIInv
<1>3. Started(j) # NULL
  BY NewJobFields, StartedFields DEF New
<1>4. IdleAgree'
  BY <1>1, <1>3 DEF NewJobStarts, SchedIInv, SchedTypeOK, IdleAgree
<1> QED BY <1>2, <1>4, CallDone DEF NewJobStarts, SchedIInv, SchedTypeOK

\* The running jobs once they are up to date, and none of them has moved.
LEMMA UpToDateSound ==
  ASSUME SchedIInv, g_idle_cores = {}
  PROVE  /\ Sound(g_job_queue, UpToDate)
         /\ UpToDate \in [Cores -> Job]
         /\ \A c \in Cores : /\ UpToDate[c] # NULL
                             /\ UpToDate[c].job_id = g_running_jobs[c].job_id
                             /\ Preemptive => UpToDate[c].latest_update_time = time
<1>1. \A c \in Cores : g_running_jobs[c] # NULL /\ g_running_jobs[c] \in Job
  BY DEF SchedIInv, SchedTypeOK, IdleAgree
<1>2. Clock
  BY DEF SchedIInv, SchedTypeOK, Clock
<1>3. CASE Preemptive
  <2>1. UpToDate = [c \in Cores |-> Updated(g_running_jobs[c])]
    BY <1>3 DEF UpToDate
  <2>2. Sound(g_job_queue, UpToDate)
    BY <1>1, <1>2, <1>3, <2>1, UpdateAll DEF SchedIInv
  <2>3. \A c \in Cores : g_running_jobs[c].latest_update_time <= time
    BY <1>1 DEF SchedIInv, Sound, Timed
  <2> QED BY <1>1, <1>2, <2>1, <2>2, <2>3, UpdatedFields
<1>4. CASE ~Preemptive
  BY <1>1, <1>4 DEF UpToDate, SchedIInv, SchedTypeOK
<1> QED BY <1>3, <1>4

\* The job that has to go is put back in the queue before the new one starts.
LEMMA NewJobPreemptsStep ==
  ASSUME SchedIInv, NEW id \in Jobs \ LiveIds, NEW p \in Priorities, NEW t \in RunTimes,
         NEW j, j = new_job(id, p, t), NEW core, NewJobPreempts(j, core), UNCHANGED time
  PROVE  SchedIInv'
<1> DEFINE u == UpToDate
           x == QueuedAgain(u[core])
           r == [u EXCEPT ![core] = NULL]
           q == Order!Insert(g_job_queue, x)
<1>1. core \in Cores /\ Preemptive /\ g_idle_cores = {}
  BY DEF NewJobPreempts
<1>2. /\ Sound(g_job_queue, u) /\ u \in [Cores -> Job]
      /\ \A c \in Cores : /\ u[c] # NULL /\ u[c].latest_update_time = time
                          /\ u[c].job_id = g_running_jobs[c].job_id
  BY <1>1, UpToDateSound
<1>3. /\ Clock /\ j \in Job /\ New(g_job_queue, g_running_jobs, j)
      /\ j.arrival_time = time /\ j.start_time = -1
  BY NewJobFields DEF New
<1>4. /\ x \in Job
      /\ x.job_id = u[core].job_id
      /\ x.arrival_time = u[core].arrival_time
      /\ x.start_time \in {-1, u[core].start_time}
      /\ x.latest_queue_time = time
      /\ x.remaining_time = u[core].remaining_time
      /\ x.priority = u[core].priority
  BY <1>1, <1>2, <1>3, QueuedAgainFields
<1>5. /\ LeastImportant(u, core) /\ job_compare(j, u[core]) < 0
      /\ g_job_queue' = q /\ g_running_jobs' = [u EXCEPT ![core] = Started(j)]
      /\ UNCHANGED <<g_scheme, g_idle_cores, total>>
  BY DEF NewJobPreempts
<1> HIDE DEF u, x
<1>6. \A w \in Job : /\ job_compare(x, w) = job_compare(u[core], w)
                     /\ job_compare(w, x) = job_compare(w, u[core])
  BY <1>1, <1>4 DEF job_compare, job_compare_sjf, job_compare_pri, Preemptive
<1>7. Sound(g_job_queue, r)
  BY <1>1, <1>2, Vacate
<1>8. r \in [Cores -> Job \cup {NULL}] /\ r[core] = NULL
      /\ \A c \in Cores : r[c] # NULL => c # core /\ r[c] = u[c]
  BY <1>1, <1>2
<1> HIDE DEF r
<1>9. Sound(q, r)
  <2>1. New(g_job_queue, r, x)
    BY <1>1, <1>2, <1>4, <1>8 DEF New, Sound, Placed
  <2>2. Past(x) /\ x.latest_queue_time <= time
    <3>1. Past(u[core])
      BY <1>1, <1>2 DEF Sound, Timed
    <3> QED BY <1>3, <1>4, <3>1 DEF Past, Clock
  <2>3. \A c \in Cores : r[c] # NULL => job_compare(r[c], x) <= 0
    BY <1>2, <1>5, <1>6, <1>8 DEF LeastImportant
  <2>4. ~(g_scheme \in {"FCFS", "RR"})
    BY <1>1 DEF Preemptive
  <2> QED BY <1>3, <1>7, <2>1, <2>2, <2>3, <2>4, Enqueue
<1>10. g_job_queue \in Seq(Job)
  BY <1>2 DEF Sound, Placed
<1>11. \A k \in 1 .. Len(q) : q[k] = x \/ \E m \in 1 .. Len(g_job_queue) : q[k] = g_job_queue[m]
  <2>1. PICK n \in 1 .. Len(g_job_queue) + 1 :
          /\ Len(q) = Len(g_job_queue) + 1
          /\ \A k \in 1 .. Len(g_job_queue) + 1 :
               q[k] = IF k < n THEN g_job_queue[k] ELSE IF k = n THEN x ELSE g_job_queue[k - 1]
    BY <1>3, <1>4, <1>10, InsertAtPosition DEF Clock
  <2> HIDE DEF q
  <2>2. ASSUME NEW k \in 1 .. Len(q)
        PROVE  q[k] = x \/ \E m \in 1 .. Len(g_job_queue) : q[k] = g_job_queue[m]
    <3>1. CASE k < n
      <4>1. k \in 1 .. Len(g_job_queue) /\ q[k] = g_job_queue[k]
        BY <1>10, <2>1, <3>1
      <4> QED BY <4>1
    <3>2. CASE k = n
      BY <2>1, <3>2
    <3>3. CASE k > n
      <4>1. k - 1 \in 1 .. Len(g_job_queue) /\ q[k] = g_job_queue[k - 1]
        BY <1>10, <2>1, <3>3
      <4> QED BY <4>1
    <3> QED BY <2>1, <3>1, <3>2, <3>3
  <2> QED BY <2>2
<1> HIDE DEF q
<1>12. New(q, r, j)
  BY <1>1, <1>2, <1>3, <1>4, <1>8, <1>11, UpToDateSound DEF New, SchedIInv, IdleAgree
<1>13. ASSUME NEW k \in 1 .. Len(q)
       PROVE  job_compare(j, q[k]) <= 0
  <2>1. CASE q[k] = x
    <3>1. job_compare(j, x) < 0
      BY <1>3, <1>5, <1>6
    <3> QED BY <1>3, <1>4, <2>1, <3>1, CompareOrder DEF Clock
  <2>2. ASSUME NEW m \in 1 .. Len(g_job_queue), q[k] = g_job_queue[m]
        PROVE  job_compare(j, q[k]) <= 0
    <3>1. g_job_queue[m] \in Job /\ u[core] \in Job
      BY <1>1, <1>2, <1>10
    <3>2. job_compare(u[core], g_job_queue[m]) <= 0
      BY <1>1, <1>2 DEF Sound, Ranked
    <3>3. job_compare(g_job_queue[m], u[core]) >= 0 /\ job_compare(u[core], j) >= 0
      BY <1>1, <1>3, <1>5, <3>1, <3>2, CompareOrder DEF Clock
    <3> QED BY <1>1, <1>3, <2>2, <3>1, <3>3, CompareOrder DEF Clock
  <2> QED BY <1>11, <2>1, <2>2
<1>14. Sound(q, [r EXCEPT ![core] = Started(j)])
  BY <1>1, <1>3, <1>8, <1>9, <1>12, <1>13, StartNew DEF Preemptive
<1>15. [r EXCEPT ![core] = Started(j)] = g_running_jobs'
  BY <1>2, <1>5 DEF r
<1>16. IdleAgree'
  <2>1. Started(j) # NULL
    BY <1>3, StartedFields
  <2> QED BY <1>1, <1>2, <1>5, <2>1 DEF IdleAgree
<1> QED BY <1>5, <1>14, <1>15, <1>16, CallDone DEF SchedIInv, SchedTypeOK

LEMMA NewJobWaitsStep ==
  ASSUME SchedIInv, NEW id \in Jobs \ LiveIds, NEW p \in Priorities, NEW t \in RunTimes,
         NEW j, j = new_job(id, p, t), NEW ret, NewJobWaits(j, ret), UNCHANGED time
  PROVE  SchedIInv'
<1> DEFINE u == UpToDate
           x == [j EXCEPT !.latest_queue_time = time]
<1>1. /\ g_idle_cores = {} /\ g_running_jobs' = u
      /\ g_job_queue' = Order!Insert(g_job_queue, x)
      /\ UNCHANGED <<g_scheme, g_idle_cores, total>>
  BY DEF NewJobWaits
<1>2. /\ Sound(g_job_queue, u) /\ u \in [Cores -> Job]
      /\ \A c \in Cores : u[c] # NULL /\ u[c].job_id = g_running_jobs[c].job_id
  BY <1>1, UpToDateSound
<1>3. /\ Clock /\ j \in Job /\ New(g_job_queue, g_running_jobs, j)
      /\ j.arrival_time = time /\ j.start_time = -1 /\ time # -1
      /\ \A b \in InPlay(g_job_queue, g_running_jobs) : b \in Job /\ Past(b)
  BY NewJobFields DEF New, Clock
<1>4. Preemptive => \E core \in Cores : LeastImportant(u, core) /\ job_compare(j, u[core]) >= 0
  BY DEF NewJobWaits
<1>5. /\ x \in Job /\ x.job_id = j.job_id /\ x.arrival_time = time /\ x.start_time = -1
      /\ x.latest_queue_time = time
      /\ x.remaining_time = j.remaining_time /\ x.priority = j.priority
  BY <1>3 DEF Clock, Job
<1> HIDE DEF x
<1>6. New(g_job_queue, u, x)
  BY <1>1, <1>2, <1>3, <1>5 DEF New, SchedIInv, IdleAgree
<1>7. ASSUME Preemptive, NEW c \in Cores
      PROVE  job_compare(u[c], x) <= 0
  <2>1. PICK core \in Cores : LeastImportant(u, core) /\ job_compare(j, u[core]) >= 0
    BY <1>4, <1>7
  <2>2. job_compare(u[c], u[core]) <= 0
    BY <2>1 DEF LeastImportant
  <2>3. job_compare(x, u[core]) >= 0 /\ u[c] \in Job /\ u[core] \in Job
    BY <1>2, <1>3, <1>5, <1>7, <2>1
       DEF job_compare, job_compare_sjf, job_compare_pri, Preemptive
  <2>4. job_compare(u[core], u[c]) >= 0
    BY <1>3, <1>7, <2>2, <2>3, CompareOrder DEF Clock
  <2>5. job_compare(x, u[c]) >= 0
    BY <1>3, <1>5, <2>3, <2>4, CompareOrder DEF Clock
  <2> QED BY <1>3, <1>5, <1>7, <2>3, <2>5, CompareOrder DEF Clock
<1>8. ASSUME g_scheme \in {"FCFS", "RR"}, NEW b \in InPlay(g_job_queue, u)
      PROVE  InTurn(x, b) /\ InTurn(b, x)
  <2>1. u = g_running_jobs
    BY <1>8 DEF UpToDate, Preemptive
  <2>2. b.arrival_time \in Nat /\ b.arrival_time <= time
    <3>1. b \in Job /\ Past(b)
      BY <1>3, <2>1
    <3> QED BY <3>1 DEF Job, Past
  <2> QED BY <1>3, <1>5, <2>2 DEF InTurn, Clock
<1> HIDE DEF u
<1>9. Sound(Order!Insert(g_job_queue, x), u)
  BY <1>2, <1>3, <1>5, <1>6, <1>7, <1>8, Enqueue DEF Past, Clock
<1>10. IdleAgree'
  BY <1>1, <1>2 DEF IdleAgree
<1> QED BY <1>1, <1>9, <1>10, CallDone DEF SchedIInv, SchedTypeOK

\* A core that was given up takes the next job, or is idle.
LEMMA ScheduleNext ==
  ASSUME SchedIInv, NEW core \in Cores, g_running_jobs[core] # NULL,
         NEW q, Sound(q, [g_running_jobs EXCEPT ![core] = NULL]),
         g_idle_cores # {} => Len(q) <= 1,
         NEW ret, schedule_next_job(q, core, ret)
  PROVE  /\ Sound(g_job_queue', g_running_jobs')
         /\ g_idle_cores' \subseteq Cores
         /\ IdleAgree'
<1> DEFINE r == [g_running_jobs EXCEPT ![core] = NULL]
<1>1. /\ g_running_jobs \in [Cores -> Job \cup {NULL}] /\ g_idle_cores \subseteq Cores
      /\ g_idle_cores # {} => g_job_queue = <<>>
      /\ Clock
  BY DEF SchedIInv, SchedTypeOK, IdleAgree, Clock
<1>2. r[core] = NULL
  BY <1>1
<1>3. CASE q = <<>>
  <2>1. /\ g_job_queue' = q /\ g_running_jobs' = r
        /\ g_idle_cores' = g_idle_cores \cup {core}
    BY <1>3 DEF schedule_next_job
  <2> QED BY <1>1, <1>3, <2>1 DEF SchedIInv, IdleAgree
<1>4. CASE q # <<>>
  <2>1. /\ g_job_queue' = Tail(q)
        /\ g_running_jobs' = [g_running_jobs EXCEPT ![core] = Started(Head(q))]
        /\ g_idle_cores' = g_idle_cores
    BY <1>4 DEF schedule_next_job
  <2>2. [r EXCEPT ![core] = Started(Head(q))] = g_running_jobs'
    BY <1>1, <2>1
  <2> HIDE DEF r
  <2>3. Sound(g_job_queue', g_running_jobs')
    <3>1. Sound(q, r) /\ r[core] = NULL
      BY <1>2 DEF r
    <3>2. Sound(Tail(q), [r EXCEPT ![core] = Started(Head(q))])
      BY <1>1, <1>4, <3>1, StartHead
    <3> QED BY <2>1, <2>2, <3>2
  <2>4. Started(Head(q)) # NULL
    <3>1. q \in Seq(Job)
      BY DEF Sound, Placed
    <3>2. Head(q) \in Job
      BY <1>4, <3>1
    <3> QED BY <1>1, <3>2, StartedFields
  <2>5. ASSUME NEW c \in Cores
        PROVE  c \in g_idle_cores' <=> g_running_jobs'[c] = NULL
    BY <1>1, <2>1, <2>4 DEF SchedIInv, IdleAgree
  <2>6. g_idle_cores # {} => g_job_queue' = <<>>
    <3>1. q \in Seq(Job)
      BY DEF Sound, Placed
    <3> QED BY <1>4, <2>1, <3>1
  <2> QED BY <1>1, <2>1, <2>3, <2>5, <2>6 DEF IdleAgree
<1> QED BY <1>3, <1>4

LEMMA JobFinishedStep ==
  ASSUME SchedIInv, NEW core \in Cores, NEW ret, scheduler_job_finished(core, ret),
         UNCHANGED time
  PROVE  SchedIInv'
<1>1. g_running_jobs[core] # NULL /\ g_running_jobs[core] \in Job
  BY DEF scheduler_job_finished, SchedIInv, SchedTypeOK
<1>2. Sound(g_job_queue, [g_running_jobs EXCEPT ![core] = NULL])
  BY Vacate DEF SchedIInv
<1>3. Sound(g_job_queue', g_running_jobs') /\ g_idle_cores' \subseteq Cores /\ IdleAgree'
  <2>1. g_idle_cores # {} => Len(g_job_queue) <= 1
    BY DEF SchedIInv, IdleAgree
  <2> QED BY <1>1, <1>2, <2>1, ScheduleNext DEF scheduler_job_finished
<1>4. total' \in [jobs : Nat, waiting : Int, turnaround : Int, response : Int]
  <2>1. /\ total.jobs \in Nat /\ total.turnaround \in Int /\ total.waiting \in Int
        /\ total.response \in Int /\ time \in Int
    BY DEF SchedIInv, SchedTypeOK
  <2>2. /\ g_running_jobs[core].arrival_time \in Int
        /\ g_running_jobs[core].start_time \in Int
        /\ g_running_jobs[core].running_time \in Int
    <3>1. /\ g_running_jobs[core].arrival_time \in Nat
          /\ g_running_jobs[core].start_time \in Nat \cup {-1}
          /\ g_running_jobs[core].running_time \in RunTimes
      BY <1>1 DEF Job
    <3>2. \A t \in RunTimes : t \in Int
      BY RunTimesAssumption
    <3> QED BY <3>1, <3>2
  <2> QED BY <2>1, <2>2 DEF scheduler_job_finished, Account
<1> QED BY <1>3, <1>4, CallDone DEF scheduler_job_finished

\* Under RR the job goes to the end of the queue it may be taken from at once.
LEMMA QuantumQueued ==
  ASSUME SchedIInv, g_scheme = "RR", NEW core \in Cores, g_running_jobs[core] # NULL
  PROVE  LET j == [g_running_jobs[core] EXCEPT !.latest_queue_time = time]
         IN  /\ j \in Job /\ j.job_id = g_running_jobs[core].job_id
             /\ Sound(Order!Insert(g_job_queue, j), [g_running_jobs EXCEPT ![core] = NULL])
<1> DEFINE o == g_running_jobs[core]
           j == [o EXCEPT !.latest_queue_time = time]
           r == [g_running_jobs EXCEPT ![core] = NULL]
<1>1. /\ o # NULL /\ o \in Job /\ Clock
      /\ g_running_jobs \in [Cores -> Job \cup {NULL}]
  BY DEF SchedIInv, SchedTypeOK, Clock
<1>2. /\ j \in Job /\ j.job_id = o.job_id /\ j.arrival_time = o.arrival_time
      /\ j.start_time = o.start_time /\ j.latest_queue_time = time
  BY <1>1 DEF Job, Clock
<1>3. Sound(g_job_queue, r)
  BY Vacate DEF SchedIInv
<1>4. \A c \in Cores : r[c] # NULL => c # core /\ r[c] = g_running_jobs[c]
  BY <1>1
<1>5. o \in InPlay(g_job_queue, g_running_jobs)
      /\ InPlay(g_job_queue, r) \subseteq InPlay(g_job_queue, g_running_jobs)
  BY <1>1, <1>4 DEF InPlay
<1> HIDE DEF j, r
<1>6. New(g_job_queue, r, j)
  BY <1>1, <1>2, <1>4 DEF New, SchedIInv, Sound, Placed
<1>7. Past(j) /\ j.start_time # -1
  BY <1>1, <1>2 DEF SchedIInv, Sound, Timed, Served, Past
<1>8. \A b \in InPlay(g_job_queue, r) : InTurn(j, b) /\ InTurn(b, j)
  <2>1. \A b \in InPlay(g_job_queue, r) : InTurn(o, b) /\ InTurn(b, o)
    BY <1>5 DEF SchedIInv, Sound, Served
  <2> QED BY <1>2, <2>1 DEF InTurn
<1>9. Sound(Order!Insert(g_job_queue, j), r)
  BY <1>1, <1>2, <1>3, <1>6, <1>7, <1>8, Enqueue DEF Preemptive, Clock
<1> QED BY <1>2, <1>9 DEF j, r

LEMMA QuantumExpiredStep ==
  ASSUME SchedIInv, g_scheme = "RR", NEW core \in Cores, NEW ret,
         scheduler_quantum_expired(core, ret), UNCHANGED time
  PROVE  SchedIInv'
<1> DEFINE j == [g_running_jobs[core] EXCEPT !.latest_queue_time = time]
           q == Order!Insert(g_job_queue, j)
<1>1. g_running_jobs[core] # NULL /\ schedule_next_job(q, core, ret)
      /\ UNCHANGED <<g_scheme, total>>
  BY DEF scheduler_quantum_expired
<1>2. j \in Job /\ Sound(q, [g_running_jobs EXCEPT ![core] = NULL])
  BY <1>1, QuantumQueued
<1> HIDE DEF j
<1>3. g_idle_cores # {} => Len(q) <= 1
  <2>1. g_job_queue \in Seq(Job) /\ g_scheme \in Schemes
    BY DEF SchedIInv, SchedTypeOK
  <2>2. Len(q) = Len(g_job_queue) + 1
    BY <1>2, <2>1, InsertAtPosition
  <2> QED BY <2>2 DEF SchedIInv, IdleAgree
<1> HIDE DEF q
<1>4. Sound(g_job_queue', g_running_jobs') /\ g_idle_cores' \subseteq Cores /\ IdleAgree'
  BY <1>1, <1>2, <1>3, ScheduleNext
<1> QED BY <1>1, <1>4, CallDone DEF SchedIInv, SchedTypeOK

LEMMA TickStep ==
  ASSUME SchedIInv, Tick
  PROVE  SchedIInv'
<1>1. time' = time + 1 /\ UNCHANGED schedule /\ time \in Nat
  BY DEF Tick, SchedIInv, SchedTypeOK
<1>2. SchedTypeOK' /\ IdleAgree'
  BY <1>1 DEF SchedIInv, SchedTypeOK, IdleAgree, schedule
<1>3. Placed(g_job_queue, g_running_jobs)'
  BY <1>1 DEF SchedIInv, Sound, Placed, schedule
<1>4. Ranked(g_job_queue, g_running_jobs)'
  BY <1>1 DEF SchedIInv, Sound, Ranked, schedule, Preemptive, Order!Sorted, job_compare,
              job_compare_fcfs, job_compare_sjf, job_compare_pri
<1>5. Timed(g_job_queue, g_running_jobs)'
  <2>1. ASSUME NEW j \in Job
        PROVE  /\ j.arrival_time \in Int /\ j.start_time \in Int
               /\ j.latest_queue_time \in Int /\ j.latest_update_time \in Int
    <3>1. /\ j.arrival_time \in Nat /\ j.start_time \in Nat \cup {-1}
          /\ j.latest_queue_time \in Nat \cup {-1} /\ j.latest_update_time \in Nat \cup {-1}
      BY DEF Job
    <3> QED BY <3>1
  <2>2. /\ \A k \in 1 .. Len(g_job_queue) : g_job_queue[k] \in Job
        /\ \A c \in Cores : g_running_jobs[c] # NULL => g_running_jobs[c] \in Job
    BY DEF SchedIInv, SchedTypeOK
  <2> QED BY <1>1, <2>1, <2>2 DEF SchedIInv, Sound, Timed, Past, schedule
<1>6. Served(g_job_queue, g_running_jobs)'
  BY <1>1 DEF SchedIInv, Sound, Served, InPlay, InTurn, schedule
<1> QED BY <1>2, <1>3, <1>4, <1>5, <1>6 DEF SchedIInv, Sound

LEMMA SchedStart ==
  ASSUME SchedInit, time = 0
  PROVE  SchedIInv
<1>1. /\ g_job_queue = <<>> /\ g_running_jobs = [c \in Cores |-> NULL]
      /\ g_idle_cores = Cores /\ g_scheme \in Schemes
  BY DEF SchedInit
<1>2. SchedTypeOK /\ IdleAgree
  BY <1>1 DEF SchedInit, SchedTypeOK, IdleAgree
<1>3. Sound(g_job_queue, g_running_jobs)
  BY <1>1 DEF Sound, Placed, Ranked, Timed, Served, InPlay, Order!Sorted
<1> QED BY <1>2, <1>3 DEF SchedIInv

LEMMA SchedStep ==
  ASSUME SchedIInv, [Tick \/ Call]_<<schedule, time>>
  PROVE  SchedIInv'
<1>1. CASE Tick
  BY <1>1, TickStep
<1>2. ASSUME NEW id \in Jobs \ LiveIds, NEW t \in RunTimes, NEW p \in Priorities,
             NEW ret, scheduler_new_job(id, t, p, ret), UNCHANGED time
      PROVE  SchedIInv'
  BY <1>2, NewJobStartsStep, NewJobPreemptsStep, NewJobWaitsStep DEF scheduler_new_job
<1>3. ASSUME NEW core \in Cores, NEW ret, scheduler_job_finished(core, ret), UNCHANGED time
      PROVE  SchedIInv'
  BY <1>3, JobFinishedStep
<1>4. ASSUME g_scheme = "RR", NEW core \in Cores, NEW ret,
             scheduler_quantum_expired(core, ret), UNCHANGED time
      PROVE  SchedIInv'
  BY <1>4, QuantumExpiredStep
<1>5. CASE UNCHANGED <<schedule, time>>
  <2>1. SchedTypeOK' /\ IdleAgree'
    BY <1>5 DEF SchedIInv, SchedTypeOK, IdleAgree, schedule
  <2>2. Sound(g_job_queue', g_running_jobs')
    BY <1>5 DEF SchedIInv, schedule
  <2> QED BY <1>5, <2>1, <2>2, Carry DEF SchedIInv, schedule
<1> QED BY <1>1, <1>2, <1>3, <1>4, <1>5 DEF Call

LEMMA SchedInductive == SchedSpec => []SchedIInv
BY SchedStart, SchedStep, PTL DEF SchedSpec

-----------------------------------------------------------------------------
(***************************************************************************)
(* Theorems.                                                               *)
(***************************************************************************)
\* The scheduler's globals keep their types and ranges, whatever it is called with.
THEOREM SchedTypes == SchedSpec => []SchedTypeOK
<1>1. SchedIInv => SchedTypeOK
  BY DEF SchedIInv
<1> QED BY <1>1, SchedInductive, PTL

\* The idle queue and the array of running jobs of libscheduler.c agree, no core is
\* idle while a job waits, and no job is in two places.
THEOREM CoresAgree == SchedSpec => []CoresInv
<1>1. SchedIInv => CoresInv
  BY DEF SchedIInv, Sound, Placed, IdleAgree, CoresInv
<1> QED BY <1>1, SchedInductive, PTL

\* The queue of waiting jobs stays in the order of the scheme's comparison function.
THEOREM OrderKept == SchedSpec => []QueueInOrder
<1>1. SchedIInv => QueueInOrder
  BY DEF SchedIInv, Sound, Ranked, QueueInOrder
<1> QED BY <1>1, SchedInductive, PTL

\* scheduler_new_job()'s preemption leaves no waiting job more important than one
\* that runs.
THEOREM PreemptionComplete == SchedSpec => []ImportantFirst
<1>1. SchedIInv => ImportantFirst
  BY DEF SchedIInv, Sound, Ranked, ImportantFirst, Waiting, Running
<1> QED BY <1>1, SchedInductive, PTL

\* Under FCFS and RR no job overtakes one that came before it to its first time unit.
THEOREM ServedInTurn == SchedSpec => []FirstComeFirst
<1>1. SchedIInv => FirstComeFirst
  BY DEF SchedIInv, Sound, Served, InPlay, InTurn, FirstComeFirst, Waiting, Running
<1> QED BY <1>1, SchedInductive, PTL

-----------------------------------------------------------------------------
(***************************************************************************)
(* The simulator: its invariant.                                           *)
(***************************************************************************)
Entry == [job_id : Jobs, arrival_time : Nat, run_time : Nat, priority : Priorities,
          core_id : Cores \cup {-1}, arrived : BOOLEAN]

Listed(list) == /\ list \in Seq(Entry)
                /\ \A k, l \in 1 .. Len(list) : k # l => list[k].job_id # list[l].job_id

\* The entries E of the table say of every job where the scheduler has it: among
\* the waiting ones W or on a core of r.
Agrees(E, W, r) ==
  /\ E \subseteq Entry /\ W \subseteq Job /\ r \in [Cores -> Job \cup {NULL}]
  /\ \A e, f \in E : e.job_id = f.job_id => e = f
  /\ \A v, w \in W : v.job_id = w.job_id => v = w
  /\ \A e \in E : e.core_id # -1 => /\ e.arrived
                                    /\ r[e.core_id] # NULL
                                    /\ r[e.core_id].job_id = e.job_id
  /\ \A c \in Cores : r[c] # NULL => \E e \in E : e.job_id = r[c].job_id /\ e.core_id = c
  /\ \A w \in W : \E e \in E : e.job_id = w.job_id /\ e.core_id = -1 /\ e.arrived
  /\ \A e \in E : e.arrived /\ e.core_id = -1 => \E w \in W : w.job_id = e.job_id

\* They agree about what is left of it, where the scheme looks at that.
AgreesLeft(E, W, r) == g_scheme = "PSJF" => \A e \in E :
  /\ \A w \in W : w.job_id = e.job_id => w.remaining_time = e.run_time
  /\ \A c \in Cores : r[c] # NULL /\ r[c].job_id = e.job_id
       => r[c].remaining_time - (time - r[c].latest_update_time) = e.run_time

Table(E, W, r) == Agrees(E, W, r) /\ AgreesLeft(E, W, r)

\* Jobs have arrived when their time has come and the loop has been there.
InTime(list) == \A k \in 1 .. Len(list) :
  list[k].arrived <=> \/ list[k].arrival_time < time
                      \/ /\ list[k].arrival_time = time
                         /\ at = "run" \/ (at = "arrive" /\ k < i)

\* Jobs with nothing left are on a core, and the loop has not passed them.
Work(list) == \A k \in 1 .. Len(list) :
  /\ list[k].run_time = 0 => at = "finish" /\ k >= i /\ list[k].core_id # -1
  /\ ~list[k].arrived => list[k].run_time \in RunTimes

AliveIds(E) == {e.job_id : e \in {f \in E : f.arrived}}

Alive(E) == jobs_alive = Cardinality(AliveIds(E))

Control == /\ at \in {"finish", "quantum", "arrive", "run", "done"}
           /\ i \in Nat \ {0}
           /\ at = "quantum" => g_scheme = "RR"
           /\ at = "done" => jobs = <<>>
           /\ quantum \in Nat
           /\ quantum_clock \in [Cores -> Int]

SimIInv == /\ SchedIInv
           /\ Control
           /\ Listed(jobs)
           /\ Table(ToSet(jobs), Waiting, g_running_jobs)
           /\ InTime(jobs)
           /\ Work(jobs)
           /\ Alive(ToSet(jobs))

-----------------------------------------------------------------------------
(***************************************************************************)
(* What happens to one job, in the table and in the scheduler.             *)
(***************************************************************************)
\* A job on a core is known by its core.
LEMMA WhoseCore ==
  ASSUME NEW E, NEW W, NEW r, Agrees(E, W, r), NEW e \in E, NEW c \in Cores
  PROVE  e.core_id = c <=> r[c] # NULL /\ r[c].job_id = e.job_id
<1>1. c # -1
  BY CoresAssumption DEF Cores
<1>2. CASE r[c] # NULL /\ r[c].job_id = e.job_id
  BY <1>2 DEF Agrees
<1>3. CASE e.core_id = c
  BY <1>1, <1>3 DEF Agrees
<1> QED BY <1>2, <1>3

\* A job that ends is deleted, and its core is free.
LEMMA Drop ==
  ASSUME NEW E, NEW W, NEW r, Table(E, W, r), NEW e \in E, NEW c \in Cores, e.core_id = c
  PROVE  Table(E \ {e}, W, [r EXCEPT ![c] = NULL])
<1> DEFINE s == [r EXCEPT ![c] = NULL]
<1>1. Agrees(E, W, r) /\ c # -1
  BY CoresAssumption DEF Table, Cores
<1>2. /\ s \in [Cores -> Job \cup {NULL}] /\ s[c] = NULL
      /\ \A d \in Cores : d # c => s[d] = r[d]
  BY <1>1 DEF Agrees
<1> HIDE DEF s
<1>3. \A f \in E \ {e} : f.core_id # c /\ f.job_id # e.job_id
  BY <1>1 DEF Agrees
<1>4. Agrees(E \ {e}, W, s)
  <2>1. ASSUME NEW f \in E \ {e}, f.core_id # -1
        PROVE  f.arrived /\ s[f.core_id] # NULL /\ s[f.core_id].job_id = f.job_id
    <3>1. f.core_id \in Cores /\ f.core_id # c
      BY <1>1, <1>3, <2>1 DEF Agrees, Entry
    <3> QED BY <1>1, <1>2, <2>1, <3>1 DEF Agrees
  <2>2. ASSUME NEW d \in Cores, s[d] # NULL
        PROVE  \E f \in E \ {e} : f.job_id = s[d].job_id /\ f.core_id = d
    BY <1>1, <1>2, <2>2 DEF Agrees
  <2>3. ASSUME NEW w \in W
        PROVE  \E f \in E \ {e} : f.job_id = w.job_id /\ f.core_id = -1 /\ f.arrived
    BY <1>1 DEF Agrees
  <2> QED BY <1>1, <1>2, <2>1, <2>2, <2>3 DEF Agrees
<1>5. AgreesLeft(E \ {e}, W, s)
  BY <1>2 DEF Table, AgreesLeft
<1> QED BY <1>4, <1>5 DEF Table, s

\* So is one that is taken out of the queue.
LEMMA TakeOut ==
  ASSUME NEW E, NEW W, NEW r, Table(E, W, r), NEW e \in E, NEW w \in W, e.job_id = w.job_id
  PROVE  Table(E \ {e}, W \ {w}, r)
<1>1. Agrees(E, W, r)
  BY DEF Table
<1>2. e.core_id = -1 /\ \A f \in E \ {e} : f.job_id # e.job_id
  BY <1>1 DEF Agrees
<1>3. \A v \in W \ {w} : v.job_id # w.job_id
  BY <1>1 DEF Agrees
<1>4. Agrees(E \ {e}, W \ {w}, r)
  <2>1. ASSUME NEW c \in Cores, r[c] # NULL
        PROVE  \E f \in E \ {e} : f.job_id = r[c].job_id /\ f.core_id = c
    <3>1. c # -1
      BY CoresAssumption DEF Cores
    <3> QED BY <1>1, <1>2, <2>1, <3>1 DEF Agrees
  <2>2. ASSUME NEW v \in W \ {w}
        PROVE  \E f \in E \ {e} : f.job_id = v.job_id /\ f.core_id = -1 /\ f.arrived
    BY <1>1, <1>3 DEF Agrees
  <2>3. ASSUME NEW f \in E \ {e}, f.arrived, f.core_id = -1
        PROVE  \E v \in W \ {w} : v.job_id = f.job_id
    BY <1>1, <1>2, <2>3 DEF Agrees
  <2> QED BY <1>1, <2>1, <2>2, <2>3 DEF Agrees
<1>5. AgreesLeft(E \ {e}, W \ {w}, r)
  BY DEF Table, AgreesLeft
<1> QED BY <1>4, <1>5 DEF Table

\* And one that has not arrived is nowhere.
LEMMA Forget ==
  ASSUME NEW E, NEW W, NEW r, Table(E, W, r), NEW e \in E, ~e.arrived
  PROVE  Table(E \ {e}, W, r)
<1>1. Agrees(E, W, r)
  BY DEF Table
<1>2. Agrees(E \ {e}, W, r)
  <2>1. \A c \in Cores : r[c] # NULL
          => \E f \in E \ {e} : f.job_id = r[c].job_id /\ f.core_id = c
    <3>1. \A c \in Cores : c # -1
      BY CoresAssumption DEF Cores
    <3> QED BY <1>1, <3>1 DEF Agrees
  <2>2. \A w \in W : \E f \in E \ {e} : f.job_id = w.job_id /\ f.core_id = -1 /\ f.arrived
    BY <1>1 DEF Agrees
  <2> QED BY <1>1, <2>1, <2>2 DEF Agrees
<1>3. AgreesLeft(E \ {e}, W, r)
  BY DEF Table, AgreesLeft
<1> QED BY <1>2, <1>3 DEF Table

\* A job that is nowhere is put in the queue.
LEMMA AddWaiting ==
  ASSUME NEW E, NEW W, NEW r, Table(E, W, r),
         NEW f \in Entry, \A e \in E : e.job_id # f.job_id, f.core_id = -1, f.arrived,
         NEW x \in Job, x.job_id = f.job_id,
         g_scheme = "PSJF" => x.remaining_time = f.run_time
  PROVE  Table(E \cup {f}, W \cup {x}, r)
<1>1. Agrees(E, W, r)
  BY DEF Table
<1>2. \A w \in W : w.job_id # f.job_id
  BY <1>1 DEF Agrees
<1>3. \A c \in Cores : r[c] # NULL => r[c].job_id # f.job_id
  BY <1>1 DEF Agrees
<1>4. Agrees(E \cup {f}, W \cup {x}, r)
  <2>1. \A v, w \in W \cup {x} : v.job_id = w.job_id => v = w
    BY <1>1, <1>2 DEF Agrees
  <2>2. \A d, e \in E \cup {f} : d.job_id = e.job_id => d = e
    BY <1>1 DEF Agrees
  <2>3. \A e \in E \cup {f} : e.core_id # -1 => /\ e.arrived
                                                /\ r[e.core_id] # NULL
                                                /\ r[e.core_id].job_id = e.job_id
    BY <1>1 DEF Agrees
  <2>4. \A w \in W \cup {x} : \E e \in E \cup {f} :
          e.job_id = w.job_id /\ e.core_id = -1 /\ e.arrived
    BY <1>1 DEF Agrees
  <2>5. \A e \in E \cup {f} : e.arrived /\ e.core_id = -1
          => \E w \in W \cup {x} : w.job_id = e.job_id
    BY <1>1 DEF Agrees
  <2> QED BY <1>1, <2>1, <2>2, <2>3, <2>4, <2>5 DEF Agrees
<1>5. AgreesLeft(E \cup {f}, W \cup {x}, r)
  BY <1>2, <1>3 DEF Table, AgreesLeft
<1> QED BY <1>4, <1>5 DEF Table

\* Or it gets a free core.
LEMMA AddRunning ==
  ASSUME Clock, NEW E, NEW W, NEW r, Table(E, W, r), NEW c \in Cores, r[c] = NULL,
         NEW f \in Entry, \A e \in E : e.job_id # f.job_id, f.core_id = c, f.arrived,
         NEW x \in Job, x.job_id = f.job_id,
         g_scheme = "PSJF" => x.remaining_time = f.run_time
  PROVE  Table(E \cup {f}, W, [r EXCEPT ![c] = Started(x)])
<1> DEFINE s == [r EXCEPT ![c] = Started(x)]
           F == E \cup {f}
<1>1. Agrees(E, W, r) /\ c # -1
  BY CoresAssumption DEF Table, Cores
<1>2. /\ Started(x) \in Job /\ Started(x) # NULL /\ Started(x).job_id = f.job_id
      /\ Started(x).remaining_time = x.remaining_time
      /\ Started(x).latest_update_time = time
  BY StartedFields
<1>3. /\ s \in [Cores -> Job \cup {NULL}] /\ s[c] = Started(x)
      /\ \A d \in Cores : d # c => s[d] = r[d]
  BY <1>1, <1>2 DEF Agrees
<1> HIDE DEF s
<1>4. /\ \A w \in W : w.job_id # f.job_id
      /\ \A d \in Cores : d # c /\ s[d] # NULL => s[d].job_id # f.job_id
  BY <1>1, <1>3 DEF Agrees
<1>5. Agrees(F, W, s)
  <2>1. F \subseteq Entry /\ \A d, e \in F : d.job_id = e.job_id => d = e
    BY <1>1 DEF Agrees
  <2>2. ASSUME NEW e \in E, e.core_id # -1
        PROVE  e.arrived /\ s[e.core_id] # NULL /\ s[e.core_id].job_id = e.job_id
    <3>1. e.core_id \in Cores /\ e.core_id # c
      BY <1>1, <2>2 DEF Agrees, Entry
    <3> QED BY <1>1, <1>3, <2>2, <3>1 DEF Agrees
  <2>3. ASSUME NEW d \in Cores, s[d] # NULL
        PROVE  \E e \in F : e.job_id = s[d].job_id /\ e.core_id = d
    BY <1>1, <1>2, <1>3, <2>3 DEF Agrees
  <2>4. ASSUME NEW w \in W
        PROVE  \E e \in F : e.job_id = w.job_id /\ e.core_id = -1 /\ e.arrived
    BY <1>1 DEF Agrees
  <2>5. ASSUME NEW e \in F, e.arrived, e.core_id = -1
        PROVE  \E w \in W : w.job_id = e.job_id
    BY <1>1, <2>5 DEF Agrees
  <2> QED BY <1>1, <1>2, <1>3, <2>1, <2>2, <2>3, <2>4, <2>5 DEF Agrees
<1>6. ASSUME g_scheme = "PSJF", NEW e \in F
      PROVE  /\ \A w \in W : w.job_id = e.job_id => w.remaining_time = e.run_time
             /\ \A d \in Cores : s[d] # NULL /\ s[d].job_id = e.job_id
                  => s[d].remaining_time - (time - s[d].latest_update_time) = e.run_time
  <2>1. x.remaining_time - (time - time) = f.run_time
    <3>1. x.remaining_time = f.run_time /\ x.remaining_time \in Int /\ time \in Int
      BY <1>6 DEF Job, Clock
    <3> QED BY <3>1
  <2>2. CASE e = f
    BY <1>2, <1>3, <1>4, <2>1, <2>2
  <2>3. CASE e # f
    BY <1>2, <1>3, <1>6, <2>3 DEF Table, AgreesLeft
  <2> QED BY <2>2, <2>3
<1>7. AgreesLeft(F, W, s)
  BY <1>6 DEF AgreesLeft
<1> QED BY <1>5, <1>7 DEF Table, s

\* update_remaining_time() of every running job, when no core is idle.
LEMMA Refresh ==
  ASSUME SchedIInv, g_idle_cores = {}, NEW E, NEW W, Table(E, W, g_running_jobs)
  PROVE  Table(E, W, UpToDate)
<1>1. /\ UpToDate \in [Cores -> Job]
      /\ \A c \in Cores : /\ UpToDate[c] # NULL /\ g_running_jobs[c] # NULL
                          /\ UpToDate[c].job_id = g_running_jobs[c].job_id
  BY UpToDateSound DEF SchedIInv, IdleAgree
<1>2. Agrees(E, W, g_running_jobs)
  BY DEF Table
<1>3. Agrees(E, W, UpToDate)
  <2>1. \A e \in E : e.core_id # -1 => e.core_id \in Cores
    BY <1>2 DEF Agrees, Entry
  <2> QED BY <1>1, <1>2, <2>1 DEF Agrees
<1>4. ASSUME g_scheme = "PSJF", NEW c \in Cores
      PROVE  UpToDate[c].remaining_time - (time - UpToDate[c].latest_update_time)
               = g_running_jobs[c].remaining_time - (time - g_running_jobs[c].latest_update_time)
  <2>1. Clock /\ g_running_jobs[c] \in Job /\ g_running_jobs[c].latest_update_time <= time
    BY <1>1 DEF SchedIInv, SchedTypeOK, Clock, Sound, Timed
  <2>2. UpToDate[c] = Updated(g_running_jobs[c])
    BY <1>4 DEF UpToDate, Preemptive
  <2>3. g_running_jobs[c].remaining_time \in Int
        /\ g_running_jobs[c].latest_update_time \in Nat \cup {-1} /\ time \in Int
    BY <2>1 DEF Job, Clock
  <2>4. /\ UpToDate[c].latest_update_time = time
        /\ UpToDate[c].remaining_time
             = g_running_jobs[c].remaining_time - (time - g_running_jobs[c].latest_update_time)
    BY <2>1, <2>2, UpdatedFields
  <2> QED BY <2>3, <2>4
<1>5. AgreesLeft(E, W, UpToDate)
  BY <1>1, <1>4 DEF Table, AgreesLeft
<1> QED BY <1>3, <1>5 DEF Table

-----------------------------------------------------------------------------
(***************************************************************************)
(* The table and the queue as sequences.                                   *)
(***************************************************************************)
LEMMA Members ==
  ASSUME NEW S, NEW s \in Seq(S)
  PROVE  ToSet(s) = {s[k] : k \in 1 .. Len(s)}
BY DEF ToSet

\* One entry changes in place.
LEMMA EntryChanged ==
  ASSUME NEW s, Listed(s), NEW k \in 1 .. Len(s), NEW f \in Entry, f.job_id = s[k].job_id,
         NEW t \in Seq(Entry), Len(t) = Len(s),
         \A l \in 1 .. Len(s) : t[l] = IF l = k THEN f ELSE s[l]
  PROVE  /\ Listed(t)
         /\ ToSet(t) = (ToSet(s) \ {s[k]}) \cup {f}
         /\ s[k] \in ToSet(s)
         /\ \A e \in ToSet(s) \ {s[k]} : e.job_id # f.job_id
<1>1. s \in Seq(Entry) /\ Len(s) \in Nat
  BY DEF Listed
<1>2. Listed(t)
  BY DEF Listed
<1>3. ToSet(s) = {s[l] : l \in 1 .. Len(s)} /\ ToSet(t) = {t[l] : l \in 1 .. Len(t)}
  BY <1>1, Members
<1>4. \A e \in ToSet(s) \ {s[k]} : e.job_id # f.job_id
  BY <1>3 DEF Listed
<1>5. \A e : e \in ToSet(t) <=> e = f \/ (e \in ToSet(s) /\ e # s[k])
  <2>1. \A l \in 1 .. Len(s) : l # k => s[l] # s[k]
    BY DEF Listed
  <2> QED BY <1>3, <2>1
<1> QED BY <1>2, <1>3, <1>4, <1>5

\* memcpy() of the last entry to the place of a finished one.
LEMMA EntryDeleted ==
  ASSUME NEW s, Listed(s), NEW k \in 1 .. Len(s)
  PROVE  LET t == Front([s EXCEPT ![k] = Last(s)]) IN
         /\ Listed(t) /\ Len(t) = Len(s) - 1
         /\ ToSet(t) = ToSet(s) \ {s[k]}
         /\ s[k] \in ToSet(s)
         /\ \A l \in 1 .. Len(t) : t[l] = IF l = k THEN s[Len(s)] ELSE s[l]
<1> DEFINE u == [s EXCEPT ![k] = Last(s)]
           t == Front(u)
<1>1. s \in Seq(Entry) /\ Len(s) \in Nat /\ Last(s) = s[Len(s)] /\ Len(s) \in 1 .. Len(s)
  BY DEF Listed, Last
<1>2. u \in Seq(Entry) /\ Len(u) = Len(s)
      /\ \A l \in 1 .. Len(s) : u[l] = IF l = k THEN s[Len(s)] ELSE s[l]
  BY <1>1
<1> HIDE DEF u
<1>3. t = SubSeq(u, 1, Len(u) - 1)
  BY DEF Front
<1> HIDE DEF t
<1>4. /\ t \in Seq(Entry) /\ Len(t) = Len(s) - 1
      /\ \A l \in 1 .. Len(t) : t[l] = IF l = k THEN s[Len(s)] ELSE s[l]
  BY <1>1, <1>2, <1>3
<1>5. Listed(t)
  BY <1>1, <1>4 DEF Listed
<1>6. ToSet(s) = {s[l] : l \in 1 .. Len(s)} /\ ToSet(t) = {t[l] : l \in 1 .. Len(t)}
  BY <1>1, <1>4, Members
<1>7. \A e : e \in ToSet(t) <=> e \in ToSet(s) /\ e # s[k]
  <2>1. \A l \in 1 .. Len(s) : l # k => s[l] # s[k]
    BY DEF Listed
  <2>2. ASSUME NEW l \in 1 .. Len(t)
        PROVE  t[l] \in ToSet(s) /\ t[l] # s[k]
    BY <1>1, <1>4, <1>6, <2>1
  <2>3. ASSUME NEW l \in 1 .. Len(s), l # k
        PROVE  s[l] \in ToSet(t)
    <3>1. CASE l = Len(s)
      BY <1>1, <1>4, <1>6, <2>3, <3>1
    <3>2. CASE l # Len(s)
      BY <1>1, <1>4, <1>6, <2>3, <3>2
    <3> QED BY <3>1, <3>2
  <2> QED BY <1>6, <2>1, <2>2, <2>3
<1>8. ToSet(t) = ToSet(s) \ {s[k]}
  BY <1>7
<1>9. s[k] \in ToSet(s)
  BY <1>6
<1> QED BY <1>4, <1>5, <1>8, <1>9 DEF t, u

\* set_active_job() finds the one entry there is.
LEMMA SetActive ==
  ASSUME NEW s, Listed(s), NEW c \in Cores
  PROVE  /\ set_active_job(s, -1, c) = s
         /\ \A k \in 1 .. Len(s) : s[k].arrived =>
              LET t == set_active_job(s, s[k].job_id, c)
              IN  /\ Knows(s, s[k].job_id)
                  /\ t \in Seq(Entry) /\ Len(t) = Len(s)
                  /\ \A l \in 1 .. Len(s) :
                       t[l] = IF l = k THEN [s[k] EXCEPT !.core_id = c] ELSE s[l]
<1>1. s \in Seq(Entry) /\ DOMAIN s = 1 .. Len(s)
  BY DEF Listed
<1>2. \A l \in 1 .. Len(s) : s[l].job_id # -1
  <2>1. \A l \in 1 .. Len(s) : s[l].job_id \in Jobs
    <3>1. \A l \in 1 .. Len(s) : s[l] \in Entry
      BY <1>1
    <3> QED BY <3>1 DEF Entry
  <2>2. -1 \notin Jobs
    BY JobsAssumption
  <2> QED BY <2>1, <2>2
<1>3. set_active_job(s, -1, c) = s
  BY <1>1, <1>2 DEF set_active_job
<1>4. ASSUME NEW k \in 1 .. Len(s), s[k].arrived
      PROVE  LET t == set_active_job(s, s[k].job_id, c)
             IN  /\ t \in Seq(Entry) /\ Len(t) = Len(s)
                 /\ \A l \in 1 .. Len(s) :
                      t[l] = IF l = k THEN [s[k] EXCEPT !.core_id = c] ELSE s[l]
  <2> DEFINE f == [s[k] EXCEPT !.core_id = c]
             t == set_active_job(s, s[k].job_id, c)
  <2>1. f \in Entry
    <3>1. s[k] \in Entry
      BY <1>1
    <3> QED BY <3>1 DEF Entry
  <2>2. t = [l \in 1 .. Len(s) |-> IF l = k THEN f ELSE s[l]]
    BY <1>1, <1>4 DEF set_active_job, Listed
  <2> HIDE DEF f, t
  <2>3. t \in Seq(Entry) /\ Len(t) = Len(s)
    BY <1>1, <2>1, <2>2
  <2>4. \A l \in 1 .. Len(s) : t[l] = IF l = k THEN f ELSE s[l]
    BY <2>2
  <2> QED BY <2>3, <2>4 DEF f, t
<1>5. ASSUME NEW k \in 1 .. Len(s), s[k].arrived
      PROVE  Knows(s, s[k].job_id)
  BY <1>1, <1>5 DEF Knows
<1> QED BY <1>3, <1>4, <1>5

\* The queue's jobs, when one is offered and when the next is taken.
LEMMA QueueMembers ==
  ASSUME Clock, NEW q \in Seq(Job)
  PROVE  /\ \A x \in Job : ToSet(Order!Insert(q, x)) = ToSet(q) \cup {x}
         /\ (q # <<>> /\ \A k, l \in 1 .. Len(q) : k # l => q[k].job_id # q[l].job_id)
              => ToSet(Tail(q)) = ToSet(q) \ {Head(q)} /\ Head(q) \in ToSet(q)
<1>1. ToSet(q) = {q[k] : k \in 1 .. Len(q)} /\ Len(q) \in Nat
  BY Members
<1>2. ASSUME NEW x \in Job
      PROVE  ToSet(Order!Insert(q, x)) = ToSet(q) \cup {x}
  <2> DEFINE s == Order!Insert(q, x)
  <2>1. PICK n \in 1 .. Len(q) + 1 :
           /\ s \in Seq(Job) /\ Len(s) = Len(q) + 1
           /\ \A k \in 1 .. Len(q) + 1 :
                s[k] = IF k < n THEN q[k] ELSE IF k = n THEN x ELSE q[k - 1]
    BY InsertAtPosition DEF Clock
  <2> HIDE DEF s
  <2>2. ToSet(s) = {s[k] : k \in 1 .. Len(q) + 1}
    BY <2>1, Members
  <2>3. ASSUME NEW k \in 1 .. Len(q) + 1
        PROVE  s[k] \in ToSet(q) \cup {x}
    <3>1. CASE k < n
      BY <1>1, <2>1, <3>1
    <3>2. CASE k = n
      BY <2>1, <3>2
    <3>3. CASE k > n
      <4>1. k - 1 \in 1 .. Len(q) /\ s[k] = q[k - 1]
        BY <1>1, <2>1, <3>3
      <4> QED BY <1>1, <4>1
    <3> QED BY <2>1, <3>1, <3>2, <3>3
  <2>4. ASSUME NEW k \in 1 .. Len(q)
        PROVE  q[k] \in ToSet(s)
    <3>1. CASE k < n
      BY <1>1, <2>1, <2>2, <3>1
    <3>2. CASE k >= n
      <4>1. k + 1 \in 1 .. Len(q) + 1 /\ s[k + 1] = q[k]
        BY <1>1, <2>1, <3>2
      <4> QED BY <2>2, <4>1
    <3> QED BY <2>1, <3>1, <3>2
  <2>5. x \in ToSet(s)
    BY <2>1, <2>2
  <2> QED BY <1>1, <2>2, <2>3, <2>4, <2>5 DEF s
<1>3. ASSUME q # <<>>, \A k, l \in 1 .. Len(q) : k # l => q[k].job_id # q[l].job_id
      PROVE  ToSet(Tail(q)) = ToSet(q) \ {Head(q)} /\ Head(q) \in ToSet(q)
  <2>1. /\ Tail(q) \in Seq(Job) /\ Len(Tail(q)) = Len(q) - 1 /\ Head(q) = q[1]
        /\ 1 \in 1 .. Len(q)
        /\ \A k \in 1 .. Len(q) - 1 : Tail(q)[k] = q[k + 1] /\ k + 1 \in 1 .. Len(q)
    BY <1>3
  <2>2. ToSet(Tail(q)) = {Tail(q)[k] : k \in 1 .. Len(q) - 1}
    BY <2>1, Members
  <2>3. \A k \in 1 .. Len(q) : k # 1 => q[k] # q[1] /\ q[k] \in ToSet(Tail(q))
    <3>1. \A k \in 1 .. Len(q) : k # 1 => k - 1 \in 1 .. Len(q) - 1 /\ Tail(q)[k - 1] = q[k]
      BY <1>1, <2>1
    <3> QED BY <1>3, <2>1, <2>2, <3>1
  <2>4. \A k \in 1 .. Len(q) - 1 : Tail(q)[k] \in ToSet(q) /\ Tail(q)[k] # q[1]
    BY <1>1, <1>3, <2>1, <2>3
  <2> QED BY <1>1, <2>1, <2>2, <2>3, <2>4
<1> QED BY <1>2, <1>3

\* All that set_active_job() changes in an entry.
Moved(e, f, c) == /\ f.arrival_time = e.arrival_time /\ f.arrived = e.arrived
                  /\ f.run_time = e.run_time
                  /\ f.core_id = e.core_id \/ f.core_id = c

\* A core that was given up gets the next job of the queue, in the scheduler and in
\* the table: the scheduler never selects an invalid job.
LEMMA CoreReassigned ==
  ASSUME SchedIInv, NEW c \in Cores, NEW L, Listed(L), NEW q \in Seq(Job),
         \A k, l \in 1 .. Len(q) : k # l => q[k].job_id # q[l].job_id,
         Table(ToSet(L), ToSet(q), [g_running_jobs EXCEPT ![c] = NULL]),
         NEW ret, schedule_next_job(q, c, ret),
         NEW next, Assign(L, ret, c, next)
  PROVE  /\ at' = at /\ i' = next
         /\ Listed(jobs') /\ Len(jobs') = Len(L)
         /\ Table(ToSet(jobs'), ToSet(g_job_queue'), g_running_jobs')
         /\ AliveIds(ToSet(jobs')) = AliveIds(ToSet(L))
         /\ \A l \in 1 .. Len(L) : Moved(L[l], jobs'[l], c)
<1> DEFINE r == [g_running_jobs EXCEPT ![c] = NULL]
<1>1. Clock /\ g_running_jobs \in [Cores -> Job \cup {NULL}] /\ L \in Seq(Entry)
  BY DEF SchedIInv, SchedTypeOK, Clock, Listed
<1>2. r[c] = NULL
  BY <1>1
<1>3. CASE q = <<>>
  <2>1. ret = -1 /\ g_job_queue' = q /\ g_running_jobs' = r
    BY <1>3 DEF schedule_next_job
  <2>2. jobs' = L /\ at' = at /\ i' = next
    BY <2>1, SetActive DEF Assign
  <2> QED BY <2>1, <2>2 DEF Moved
<1>4. CASE q # <<>>
  <2> DEFINE w == Head(q)
  <2>1. ret = w.job_id /\ g_job_queue' = Tail(q)
        /\ g_running_jobs' = [g_running_jobs EXCEPT ![c] = Started(w)]
    BY <1>4 DEF schedule_next_job
  <2>2. ToSet(Tail(q)) = ToSet(q) \ {w} /\ w \in ToSet(q) /\ w \in Job
    BY <1>1, <1>4, QueueMembers
  <2>3. [r EXCEPT ![c] = Started(w)] = g_running_jobs'
    BY <1>1, <2>1
  <2> HIDE DEF r, w
  <2>4. PICK k \in 1 .. Len(L) : L[k].job_id = w.job_id /\ L[k].core_id = -1 /\ L[k].arrived
    <3>1. \E e \in ToSet(L) : e.job_id = w.job_id /\ e.core_id = -1 /\ e.arrived
      BY <2>2 DEF Table, Agrees
    <3>2. ToSet(L) = {L[k] : k \in 1 .. Len(L)}
      BY <1>1, Members
    <3> QED BY <3>1, <3>2
  <2> DEFINE f == [L[k] EXCEPT !.core_id = c]
  <2>5. L[k] \in Entry
    BY <1>1
  <2>6. /\ f \in Entry /\ f.job_id = L[k].job_id /\ f.core_id = c /\ f.arrived
        /\ f.run_time = L[k].run_time /\ f.arrival_time = L[k].arrival_time
    BY <2>4, <2>5 DEF Entry
  <2>7. /\ jobs' \in Seq(Entry) /\ Len(jobs') = Len(L)
        /\ \A l \in 1 .. Len(L) : jobs'[l] = IF l = k THEN f ELSE L[l]
        /\ at' = at /\ i' = next
    <3>1. Knows(L, ret)
      BY <2>1, <2>4, SetActive
    <3>2. jobs' = set_active_job(L, ret, c) /\ at' = at /\ i' = next
      BY <3>1 DEF Assign
    <3> QED BY <2>1, <2>4, <3>2, SetActive
  <2> HIDE DEF f
  <2>8. /\ Listed(jobs')
        /\ ToSet(jobs') = (ToSet(L) \ {L[k]}) \cup {f}
        /\ L[k] \in ToSet(L)
        /\ \A e \in ToSet(L) \ {L[k]} : e.job_id # f.job_id
    BY <2>6, <2>7, EntryChanged
  <2>9. g_scheme = "PSJF" => w.remaining_time = f.run_time
    BY <2>2, <2>4, <2>6, <2>8 DEF Table, AgreesLeft
  <2>10. Table(ToSet(L) \ {L[k]}, ToSet(q) \ {w}, r)
    BY <2>2, <2>4, <2>8, TakeOut DEF r
  <2>11. Table(ToSet(jobs'), ToSet(q) \ {w}, [r EXCEPT ![c] = Started(w)])
    <3> DEFINE E == ToSet(L) \ {L[k]}
    <3>1. /\ \A e \in E : e.job_id # f.job_id
          /\ ToSet(jobs') = E \cup {f} /\ w.job_id = f.job_id
      BY <2>4, <2>6, <2>8
    <3> HIDE DEF E
    <3>2. Table(E, ToSet(q) \ {w}, r)
      BY <2>10 DEF E
    <3>3. Table(E \cup {f}, ToSet(q) \ {w}, [r EXCEPT ![c] = Started(w)])
      BY <1>1, <1>2, <2>2, <2>6, <2>9, <3>1, <3>2, AddRunning
    <3> QED BY <3>1, <3>3
  <2>12. Table(ToSet(jobs'), ToSet(g_job_queue'), g_running_jobs')
    BY <2>1, <2>2, <2>3, <2>11
  <2>13. AliveIds(ToSet(jobs')) = AliveIds(ToSet(L))
    BY <2>4, <2>6, <2>8 DEF AliveIds
  <2>14. \A l \in 1 .. Len(L) : Moved(L[l], jobs'[l], c)
    <3>1. Moved(L[k], f, c) /\ \A e : Moved(e, e, c)
      BY <2>4, <2>6, Zenon DEF Moved
    <3> QED BY <2>7, <3>1
  <2> QED BY <2>7, <2>8, <2>12, <2>13, <2>14
<1> QED BY <1>3, <1>4

LEMMA TableCarry ==
  ASSUME UNCHANGED <<g_scheme, time>>,
         Table(ToSet(jobs'), ToSet(g_job_queue'), g_running_jobs'),
         g_job_queue' \in Seq(Job)
  PROVE  Table(ToSet(jobs), Waiting, g_running_jobs)'
<1>1. ToSet(g_job_queue') = Waiting'
  BY Members DEF Waiting
<1>2. Table(ToSet(jobs'), Waiting', g_running_jobs')
  BY <1>1
<1> QED BY <1>2 DEF Table, Agrees, AgreesLeft

-----------------------------------------------------------------------------
(***************************************************************************)
(* The steps of main()'s loop: each keeps the invariant and is a call that *)
(* the scheduler allows, a tick of its clock or nothing to it.             *)
(***************************************************************************)
SchedulerStep == [Tick \/ Call]_<<schedule, time>>

LEMMA JobIdsFinite == IsFiniteSet(Jobs) /\ Cardinality(Jobs) = NumJobs
BY InputAssumption, FS_Interval

\* How many jobs are alive, when one ends and when one arrives.
LEMMA AliveCount ==
  ASSUME NEW E, E \subseteq Entry, NEW id \in Jobs
  PROVE  /\ IsFiniteSet(AliveIds(E))
         /\ Cardinality(AliveIds(E)) \in 0 .. NumJobs
         /\ id \in AliveIds(E)
              => Cardinality(AliveIds(E) \ {id}) = Cardinality(AliveIds(E)) - 1
         /\ id \notin AliveIds(E)
              => Cardinality(AliveIds(E) \cup {id}) = Cardinality(AliveIds(E)) + 1
<1>1. AliveIds(E) \subseteq Jobs
  BY DEF AliveIds, Entry
<1>2. /\ IsFiniteSet(AliveIds(E))
      /\ Cardinality(AliveIds(E)) <= NumJobs
  BY <1>1, JobIdsFinite, FS_Subset
<1>3. Cardinality(AliveIds(E)) \in Nat
  BY <1>2, FS_CardinalityType
<1>4. NumJobs \in Nat
  BY InputAssumption
<1>5. id \in AliveIds(E) => Cardinality(AliveIds(E) \ {id}) = Cardinality(AliveIds(E)) - 1
  BY <1>2, FS_RemoveElement
<1>6. id \notin AliveIds(E) => Cardinality(AliveIds(E) \cup {id}) = Cardinality(AliveIds(E)) + 1
  BY <1>2, FS_AddElement
<1>7. Cardinality(AliveIds(E)) \in 0 .. NumJobs
  BY <1>2, <1>3, <1>4
<1> QED BY <1>2, <1>5, <1>6, <1>7

\* The state between two calls.
LEMMA TableFacts ==
  ASSUME SimIInv
  PROVE  /\ jobs \in Seq(Entry) /\ active_jobs \in Nat
         /\ \A k \in 1 .. active_jobs : jobs[k] \in Entry
         /\ ToSet(jobs) = {jobs[k] : k \in 1 .. active_jobs}
         /\ Waiting = ToSet(g_job_queue)
         /\ g_job_queue \in Seq(Job)
         /\ \A k, l \in 1 .. Len(g_job_queue) :
              k # l => g_job_queue[k].job_id # g_job_queue[l].job_id
         /\ Agrees(ToSet(jobs), Waiting, g_running_jobs)
         /\ Clock
<1>1. /\ jobs \in Seq(Entry) /\ active_jobs \in Nat
      /\ \A k \in 1 .. active_jobs : jobs[k] \in Entry
  BY DEF SimIInv, Listed, active_jobs
<1>2. g_job_queue \in Seq(Job) /\ Clock
  BY DEF SimIInv, SchedIInv, SchedTypeOK, Clock
<1>3. ToSet(jobs) = {jobs[k] : k \in 1 .. active_jobs} /\ Waiting = ToSet(g_job_queue)
  BY <1>1, <1>2, Members DEF Waiting, active_jobs
<1> QED BY <1>1, <1>2, <1>3 DEF SimIInv, SchedIInv, Sound, Placed, Table

LEMMA FinishJobStep ==
  ASSUME SimIInv, FinishJob
  PROVE  SchedulerStep /\ SimIInv'
<1>1. PICK k \in i .. active_jobs : IsNext(k, Finished) /\
        \E new \in Jobs \cup {-1} :
         /\ scheduler_job_finished(jobs[k].core_id, new)
         /\ quantum_clock' = IF g_scheme = "RR"
                             THEN [quantum_clock EXCEPT ![jobs[k].core_id] = quantum]
                             ELSE quantum_clock
         /\ Assign(Front([jobs EXCEPT ![k] = Last(jobs)]), new, jobs[k].core_id, k)
  BY DEF FinishJob
<1> DEFINE e == jobs[k]
           c == e.core_id
           L == Front([jobs EXCEPT ![k] = Last(jobs)])
<1>2. PICK new \in Jobs \cup {-1} :
        /\ scheduler_job_finished(c, new)
        /\ quantum_clock' = IF g_scheme = "RR" THEN [quantum_clock EXCEPT ![c] = quantum]
                                               ELSE quantum_clock
        /\ Assign(L, new, c, k)
  BY <1>1
<1>3. at = "finish" /\ jobs_alive' = jobs_alive - 1 /\ UNCHANGED <<time, quantum, history>>
  BY DEF FinishJob
<1>4. k \in 1 .. active_jobs /\ e \in Entry /\ i \in Nat /\ k \in Nat \ {0}
  BY TableFacts DEF SimIInv, Control
<1>5. e.run_time = 0 /\ \A l \in i .. k - 1 : jobs[l].run_time # 0
  BY <1>1 DEF IsNext, Finished
<1>6. c \in Cores /\ e.arrived
  <2>1. c # -1
    BY <1>4, <1>5 DEF SimIInv, Work, active_jobs
  <2>2. e \in ToSet(jobs)
    BY <1>4, TableFacts
  <2> QED BY <1>4, <2>1, <2>2, TableFacts DEF Agrees, Entry
<1>7. /\ Listed(L) /\ Len(L) = active_jobs - 1
      /\ ToSet(L) = ToSet(jobs) \ {e} /\ e \in ToSet(jobs)
      /\ \A l \in 1 .. Len(L) : L[l] = IF l = k THEN jobs[active_jobs] ELSE jobs[l]
  BY <1>4, EntryDeleted DEF SimIInv, active_jobs
<1> HIDE DEF L
<1>8. SchedulerStep
  BY <1>2, <1>3, <1>6 DEF SchedulerStep, Call
<1>9. SchedIInv'
  BY <1>8, SchedStep DEF SimIInv, SchedulerStep
<1>10. schedule_next_job(g_job_queue, c, new) /\ UNCHANGED <<g_scheme, time>>
  BY <1>2, <1>3 DEF scheduler_job_finished
<1>11. Table(ToSet(L), ToSet(g_job_queue), [g_running_jobs EXCEPT ![c] = NULL])
  <2>1. Table(ToSet(jobs), ToSet(g_job_queue), g_running_jobs)
    BY TableFacts DEF SimIInv
  <2>2. c \in Cores /\ e \in ToSet(jobs) /\ e.core_id = c /\ ToSet(L) = ToSet(jobs) \ {e}
    BY <1>6, <1>7
  <2> HIDE DEF e, c
  <2>3. Table(ToSet(jobs) \ {e}, ToSet(g_job_queue), [g_running_jobs EXCEPT ![c] = NULL])
    BY <2>1, <2>2, Drop
  <2> QED BY <2>2, <2>3
<1>12. /\ at' = at /\ i' = k
       /\ Listed(jobs') /\ Len(jobs') = Len(L)
       /\ Table(ToSet(jobs'), ToSet(g_job_queue'), g_running_jobs')
       /\ AliveIds(ToSet(jobs')) = AliveIds(ToSet(L))
       /\ \A l \in 1 .. Len(L) : Moved(L[l], jobs'[l], c)
  BY <1>2, <1>6, <1>7, <1>10, <1>11, CoreReassigned, TableFacts DEF SimIInv
<1>13. Table(ToSet(jobs), Waiting, g_running_jobs)'
  BY <1>9, <1>10, <1>12, TableCarry DEF SchedIInv, SchedTypeOK
<1>14. ASSUME NEW l \in 1 .. Len(jobs')
       PROVE  \E m \in 1 .. active_jobs :
                /\ Moved(jobs[m], jobs'[l], c)
                /\ m = IF l = k THEN active_jobs ELSE l
  <2>1. l \in 1 .. Len(L) /\ Moved(L[l], jobs'[l], c)
    BY <1>12
  <2>2. CASE l = k
    <3>1. active_jobs \in 1 .. active_jobs /\ Moved(jobs[active_jobs], jobs'[l], c)
      BY <1>4, <1>7, <2>1, <2>2, TableFacts
    <3> QED BY <2>2, <3>1
  <2>3. CASE l # k
    <3>1. l \in 1 .. active_jobs /\ Moved(jobs[l], jobs'[l], c)
      BY <1>7, <2>1, <2>3, TableFacts
    <3> QED BY <2>3, <3>1
  <2> QED BY <2>2, <2>3
<1>15. InTime(jobs)'
  BY <1>3, <1>12, <1>14, TableFacts DEF SimIInv, InTime, Moved, active_jobs
<1>16. Work(jobs)'
  <2> SUFFICES ASSUME NEW l \in 1 .. Len(jobs')
               PROVE  /\ jobs'[l].run_time = 0 => l >= k /\ jobs'[l].core_id # -1
                      /\ ~jobs'[l].arrived => jobs'[l].run_time \in RunTimes
    BY <1>3, <1>12 DEF Work
  <2>1. PICK m \in 1 .. active_jobs : /\ Moved(jobs[m], jobs'[l], c)
                                      /\ m = IF l = k THEN active_jobs ELSE l
    BY <1>14
  <2>2. c # -1
    BY <1>6, CoresAssumption DEF Cores
  <2>3. /\ jobs[m].run_time = 0 => m >= i /\ jobs[m].core_id # -1
        /\ ~jobs[m].arrived => jobs[m].run_time \in RunTimes
    BY DEF SimIInv, Work, active_jobs
  <2>4. jobs[m].run_time = 0 => l >= k
    BY <1>4, <1>5, <2>1, <2>3
  <2> QED BY <2>1, <2>2, <2>3, <2>4 DEF Moved
<1>17. Alive(ToSet(jobs))'
  <2>1. e.job_id \in AliveIds(ToSet(jobs)) /\ e.job_id \in Jobs
    BY <1>4, <1>6, <1>7 DEF AliveIds, Entry
  <2>2. AliveIds(ToSet(L)) = AliveIds(ToSet(jobs)) \ {e.job_id}
    BY <1>7, TableFacts DEF AliveIds, Agrees
  <2>3. ToSet(jobs) \subseteq Entry
    BY TableFacts DEF Agrees
  <2>4. Cardinality(AliveIds(ToSet(jobs'))) = Cardinality(AliveIds(ToSet(jobs))) - 1
    BY <1>12, <2>1, <2>2, <2>3, AliveCount
  <2> QED BY <1>3, <2>4 DEF SimIInv, Alive, AliveIds
<1>18. Control'
  BY <1>2, <1>3, <1>4, <1>6, <1>12 DEF SimIInv, Control
<1> QED BY <1>8, <1>9, <1>12, <1>13, <1>15, <1>16, <1>17, <1>18 DEF SimIInv

\* The loops end: what held of the entries passed holds of all.
LEMMA LoopsDoneStep ==
  ASSUME SimIInv, FinishDone \/ QuantaDone \/ ArrivalsDone
  PROVE  SchedulerStep /\ SimIInv'
<1>1. UNCHANGED <<schedule, time, table, history>> /\ i' = 1
  BY DEF FinishDone, QuantaDone, ArrivalsDone, goto
<1>2. SchedulerStep
  BY <1>1 DEF SchedulerStep
<1>3. SchedIInv'
  BY <1>2, SchedStep DEF SimIInv, SchedulerStep
<1>4. Listed(jobs)' /\ Table(ToSet(jobs), Waiting, g_running_jobs)' /\ Alive(ToSet(jobs))'
  BY <1>1 DEF SimIInv, Listed, Table, Agrees, AgreesLeft, Alive, AliveIds, Waiting, ToSet,
              schedule, table
<1>5. \A k \in 1 .. active_jobs : k \in Int /\ jobs[k].arrival_time \in Int
  BY TableFacts DEF Entry
<1>6. i \in Nat /\ i >= 1 /\ time \in Nat /\ active_jobs \in Nat
  BY TableFacts DEF SimIInv, Control, Clock
<1>7. CASE FinishDone
  <2>1. /\ at = "finish" /\ \A k \in i .. active_jobs : jobs[k].run_time # 0
        /\ at' = IF active_jobs = 0 THEN "done"
                 ELSE IF g_scheme = "RR" THEN "quantum" ELSE "arrive"
    BY <1>7 DEF FinishDone, goto, Finished
  <2>2. Control'
    <3>1. active_jobs = 0 => jobs = <<>>
      BY TableFacts DEF active_jobs
    <3> QED BY <1>1, <2>1, <3>1 DEF SimIInv, Control, table, schedule
  <2>3. InTime(jobs)'
    BY <1>1, <1>5, <2>1 DEF SimIInv, InTime, active_jobs, table
  <2>4. Work(jobs)'
    BY <1>1, <1>5, <1>6, <2>1 DEF SimIInv, Work, active_jobs, table
  <2> QED BY <1>2, <1>3, <1>4, <2>2, <2>3, <2>4 DEF SimIInv
<1>8. CASE QuantaDone
  <2>1. at = "quantum" /\ at' = "arrive"
    BY <1>8 DEF QuantaDone, goto
  <2>2. Control' /\ Work(jobs)'
    BY <1>1, <2>1 DEF SimIInv, Control, Work, table
  <2>3. InTime(jobs)'
    BY <1>1, <1>5, <2>1 DEF SimIInv, InTime, active_jobs, table
  <2> QED BY <1>2, <1>3, <1>4, <2>2, <2>3 DEF SimIInv
<1>9. CASE ArrivalsDone
  <2>1. /\ at = "arrive" /\ at' = "run"
        /\ \A k \in i .. active_jobs : jobs[k].arrival_time # time
    BY <1>9 DEF ArrivalsDone, goto, Arrives
  <2>2. Control' /\ Work(jobs)'
    BY <1>1, <2>1 DEF SimIInv, Control, Work, table
  <2>3. InTime(jobs)'
    BY <1>1, <1>5, <1>6, <2>1 DEF SimIInv, InTime, active_jobs, table
  <2> QED BY <1>2, <1>3, <1>4, <2>2, <2>3 DEF SimIInv
<1> QED BY <1>7, <1>8, <1>9

LEMMA QuantumExpiresStep ==
  ASSUME SimIInv, QuantumExpires
  PROVE  SchedulerStep /\ SimIInv'
<1>1. /\ at = "quantum" /\ g_scheme = "RR"
      /\ UNCHANGED <<time, jobs_alive, quantum, history>>
  BY DEF QuantumExpires, SimIInv, Control
<1>2. PICK k \in i .. g_total_cores :
        \E l \in 1 .. active_jobs, new \in Jobs \cup {-1} :
         /\ jobs[l].core_id = k - 1
         /\ scheduler_quantum_expired(k - 1, new)
         /\ quantum_clock' = [quantum_clock EXCEPT ![k - 1] = quantum]
         /\ Assign([jobs EXCEPT ![l].core_id = -1], new, k - 1, k + 1)
  BY DEF QuantumExpires
<1> DEFINE c == k - 1
<1>3. PICK l \in 1 .. active_jobs, new \in Jobs \cup {-1} :
         /\ jobs[l].core_id = c
         /\ scheduler_quantum_expired(c, new)
         /\ quantum_clock' = [quantum_clock EXCEPT ![c] = quantum]
         /\ Assign([jobs EXCEPT ![l].core_id = -1], new, c, k + 1)
  BY <1>2
<1>4. c \in Cores /\ k + 1 \in Nat \ {0} /\ c # -1
  BY CoresAssumption DEF Cores, SimIInv, Control
<1> HIDE DEF c
<1> DEFINE e == jobs[l]
           f == [e EXCEPT !.core_id = -1]
           L == [jobs EXCEPT ![l].core_id = -1]
           j == [g_running_jobs[c] EXCEPT !.latest_queue_time = time]
           q == Order!Insert(g_job_queue, j)
           r == [g_running_jobs EXCEPT ![c] = NULL]
<1>5. SchedulerStep
  BY <1>1, <1>3, <1>4 DEF SchedulerStep, Call
<1>6. SchedIInv'
  BY <1>5, SchedStep DEF SimIInv, SchedulerStep
<1>7. /\ e \in Entry /\ e \in ToSet(jobs) /\ e.core_id = c /\ e.arrived
      /\ g_running_jobs[c] # NULL /\ g_running_jobs[c].job_id = e.job_id
  BY <1>3, <1>4, TableFacts DEF Agrees
<1>8. /\ f \in Entry /\ f.job_id = e.job_id /\ f.core_id = -1 /\ f.arrived
      /\ f.run_time = e.run_time /\ f.arrival_time = e.arrival_time
  BY <1>7 DEF Entry
<1>9. L = [jobs EXCEPT ![l] = f]
  BY <1>3, TableFacts
<1> HIDE DEF f, L
<1>10. /\ L \in Seq(Entry) /\ Len(L) = active_jobs
       /\ \A m \in 1 .. active_jobs : L[m] = IF m = l THEN f ELSE jobs[m]
  BY <1>8, <1>9, TableFacts DEF active_jobs
<1>11. /\ Listed(L)
       /\ ToSet(L) = (ToSet(jobs) \ {e}) \cup {f}
       /\ \A d \in ToSet(jobs) \ {e} : d.job_id # f.job_id
  BY <1>8, <1>10, EntryChanged DEF SimIInv, active_jobs
<1>12. j \in Job /\ j.job_id = e.job_id /\ Sound(q, r)
  BY <1>1, <1>4, <1>7, QuantumQueued DEF SimIInv
<1>13. schedule_next_job(q, c, new) /\ UNCHANGED <<g_scheme, time>>
  BY <1>1, <1>3 DEF scheduler_quantum_expired
<1> HIDE DEF j
<1>14. ToSet(q) = Waiting \cup {j}
  BY <1>12, QueueMembers, TableFacts
<1>15. Table(ToSet(jobs) \ {e}, Waiting, r)
  BY <1>4, <1>7, Drop DEF SimIInv
<1>16. Table(ToSet(L), ToSet(q), r)
  <2> DEFINE E == ToSet(jobs) \ {e}
  <2>1. \A d \in E : d.job_id # f.job_id
    BY <1>11
  <2>2. ToSet(L) = E \cup {f}
    BY <1>11
  <2>3. g_scheme # "PSJF"
    BY <1>1
  <2>4. Table(E, Waiting, r)
    BY <1>15
  <2> HIDE DEF E, r
  <2>5. Table(E \cup {f}, Waiting \cup {j}, r)
    BY <1>8, <1>12, <2>1, <2>3, <2>4, AddWaiting
  <2> QED BY <1>14, <2>2, <2>5
<1>17. q \in Seq(Job) /\ \A m, n \in 1 .. Len(q) : m # n => q[m].job_id # q[n].job_id
  BY <1>12 DEF Sound, Placed
<1> HIDE DEF q
<1>18. Assign(L, new, c, k + 1)
  BY <1>3 DEF L
<1>19. /\ at' = at /\ i' = k + 1
       /\ Listed(jobs') /\ Len(jobs') = Len(L)
       /\ Table(ToSet(jobs'), ToSet(g_job_queue'), g_running_jobs')
       /\ AliveIds(ToSet(jobs')) = AliveIds(ToSet(L))
       /\ \A m \in 1 .. Len(L) : Moved(L[m], jobs'[m], c)
  BY <1>4, <1>11, <1>13, <1>16, <1>17, <1>18, CoreReassigned DEF SimIInv
<1>20. Table(ToSet(jobs), Waiting, g_running_jobs)'
  BY <1>6, <1>13, <1>19, TableCarry DEF SchedIInv, SchedTypeOK
<1>21. ASSUME NEW m \in 1 .. active_jobs
       PROVE  /\ jobs'[m].arrival_time = jobs[m].arrival_time
              /\ jobs'[m].arrived <=> jobs[m].arrived
              /\ jobs'[m].run_time = jobs[m].run_time
  BY <1>7, <1>8, <1>10, <1>19 DEF Moved
<1>22. InTime(jobs)' /\ Work(jobs)'
  BY <1>1, <1>10, <1>19, <1>21 DEF SimIInv, InTime, Work, active_jobs
<1>23. Alive(ToSet(jobs))'
  <2>1. AliveIds(ToSet(L)) = AliveIds(ToSet(jobs))
    BY <1>7, <1>8, <1>11 DEF AliveIds
  <2> QED BY <1>1, <1>19, <2>1 DEF SimIInv, Alive, AliveIds
<1>24. Control'
  BY <1>1, <1>3, <1>4, <1>13, <1>19 DEF SimIInv, Control
<1> QED BY <1>5, <1>6, <1>19, <1>20, <1>22, <1>23, <1>24 DEF SimIInv

\* Every core has at most one job, and some core has one if there is a job at all.
LEMMA AlwaysSane ==
  ASSUME SimIInv, at = "run"
  PROVE  Sane
<1>1. ASSUME NEW c \in Cores
      PROVE  Cardinality(OnCore(c)) <= 1
  <2>1. \A k, l \in OnCore(c) : k = l
    <3>1. \A k \in OnCore(c) : /\ k \in 1 .. active_jobs
                               /\ jobs[k].job_id = g_running_jobs[c].job_id
      BY TableFacts, WhoseCore DEF OnCore
    <3> QED BY <3>1 DEF SimIInv, Listed, active_jobs
  <2>2. CASE OnCore(c) = {}
    BY <2>2, FS_EmptySet
  <2>3. ASSUME NEW k \in OnCore(c)
        PROVE  Cardinality(OnCore(c)) <= 1
    <3>1. OnCore(c) = {k}
      BY <2>1
    <3> QED BY <3>1, FS_Singleton
  <2> QED BY <2>2, <2>3
<1>2. ASSUME jobs_alive > 0
      PROVE  \E c \in Cores : OnCore(c) # {}
  <2>1. AliveIds(ToSet(jobs)) # {}
    <3>1. jobs_alive # 0
      BY <1>2
    <3> QED BY <3>1, FS_EmptySet DEF SimIInv, Alive
  <2>2. PICK k \in 1 .. active_jobs : jobs[k].arrived
    BY <2>1, TableFacts DEF AliveIds
  <2>3. CASE jobs[k].core_id # -1
    <3>1. jobs[k].core_id \in Cores
      BY <2>3, TableFacts DEF Entry
    <3> QED BY <3>1 DEF OnCore
  <2>4. CASE jobs[k].core_id = -1
    <3>1. Waiting # {}
      BY <2>2, <2>4, TableFacts DEF Agrees
    <3>2. g_job_queue # <<>>
      BY <3>1 DEF Waiting
    <3>3. 0 \in Cores /\ g_running_jobs[0] # NULL
      <4>1. 0 \in Cores
        BY CoresAssumption DEF Cores
      <4> QED BY <3>2, <4>1 DEF SimIInv, SchedIInv, IdleAgree
    <3>4. \E l \in 1 .. active_jobs : jobs[l].core_id = 0
      BY <3>3, TableFacts DEF Agrees
    <3> QED BY <3>3, <3>4 DEF OnCore
  <2> QED BY <2>3, <2>4
<1> QED BY <1>1, <1>2 DEF Sane

LEMMA RunUnitStep ==
  ASSUME SimIInv, RunUnit
  PROVE  SchedulerStep /\ SimIInv'
<1> DEFINE Ran(e) == [e EXCEPT !.run_time = IF e.core_id # -1 THEN e.run_time - 1 ELSE e.run_time]
<1>1. /\ at = "run" /\ time' = time + 1 /\ at' = "finish" /\ i' = 1
      /\ UNCHANGED <<schedule, jobs_alive, quantum>>
      /\ quantum_clock' = [c \in Cores |-> IF OnCore(c) # {} THEN quantum_clock[c] - 1
                                                             ELSE quantum_clock[c]]
  BY AlwaysSane DEF RunUnit, goto
<1>2. jobs' = [k \in 1 .. active_jobs |-> Ran(jobs[k])]
  BY TableFacts DEF RunUnit
<1>3. SchedulerStep
  BY <1>1 DEF SchedulerStep, Tick
<1>4. SchedIInv'
  BY <1>3, SchedStep DEF SimIInv, SchedulerStep
<1>5. ASSUME NEW k \in 1 .. active_jobs
      PROVE  /\ Ran(jobs[k]) \in Entry
             /\ Ran(jobs[k]).job_id = jobs[k].job_id
             /\ Ran(jobs[k]).arrival_time = jobs[k].arrival_time
             /\ Ran(jobs[k]).arrived = jobs[k].arrived
             /\ Ran(jobs[k]).core_id = jobs[k].core_id
             /\ Ran(jobs[k]).run_time = IF jobs[k].core_id # -1 THEN jobs[k].run_time - 1
                                                                ELSE jobs[k].run_time
             /\ jobs[k].run_time \in Nat \ {0} /\ jobs[k].arrival_time \in Nat
             /\ jobs[k].core_id # -1 => jobs[k].arrived
  <2>1. jobs[k] \in Entry /\ jobs[k] \in ToSet(jobs)
    BY TableFacts
  <2>2. jobs[k].run_time \in Nat \ {0} /\ jobs[k].arrival_time \in Nat
    BY <1>1, <2>1 DEF SimIInv, Work, active_jobs, Entry
  <2>3. (IF jobs[k].core_id # -1 THEN jobs[k].run_time - 1 ELSE jobs[k].run_time) \in Nat
    BY <2>2
  <2>4. jobs[k].core_id # -1 => jobs[k].arrived
    BY <2>1, TableFacts DEF Agrees
  <2>5. Ran(jobs[k]) \in Entry
    BY <2>1, <2>3 DEF Entry
  <2> QED BY <2>1, <2>2, <2>4, <2>5 DEF Entry
<1> HIDE DEF Ran
<1>6. /\ jobs' \in Seq(Entry) /\ Len(jobs') = active_jobs
      /\ \A k \in 1 .. active_jobs : jobs'[k] = Ran(jobs[k])
  BY <1>2, <1>5, TableFacts
<1>7. ToSet(jobs') = {jobs'[k] : k \in 1 .. active_jobs} /\ Waiting' = Waiting
  BY <1>1, <1>6, Members DEF Waiting, schedule
<1>8. Listed(jobs)'
  BY <1>5, <1>6 DEF SimIInv, Listed, active_jobs
<1>9. ASSUME NEW e \in ToSet(jobs')
       PROVE  \E k \in 1 .. active_jobs :
                /\ e = Ran(jobs[k]) /\ jobs[k] \in ToSet(jobs)
                /\ e.job_id = jobs[k].job_id /\ e.arrived = jobs[k].arrived
                /\ e.core_id = jobs[k].core_id /\ e \in Entry
  <2>1. PICK k \in 1 .. active_jobs : e = jobs'[k]
    BY <1>7
  <2>2. e = Ran(jobs[k]) /\ jobs[k] \in ToSet(jobs)
    BY <1>6, <2>1, TableFacts
  <2> QED BY <1>5, <2>2
<1>10. ASSUME NEW e \in ToSet(jobs)
       PROVE  \E f \in ToSet(jobs') : /\ f.job_id = e.job_id /\ f.arrived = e.arrived
                                      /\ f.core_id = e.core_id
  <2>1. PICK k \in 1 .. active_jobs : e = jobs[k]
    BY TableFacts
  <2>2. Ran(e) \in ToSet(jobs')
    BY <1>6, <1>7, <2>1
  <2> QED BY <1>5, <2>1, <2>2
<1>11. Agrees(ToSet(jobs), Waiting, g_running_jobs)'
  <2>3. \A e, f \in ToSet(jobs') : e.job_id = f.job_id => e = f
    <3>1. \A k, l \in 1 .. active_jobs : jobs[k].job_id = jobs[l].job_id => k = l
      BY DEF SimIInv, Listed, active_jobs
    <3> QED BY <1>5, <1>6, <1>7, <3>1
  <2>4. ToSet(jobs') \subseteq Entry
    BY <1>9
  <2>5. \A e \in ToSet(jobs') : e.core_id # -1 => /\ e.arrived
                                                  /\ g_running_jobs[e.core_id] # NULL
                                                  /\ g_running_jobs[e.core_id].job_id = e.job_id
    BY <1>9, TableFacts DEF Agrees
  <2>6. \A c \in Cores : g_running_jobs[c] # NULL
          => \E f \in ToSet(jobs') : f.job_id = g_running_jobs[c].job_id /\ f.core_id = c
    BY <1>10, TableFacts DEF Agrees
  <2>7. \A w \in Waiting :
          \E f \in ToSet(jobs') : f.job_id = w.job_id /\ f.core_id = -1 /\ f.arrived
    BY <1>10, TableFacts DEF Agrees
  <2>8. \A e \in ToSet(jobs') : e.arrived /\ e.core_id = -1
          => \E w \in Waiting : w.job_id = e.job_id
    BY <1>9, TableFacts DEF Agrees
  <2>9. /\ Waiting \subseteq Job /\ g_running_jobs \in [Cores -> Job \cup {NULL}]
        /\ \A v, w \in Waiting : v.job_id = w.job_id => v = w
    BY TableFacts DEF Agrees
  <2>10. g_running_jobs' = g_running_jobs
    BY <1>1 DEF schedule
  <2> QED BY <1>7, <2>3, <2>4, <2>5, <2>6, <2>7, <2>8, <2>9, <2>10 DEF Agrees
<1>12. AgreesLeft(ToSet(jobs), Waiting, g_running_jobs)'
  <2> SUFFICES ASSUME g_scheme = "PSJF", NEW e \in ToSet(jobs')
               PROVE  /\ \A w \in Waiting : w.job_id = e.job_id => w.remaining_time = e.run_time
                      /\ \A c \in Cores :
                           g_running_jobs[c] # NULL /\ g_running_jobs[c].job_id = e.job_id
                           => g_running_jobs[c].remaining_time
                                - (time' - g_running_jobs[c].latest_update_time) = e.run_time
    BY <1>1, <1>7 DEF AgreesLeft, schedule
  <2>1. PICK k \in 1 .. active_jobs : e = Ran(jobs[k]) /\ e.job_id = jobs[k].job_id
    BY <1>9
  <2>2. jobs[k] \in ToSet(jobs) /\ AgreesLeft(ToSet(jobs), Waiting, g_running_jobs)
    BY TableFacts DEF SimIInv, Table
  <2>3. ASSUME NEW w \in Waiting, w.job_id = jobs[k].job_id
        PROVE  w.remaining_time = Ran(jobs[k]).run_time
    <3>1. jobs[k].core_id = -1
      BY <2>2, <2>3, TableFacts DEF Agrees
    <3> QED BY <1>5, <2>2, <2>3, <3>1 DEF AgreesLeft
  <2>4. ASSUME NEW c \in Cores, g_running_jobs[c] # NULL,
               g_running_jobs[c].job_id = jobs[k].job_id
        PROVE  g_running_jobs[c].remaining_time
                 - (time' - g_running_jobs[c].latest_update_time) = Ran(jobs[k]).run_time
    <3>1. jobs[k].core_id # -1
      <4>1. jobs[k].core_id = c /\ c # -1
        BY <2>2, <2>4, TableFacts, WhoseCore, CoresAssumption DEF Cores
      <4> QED BY <4>1
    <3>2. g_running_jobs[c].remaining_time - (time - g_running_jobs[c].latest_update_time)
            = jobs[k].run_time
      BY <2>2, <2>4 DEF AgreesLeft
    <3>3. g_running_jobs[c].remaining_time \in Int
          /\ g_running_jobs[c].latest_update_time \in Nat \cup {-1} /\ time \in Int
      <4>1. g_running_jobs[c] \in Job
        BY <2>4, TableFacts DEF Agrees
      <4> QED BY <4>1, TableFacts DEF Job, Clock
    <3> QED BY <1>1, <1>5, <2>1, <2>4, <3>1, <3>2, <3>3
  <2> QED BY <2>1, <2>3, <2>4
<1>13. InTime(jobs)'
  <2>1. time \in Nat
    BY TableFacts DEF Clock
  <2> QED BY <1>1, <1>5, <1>6, <2>1 DEF SimIInv, InTime, active_jobs
<1>14. Work(jobs)'
  <2> SUFFICES ASSUME NEW k \in 1 .. active_jobs
               PROVE  /\ Ran(jobs[k]).run_time = 0 => k >= 1 /\ jobs[k].core_id # -1
                      /\ ~jobs[k].arrived => Ran(jobs[k]).run_time \in RunTimes
    BY <1>1, <1>5, <1>6 DEF Work
  <2>1. ~jobs[k].arrived => jobs[k].run_time \in RunTimes
    BY DEF SimIInv, Work, active_jobs
  <2> QED BY <1>5, <2>1
<1>15. Alive(ToSet(jobs))'
  <2>1. AliveIds(ToSet(jobs')) = AliveIds(ToSet(jobs))
    BY <1>9, <1>10 DEF AliveIds
  <2> QED BY <1>1, <2>1 DEF SimIInv, Alive, AliveIds
<1>16. Control'
  BY <1>1 DEF SimIInv, Control
<1> QED BY <1>3, <1>4, <1>8, <1>11, <1>12, <1>13, <1>14, <1>15, <1>16 DEF SimIInv, Table

\* A job whose time has come is on no core, in no queue and has all of its work to do.
LEMMA ArrivingJob ==
  ASSUME SimIInv, at = "arrive", NEW k \in i .. active_jobs, IsNext(k, Arrives)
  PROVE  /\ k \in 1 .. active_jobs
         /\ jobs[k] \in Entry /\ jobs[k] \in ToSet(jobs)
         /\ jobs[k].arrival_time = time /\ ~jobs[k].arrived /\ jobs[k].core_id = -1
         /\ jobs[k].job_id \in Jobs \ LiveIds
         /\ jobs[k].run_time \in RunTimes /\ jobs[k].priority \in Priorities
         /\ \A l \in i .. k - 1 : jobs[l].arrival_time # time
<1>1. k \in 1 .. active_jobs /\ i \in Nat
  BY TableFacts DEF SimIInv, Control
<1>2. jobs[k] \in Entry /\ jobs[k] \in ToSet(jobs)
  BY <1>1, TableFacts
<1>3. jobs[k].arrival_time = time /\ \A l \in i .. k - 1 : jobs[l].arrival_time # time
  BY DEF IsNext, Arrives
<1>4. ~jobs[k].arrived
  <2>1. time \in Nat
    BY TableFacts DEF Clock
  <2> QED BY <1>1, <1>3, <2>1 DEF SimIInv, InTime, active_jobs
<1>5. jobs[k].core_id = -1
  BY <1>2, <1>4, TableFacts DEF Agrees
<1>6. jobs[k].run_time \in RunTimes
  BY <1>1, <1>4 DEF SimIInv, Work, active_jobs
<1>7. jobs[k].job_id \notin LiveIds
  <2>1. ASSUME NEW w \in Waiting, w.job_id = jobs[k].job_id
        PROVE  FALSE
    BY <1>2, <1>4, <2>1, TableFacts DEF Agrees
  <2>2. ASSUME NEW c \in Cores, g_running_jobs[c] # NULL,
               g_running_jobs[c].job_id = jobs[k].job_id
        PROVE  FALSE
    <3>1. c # -1
      BY CoresAssumption DEF Cores
    <3> QED BY <1>2, <1>5, <2>2, <3>1, TableFacts DEF Agrees
  <2> QED BY <2>1, <2>2 DEF LiveIds, Running
<1> QED BY <1>1, <1>2, <1>3, <1>4, <1>5, <1>6, <1>7 DEF Entry

\* What main() does about a job that arrived, whatever core it was given.
LEMMA ArrivalNoted ==
  ASSUME SimIInv, at = "arrive", NEW k \in i .. active_jobs, IsNext(k, Arrives),
         UNCHANGED <<g_scheme, time, quantum, at>>, i' = k + 1, jobs_alive' = jobs_alive + 1,
         quantum_clock' \in [Cores -> Int], SchedIInv',
         Listed(jobs'), Len(jobs') = active_jobs,
         \A l \in 1 .. active_jobs : /\ jobs'[l].job_id = jobs[l].job_id
                                     /\ jobs'[l].arrival_time = jobs[l].arrival_time
                                     /\ jobs'[l].run_time = jobs[l].run_time
                                     /\ jobs'[l].arrived <=> (l = k \/ jobs[l].arrived),
         Table(ToSet(jobs'), ToSet(g_job_queue'), g_running_jobs')
  PROVE  SimIInv'
<1>1. /\ k \in 1 .. active_jobs /\ k + 1 \in Nat \ {0} /\ i \in Nat
      /\ jobs[k].arrival_time = time /\ ~jobs[k].arrived
      /\ jobs[k].job_id \in Jobs /\ jobs[k].run_time \in RunTimes
      /\ \A l \in i .. k - 1 : jobs[l].arrival_time # time
  BY ArrivingJob DEF SimIInv, Control
<1>2. Control'
  BY <1>1 DEF SimIInv, Control
<1>3. Table(ToSet(jobs), Waiting, g_running_jobs)'
  BY TableCarry DEF SchedIInv, SchedTypeOK
<1>4. InTime(jobs)'
  <2> SUFFICES ASSUME NEW l \in 1 .. active_jobs
               PROVE  (l = k \/ jobs[l].arrived)
                        <=> (\/ jobs[l].arrival_time < time
                             \/ jobs[l].arrival_time = time /\ l < k + 1)
    BY DEF InTime
  <2>1. jobs[l].arrived <=> \/ jobs[l].arrival_time < time
                            \/ jobs[l].arrival_time = time /\ l < i
    BY DEF SimIInv, InTime, active_jobs
  <2> QED BY <1>1, <2>1
<1>5. Work(jobs)'
  BY <1>1 DEF SimIInv, Work, active_jobs
<1>6. Alive(ToSet(jobs))'
  <2>1. ToSet(jobs') = {jobs'[l] : l \in 1 .. active_jobs}
    <3>1. jobs' \in Seq(Entry)
      BY DEF Listed
    <3> QED BY <3>1, Members
  <2>2. \A id : id \in AliveIds(ToSet(jobs)) <=>
                  \E l \in 1 .. active_jobs : jobs[l].arrived /\ id = jobs[l].job_id
    BY TableFacts DEF AliveIds
  <2>3. \A id : id \in AliveIds(ToSet(jobs')) <=>
                  \E l \in 1 .. active_jobs : jobs'[l].arrived /\ id = jobs'[l].job_id
    BY <2>1 DEF AliveIds
  <2>4. AliveIds(ToSet(jobs')) = AliveIds(ToSet(jobs)) \cup {jobs[k].job_id}
    BY <1>1, <2>2, <2>3
  <2>5. jobs[k].job_id \notin AliveIds(ToSet(jobs))
    <3>1. \A l \in 1 .. active_jobs : jobs[l].job_id = jobs[k].job_id => l = k
      BY <1>1 DEF SimIInv, Listed, active_jobs
    <3> QED BY <1>1, <2>2, <3>1
  <2>6. Cardinality(AliveIds(ToSet(jobs'))) = Cardinality(AliveIds(ToSet(jobs))) + 1
    <3>1. ToSet(jobs) \subseteq Entry
      BY TableFacts DEF Agrees
    <3> QED BY <1>1, <2>4, <2>5, <3>1, AliveCount
  <2> QED BY <2>6 DEF SimIInv, Alive, AliveIds
<1> QED BY <1>2, <1>3, <1>4, <1>5, <1>6 DEF SimIInv, Listed

\* The table after the new job has been given core, or none.
Told(k, core) == [l \in 1 .. active_jobs |->
                    IF l = k THEN [jobs[k] EXCEPT !.arrived = TRUE, !.core_id = core]
                    ELSE IF core # -1 /\ jobs[l].core_id = core
                         THEN [jobs[l] EXCEPT !.core_id = -1] ELSE jobs[l]]

LEMMA JobArrivesStep ==
  ASSUME SimIInv, JobArrives
  PROVE  SchedulerStep /\ SimIInv'
<1>1. PICK k \in i .. active_jobs : IsNext(k, Arrives) /\
       \E core \in Cores \cup {-1} :
         /\ scheduler_new_job(jobs[k].job_id, jobs[k].run_time, jobs[k].priority, core)
         /\ jobs' = Told(k, core)
         /\ quantum_clock' = IF core # -1 /\ g_scheme = "RR"
                             THEN [quantum_clock EXCEPT ![core] = quantum]
                             ELSE quantum_clock
         /\ i' = k + 1
  BY DEF JobArrives, Told
<1>2. PICK core \in Cores \cup {-1} :
         /\ scheduler_new_job(jobs[k].job_id, jobs[k].run_time, jobs[k].priority, core)
         /\ jobs' = Told(k, core)
         /\ quantum_clock' = IF core # -1 /\ g_scheme = "RR"
                             THEN [quantum_clock EXCEPT ![core] = quantum]
                             ELSE quantum_clock
         /\ i' = k + 1
  BY <1>1
<1>3. /\ at = "arrive" /\ jobs_alive' = jobs_alive + 1
      /\ UNCHANGED <<time, quantum, at, history>>
  BY DEF JobArrives
<1> DEFINE e == jobs[k]
           f == [e EXCEPT !.arrived = TRUE, !.core_id = core]
           j == new_job(e.job_id, e.priority, e.run_time)
<1>4. /\ k \in 1 .. active_jobs /\ e \in Entry /\ e \in ToSet(jobs)
      /\ e.arrival_time = time /\ ~e.arrived /\ e.core_id = -1
      /\ e.job_id \in Jobs \ LiveIds /\ e.run_time \in RunTimes /\ e.priority \in Priorities
  BY <1>1, <1>3, ArrivingJob
<1>5. SchedulerStep
  BY <1>2, <1>3, <1>4 DEF SchedulerStep, Call
<1>6. SchedIInv'
  BY <1>5, SchedStep DEF SimIInv, SchedulerStep
<1>7. g_scheme' = g_scheme
  BY <1>2 DEF scheduler_new_job, NewJobStarts, NewJobPreempts, NewJobWaits
<1>8. quantum_clock' \in [Cores -> Int]
  BY <1>2 DEF SimIInv, Control
<1>9. /\ f \in Entry /\ f.job_id = e.job_id /\ f.arrival_time = e.arrival_time
      /\ f.run_time = e.run_time /\ f.arrived /\ f.core_id = core
  BY <1>4 DEF Entry
<1>10. /\ j \in Job /\ j.job_id = e.job_id /\ j.remaining_time = e.run_time
       /\ New(g_job_queue, g_running_jobs, j) /\ Clock
  <2>1. New(g_job_queue, g_running_jobs, j) /\ Clock
    BY <1>4, NewJobFields DEF SimIInv
  <2> QED BY <2>1 DEF New, new_job
<1>11. NewJobStarts(j, core) \/ NewJobPreempts(j, core) \/ NewJobWaits(j, core)
  BY <1>2 DEF scheduler_new_job
<1>12. -1 \notin Cores /\ g_running_jobs \in [Cores -> Job \cup {NULL}]
  BY TableFacts, CoresAssumption DEF Cores, Agrees
<1>13. Told(k, core) = [l \in 1 .. active_jobs |->
                          IF l = k THEN f
                          ELSE IF core # -1 /\ jobs[l].core_id = core
                               THEN [jobs[l] EXCEPT !.core_id = -1] ELSE jobs[l]]
  BY DEF Told
<1> HIDE DEF f, j
<1>14. ASSUME core # -1 => \A l \in 1 .. active_jobs : jobs[l].core_id # core
       PROVE  /\ Listed(jobs') /\ Len(jobs') = active_jobs
              /\ \A l \in 1 .. active_jobs : jobs'[l] = IF l = k THEN f ELSE jobs[l]
              /\ ToSet(jobs') = (ToSet(jobs) \ {e}) \cup {f}
              /\ \A d \in ToSet(jobs) \ {e} : d.job_id # f.job_id
  <2>1. jobs' = [l \in 1 .. active_jobs |-> IF l = k THEN f ELSE jobs[l]]
    BY <1>2, <1>13, <1>14
  <2>2. /\ jobs' \in Seq(Entry) /\ Len(jobs') = active_jobs
        /\ \A l \in 1 .. active_jobs : jobs'[l] = IF l = k THEN f ELSE jobs[l]
    BY <1>9, <2>1, TableFacts
  <2> QED BY <1>4, <1>9, <2>2, EntryChanged DEF SimIInv, active_jobs
<1>15. CASE NewJobStarts(j, core)
  <2>1. /\ core \in Cores /\ core # -1 /\ g_running_jobs[core] = NULL
        /\ g_running_jobs' = [g_running_jobs EXCEPT ![core] = Started(j)]
        /\ g_job_queue' = g_job_queue
    BY <1>12, <1>15 DEF NewJobStarts, SimIInv, SchedIInv, SchedTypeOK, IdleAgree
  <2>2. \A l \in 1 .. active_jobs : jobs[l].core_id # core
    BY <2>1, TableFacts DEF Agrees
  <2>3. /\ Listed(jobs') /\ Len(jobs') = active_jobs
        /\ \A l \in 1 .. active_jobs : jobs'[l] = IF l = k THEN f ELSE jobs[l]
        /\ ToSet(jobs') = (ToSet(jobs) \ {e}) \cup {f}
        /\ \A d \in ToSet(jobs) \ {e} : d.job_id # f.job_id
    BY <1>14, <2>2
  <2>4. Table(ToSet(jobs) \ {e}, Waiting, g_running_jobs)
    BY <1>4, Forget DEF SimIInv
  <2>5. Table(ToSet(jobs'), Waiting, [g_running_jobs EXCEPT ![core] = Started(j)])
    <3> DEFINE E == ToSet(jobs) \ {e}
    <3>1. (\A d \in E : d.job_id # f.job_id) /\ ToSet(jobs') = E \cup {f}
      BY <2>3
    <3>2. Table(E, Waiting, g_running_jobs)
      BY <2>4
    <3> HIDE DEF E
    <3>3. Table(E \cup {f}, Waiting, [g_running_jobs EXCEPT ![core] = Started(j)])
      BY <1>9, <1>10, <2>1, <3>1, <3>2, AddRunning
    <3> QED BY <3>1, <3>3
  <2>6. Table(ToSet(jobs'), ToSet(g_job_queue'), g_running_jobs')
    BY <2>1, <2>5, TableFacts
  <2>7. \A l \in 1 .. active_jobs : /\ jobs'[l].job_id = jobs[l].job_id
                                    /\ jobs'[l].arrival_time = jobs[l].arrival_time
                                    /\ jobs'[l].run_time = jobs[l].run_time
                                    /\ jobs'[l].arrived <=> (l = k \/ jobs[l].arrived)
    BY <1>9, <2>3
  <2>8. SimIInv'
    BY <1>1, <1>2, <1>3, <1>6, <1>7, <1>8, <2>3, <2>6, <2>7, ArrivalNoted
  <2> QED BY <1>5, <2>8
<1>16. CASE NewJobWaits(j, core)
  <2> DEFINE x == [j EXCEPT !.latest_queue_time = time]
  <2>1. /\ core = -1 /\ g_idle_cores = {} /\ g_running_jobs' = UpToDate
        /\ g_job_queue' = Order!Insert(g_job_queue, x)
    BY <1>16 DEF NewJobWaits
  <2>2. /\ Listed(jobs') /\ Len(jobs') = active_jobs
        /\ \A l \in 1 .. active_jobs : jobs'[l] = IF l = k THEN f ELSE jobs[l]
        /\ ToSet(jobs') = (ToSet(jobs) \ {e}) \cup {f}
        /\ \A d \in ToSet(jobs) \ {e} : d.job_id # f.job_id
    BY <1>14, <2>1
  <2>3. x \in Job /\ x.job_id = f.job_id /\ x.remaining_time = f.run_time
    BY <1>9, <1>10 DEF Job, Clock
  <2> HIDE DEF x
  <2>4. ToSet(g_job_queue') = Waiting \cup {x}
    BY <2>1, <2>3, QueueMembers, TableFacts
  <2>5. Table(ToSet(jobs) \ {e}, Waiting, UpToDate)
    BY <1>4, <2>1, Refresh, Forget DEF SimIInv
  <2>6. Table(ToSet(jobs'), ToSet(g_job_queue'), g_running_jobs')
    <3>1. Table((ToSet(jobs) \ {e}) \cup {f}, Waiting \cup {x}, UpToDate)
      BY <1>9, <2>1, <2>2, <2>3, <2>5, AddWaiting
    <3> QED BY <2>1, <2>2, <2>4, <3>1
  <2>7. \A l \in 1 .. active_jobs : /\ jobs'[l].job_id = jobs[l].job_id
                                    /\ jobs'[l].arrival_time = jobs[l].arrival_time
                                    /\ jobs'[l].run_time = jobs[l].run_time
                                    /\ jobs'[l].arrived <=> (l = k \/ jobs[l].arrived)
    BY <1>9, <2>2
  <2>8. SimIInv'
    BY <1>1, <1>2, <1>3, <1>6, <1>7, <1>8, <2>2, <2>6, <2>7, ArrivalNoted
  <2> QED BY <1>5, <2>8
<1>17. CASE NewJobPreempts(j, core)
  <2> DEFINE u == UpToDate
             x == QueuedAgain(u[core])
             r == [u EXCEPT ![core] = NULL]
  <2>1. /\ core \in Cores /\ core # -1 /\ g_idle_cores = {} /\ Preemptive
        /\ g_job_queue' = Order!Insert(g_job_queue, x)
        /\ g_running_jobs' = [u EXCEPT ![core] = Started(j)]
    BY <1>12, <1>17 DEF NewJobPreempts
  <2>2. /\ u \in [Cores -> Job] /\ u[core].latest_update_time = time
        /\ Table(ToSet(jobs), Waiting, u)
    BY <2>1, Refresh, UpToDateSound DEF SimIInv
  <2>3. PICK m \in 1 .. active_jobs : jobs[m].core_id = core /\ jobs[m].job_id = u[core].job_id
    <3>1. u[core] # NULL
      BY <2>1, UpToDateSound DEF SimIInv
    <3>2. \E d \in ToSet(jobs) : d.job_id = u[core].job_id /\ d.core_id = core
      BY <2>1, <2>2, <3>1 DEF Table, Agrees
    <3> QED BY <3>2, TableFacts
  <2> DEFINE o == jobs[m]
             g == [o EXCEPT !.core_id = -1]
             t == [l \in 1 .. active_jobs |-> IF l = m THEN g ELSE jobs[l]]
  <2>4. o \in Entry /\ o \in ToSet(jobs) /\ m # k /\ o.arrived
    BY <1>4, <2>1, <2>3, TableFacts DEF Agrees
  <2>5. /\ g \in Entry /\ g.job_id = o.job_id /\ g.arrival_time = o.arrival_time
        /\ g.run_time = o.run_time /\ g.arrived /\ g.core_id = -1
    BY <2>4 DEF Entry
  <2>6. /\ x \in Job /\ x.job_id = g.job_id
        /\ g_scheme = "PSJF" => x.remaining_time = g.run_time
    <3>1. u[core] \in Job
      BY <2>1, <2>2
    <3>2. /\ x \in Job /\ x.job_id = u[core].job_id
          /\ x.remaining_time = u[core].remaining_time
      BY <1>10, <2>2, <3>1, QueuedAgainFields
    <3>3. ASSUME g_scheme = "PSJF"
          PROVE  u[core].remaining_time = o.run_time
      <4>1. u[core].remaining_time - (time - u[core].latest_update_time) = o.run_time
        <5>1. u[core] # NULL
          BY <2>1, UpToDateSound DEF SimIInv
        <5> QED BY <2>1, <2>2, <2>3, <2>4, <3>3, <5>1 DEF Table, AgreesLeft
      <4>2. u[core].remaining_time \in Int /\ time \in Int
        BY <1>10, <3>1 DEF Job, Clock
      <4> QED BY <2>2, <4>1, <4>2
    <3> QED BY <2>3, <2>5, <3>2, <3>3
  <2> HIDE DEF u, x, g
  <2>7. /\ t \in Seq(Entry) /\ Len(t) = active_jobs
        /\ \A l \in 1 .. active_jobs : t[l] = IF l = m THEN g ELSE jobs[l]
    BY <2>5, TableFacts
  <2> HIDE DEF t
  <2>8. /\ Listed(t)
        /\ ToSet(t) = (ToSet(jobs) \ {o}) \cup {g}
        /\ \A d \in ToSet(jobs) \ {o} : d.job_id # g.job_id
    BY <2>5, <2>7, EntryChanged DEF SimIInv, active_jobs
  <2>9. Table(ToSet(jobs) \ {o}, Waiting, r)
    BY <2>1, <2>2, <2>3, <2>4, Drop
  <2>10. r[core] = NULL
    BY <2>1, <2>2
  <2> HIDE DEF r
  <2>11. Table(ToSet(t), Waiting \cup {x}, r)
    <3>1. Table((ToSet(jobs) \ {o}) \cup {g}, Waiting \cup {x}, r)
      BY <2>5, <2>6, <2>8, <2>9, AddWaiting
    <3> QED BY <2>8, <3>1
  <2>12. jobs' = [l \in 1 .. active_jobs |-> IF l = k THEN f ELSE t[l]]
    <3>1. \A l \in 1 .. active_jobs : jobs[l].core_id = core => l = m
      <4>1. ASSUME NEW l \in 1 .. active_jobs, jobs[l].core_id = core
            PROVE  jobs[l].job_id = o.job_id
        <5>1. jobs[l] \in ToSet(jobs)
          BY TableFacts
        <5>2. u[core].job_id = jobs[l].job_id
          BY <2>1, <2>2, <4>1, <5>1 DEF Table, Agrees
        <5> QED BY <2>3, <5>2
      <4> QED BY <4>1 DEF SimIInv, Listed, active_jobs
    <3>2. \A l \in 1 .. active_jobs : l # k =>
            t[l] = IF core # -1 /\ jobs[l].core_id = core
                   THEN [jobs[l] EXCEPT !.core_id = -1] ELSE jobs[l]
      BY <2>1, <2>3, <2>7, <3>1 DEF g
    <3> QED BY <1>2, <1>13, <3>2
  <2>13. /\ jobs' \in Seq(Entry) /\ Len(jobs') = active_jobs
         /\ \A l \in 1 .. active_jobs : jobs'[l] = IF l = k THEN f ELSE t[l]
    BY <1>9, <2>7, <2>12
  <2>14. t[k] = e
    BY <1>4, <2>4, <2>7
  <2>15. /\ Listed(jobs')
         /\ ToSet(jobs') = (ToSet(t) \ {e}) \cup {f}
         /\ e \in ToSet(t)
         /\ \A d \in ToSet(t) \ {e} : d.job_id # f.job_id
    <3>1. k \in 1 .. Len(t) /\ f.job_id = t[k].job_id /\ Len(jobs') = Len(t)
      BY <1>4, <1>9, <2>7, <2>13, <2>14
    <3>2. \A l \in 1 .. Len(t) : jobs'[l] = IF l = k THEN f ELSE t[l]
      BY <2>7, <2>13
    <3>3. /\ Listed(jobs')
          /\ ToSet(jobs') = (ToSet(t) \ {t[k]}) \cup {f}
          /\ t[k] \in ToSet(t)
          /\ \A d \in ToSet(t) \ {t[k]} : d.job_id # f.job_id
      BY <1>9, <2>8, <2>13, <3>1, <3>2, EntryChanged
    <3> QED BY <2>14, <3>3
  <2>16. Table(ToSet(t) \ {e}, Waiting \cup {x}, r)
    BY <1>4, <2>11, <2>15, Forget
  <2>17. Table(ToSet(jobs'), Waiting \cup {x}, [r EXCEPT ![core] = Started(j)])
    BY <1>9, <1>10, <2>1, <2>10, <2>15, <2>16, AddRunning
  <2>18. [r EXCEPT ![core] = Started(j)] = g_running_jobs'
    BY <2>1, <2>2 DEF r
  <2>19. ToSet(g_job_queue') = Waiting \cup {x}
    BY <2>1, <2>6, QueueMembers, TableFacts
  <2>20. Table(ToSet(jobs'), ToSet(g_job_queue'), g_running_jobs')
    BY <2>17, <2>18, <2>19
  <2>21. ASSUME NEW l \in 1 .. active_jobs
         PROVE  /\ jobs'[l].job_id = jobs[l].job_id
                /\ jobs'[l].arrival_time = jobs[l].arrival_time
                /\ jobs'[l].run_time = jobs[l].run_time
                /\ jobs'[l].arrived <=> (l = k \/ jobs[l].arrived)
    <3>1. CASE l = k
      BY <1>9, <2>13, <3>1
    <3>2. CASE l = m
      BY <2>4, <2>5, <2>7, <2>13, <3>2
    <3>3. CASE l # k /\ l # m
      BY <2>7, <2>13, <3>3
    <3> QED BY <3>1, <3>2, <3>3
  <2>22. SimIInv'
    BY <1>1, <1>2, <1>3, <1>6, <1>7, <1>8, <2>13, <2>15, <2>20, <2>21, ArrivalNoted
  <2> QED BY <1>5, <2>22
<1> QED BY <1>11, <1>15, <1>16, <1>17

-----------------------------------------------------------------------------
(***************************************************************************)
(* Theorems.                                                               *)
(***************************************************************************)
LEMMA SimStart ==
  ASSUME Init
  PROVE  SimIInv
<1>1. /\ at = "finish" /\ i = 1 /\ time = 0 /\ jobs_alive = 0
      /\ quantum_clock = [c \in Cores |-> -1]
      /\ SchedInit /\ file \in [Jobs -> Lines]
      /\ quantum \in IF g_scheme = "RR" THEN Quanta ELSE {0}
      /\ jobs = [k \in 1 .. NumJobs |->
                   [job_id |-> k - 1, arrival_time |-> file[k - 1].arrival_time,
                    run_time |-> file[k - 1].run_time, priority |-> file[k - 1].priority,
                    core_id |-> -1, arrived |-> FALSE]]
  BY DEF Init
<1>2. SchedIInv
  BY <1>1, SchedStart
<1>3. ASSUME NEW k \in 1 .. NumJobs
      PROVE  /\ jobs[k] \in Entry /\ jobs[k].job_id = k - 1
             /\ jobs[k].core_id = -1 /\ jobs[k].arrived = FALSE
             /\ jobs[k].run_time \in RunTimes /\ jobs[k].run_time # 0
             /\ jobs[k].arrival_time \in Nat
  <2>1. k - 1 \in Jobs
    BY InputAssumption
  <2>2. file[k - 1] \in [arrival_time : Nat, run_time : RunTimes, priority : Priorities]
    BY <1>1, <2>1, InputAssumption
  <2>3. file[k - 1].run_time \in Nat \ {0}
    BY <2>2, RunTimesAssumption
  <2> QED BY <1>1, <2>1, <2>2, <2>3 DEF Entry
<1>4. NumJobs \in Nat
  BY InputAssumption
<1>5. /\ jobs \in Seq(Entry) /\ Len(jobs) = NumJobs
  <2>1. jobs \in [1 .. NumJobs -> Entry]
    BY <1>1, <1>3
  <2> QED BY <1>4, <2>1
<1>6. Listed(jobs)
  <2>1. ASSUME NEW k \in 1 .. Len(jobs), NEW l \in 1 .. Len(jobs), k # l
        PROVE  jobs[k].job_id # jobs[l].job_id
    <3>1. jobs[k].job_id = k - 1
      BY <1>3, <1>5
    <3>2. jobs[l].job_id = l - 1
      BY <1>3, <1>5
    <3> QED BY <1>4, <1>5, <2>1, <3>1, <3>2
  <2> QED BY <1>5, <2>1 DEF Listed
<1>7. ToSet(jobs) = {jobs[k] : k \in 1 .. NumJobs}
  BY <1>5, Members
<1>8. Waiting = {} /\ g_running_jobs = [c \in Cores |-> NULL]
  BY <1>1 DEF SchedInit, Waiting
<1>9. Table(ToSet(jobs), Waiting, g_running_jobs)
  <2>1. \A e \in ToSet(jobs) : e \in Entry /\ e.core_id = -1 /\ e.arrived = FALSE
    BY <1>3, <1>7
  <2>2. ASSUME NEW e \in ToSet(jobs), NEW f \in ToSet(jobs), e.job_id = f.job_id
        PROVE  e = f
    <3>1. PICK k \in 1 .. NumJobs : e = jobs[k]
      BY <1>7
    <3>2. PICK l \in 1 .. NumJobs : f = jobs[l]
      BY <1>7
    <3>3. k - 1 = l - 1
      BY <1>3, <2>2, <3>1, <3>2
    <3> QED BY <1>4, <3>1, <3>2, <3>3
  <2> QED BY <1>8, <2>1, <2>2 DEF Table, Agrees, AgreesLeft
<1>10. InTime(jobs)
  <2>1. ASSUME NEW k \in 1 .. Len(jobs)
        PROVE  jobs[k].arrived = FALSE /\ jobs[k].arrival_time \in Nat
    BY <1>3, <1>5
  <2>2. ASSUME NEW k \in 1 .. Len(jobs)
        PROVE  /\ ~(jobs[k].arrival_time < time)
               /\ ~(jobs[k].arrival_time = time /\ (at = "run" \/ (at = "arrive" /\ k < i)))
    <3>1. ~(jobs[k].arrival_time < time)
      <4>1. time = 0
        BY <1>1
      <4>2. jobs[k].arrival_time \in Nat
        BY <2>1
      <4>3. \A n \in Nat : ~(n < 0)
        OBVIOUS
      <4> QED BY <4>1, <4>2, <4>3
    <3>2. at # "run" /\ at # "arrive"
      BY <1>1
    <3> QED BY <3>1, <3>2
  <2> QED BY <2>1, <2>2 DEF InTime
<1>11. Work(jobs)
  BY <1>3, <1>5 DEF Work
<1>12. Alive(ToSet(jobs))
  <2>1. AliveIds(ToSet(jobs)) = {}
    BY <1>3, <1>7 DEF AliveIds
  <2> QED BY <1>1, <2>1, FS_EmptySet DEF Alive
<1>13. Control
  <2>1. quantum \in Nat
    BY <1>1, InputAssumption
  <2> QED BY <1>1, <2>1 DEF Control
<1> QED BY <1>2, <1>6, <1>9, <1>10, <1>11, <1>12, <1>13 DEF SimIInv

LEMMA SimStep ==
  ASSUME SimIInv, [Next]_vars
  PROVE  SchedulerStep /\ SimIInv'
<1>1. CASE Step
  BY <1>1, FinishJobStep, LoopsDoneStep, QuantumExpiresStep, JobArrivesStep, RunUnitStep DEF Step
<1>2. CASE UNCHANGED vars
  <2>1. SchedulerStep
    BY <1>2 DEF SchedulerStep, vars
  <2>2. SchedIInv'
    BY <2>1, SchedStep DEF SimIInv, SchedulerStep
  <2>3. UNCHANGED <<g_scheme, g_job_queue, g_running_jobs, time, jobs, jobs_alive, quantum,
                    quantum_clock, at, i>>
    BY <1>2 DEF vars, schedule, table
  <2> QED BY <2>1, <2>2, <2>3 DEF SimIInv, Control, Listed, Table, Agrees, AgreesLeft, Waiting,
                                  ToSet, InTime, Work, Alive, AliveIds
<1> QED BY <1>1, <1>2 DEF Next, Terminated

LEMMA SimInductive == Spec => []SimIInv
BY SimStart, SimStep, PTL DEF Spec

\* The simulator's globals and its table keep their types and ranges.
THEOREM SimTypes == Spec => []TypeOK
<1>1. SimIInv => TypeOK
  <2> SUFFICES ASSUME SimIInv PROVE TypeOK
    OBVIOUS
  <2>1. 0 \in Jobs
    BY InputAssumption
  <2>2. jobs_alive \in 0 .. NumJobs
    BY <2>1, TableFacts, AliveCount DEF SimIInv, Alive, Agrees
  <2> QED BY <2>2, TableFacts DEF SimIInv, SchedIInv, Control, TypeOK, Entry
<1> QED BY <1>1, SimInductive, PTL

\* The simulator's table, kept from what the calls return, and the scheduler's array
\* say the same of every core after every call.
THEOREM TablesAgree == Spec => []SameCores
<1>1. SimIInv => SameCores
  <2> SUFFICES ASSUME SimIInv, NEW c \in Cores, NEW id \in Jobs
               PROVE  (\E k \in OnCore(c) : jobs[k].job_id = id)
                        <=> (g_running_jobs[c] # NULL /\ g_running_jobs[c].job_id = id)
    BY DEF SameCores
  <2>1. ASSUME NEW k \in OnCore(c)
        PROVE  g_running_jobs[c] # NULL /\ g_running_jobs[c].job_id = jobs[k].job_id
    BY TableFacts, WhoseCore DEF OnCore
  <2>2. ASSUME g_running_jobs[c] # NULL
        PROVE  \E k \in OnCore(c) : jobs[k].job_id = g_running_jobs[c].job_id
    BY <2>2, TableFacts DEF Agrees, OnCore
  <2> QED BY <2>1, <2>2
<1> QED BY <1>1, SimInductive, PTL

\* What the scheduler believes a job has left, and sorts the queue by under PSJF, is
\* what the simulator has left of it.
THEOREM TimesAgree == Spec => []RemainingTime
<1>1. SimIInv => RemainingTime
  <2> SUFFICES ASSUME SimIInv, g_scheme = "PSJF", NEW k \in 1 .. active_jobs
               PROVE  /\ \A w \in Waiting :
                           w.job_id = jobs[k].job_id => w.remaining_time = jobs[k].run_time
                      /\ \A r \in Running : r.job_id = jobs[k].job_id
                           => r.remaining_time - (time - r.latest_update_time) = jobs[k].run_time
    BY DEF RemainingTime
  <2>1. jobs[k] \in ToSet(jobs) /\ AgreesLeft(ToSet(jobs), Waiting, g_running_jobs)
    BY TableFacts DEF SimIInv, Table
  <2> QED BY <2>1 DEF AgreesLeft, Running
<1> QED BY <1>1, SimInductive, PTL

\* The scheduler never selects a job that is not there, no core gets two jobs and the
\* cores are not all idle while a job remains: main() ends in none of its complaints.
THEOREM NeverFails == Spec => [](at # "failed")
<1>1. SimIInv => at # "failed"
  BY DEF SimIInv, Control
<1> QED BY <1>1, SimInductive, PTL

\* main() calls the scheduler only as libscheduler.h allows, so that all that is proved
\* of the scheduler with any caller holds of it in the simulator.
THEOREM SimulatorImplementsScheduler == Spec => ImplementsScheduler
<1>1. Init => SchedInit /\ time = 0
  BY DEF Init
<1>2. SimIInv /\ [Next]_vars => [Tick \/ Call]_<<schedule, time>>
  BY SimStep DEF SchedulerStep
<1> QED BY <1>1, <1>2, SimInductive, PTL DEF Spec, SchedSpec, ImplementsScheduler

\* So in the simulator, where jobs arrive, run, finish and change places in whatever
\* order the file and the quantum give: cores and queue agree, the queue stays in the
\* scheme's order, preemption is complete and nobody is served out of turn.
THEOREM SchedulerInSimulator ==
  Spec => [](CoresInv /\ QueueInOrder /\ ImportantFirst /\ FirstComeFirst)
<1>1. Spec => SchedSpec
  BY SimulatorImplementsScheduler DEF ImplementsScheduler
<1> QED BY <1>1, CoresAgree, OrderKept, PreemptionComplete, ServedInTurn, PTL

-----------------------------------------------------------------------------
(***************************************************************************)
(* Sums over sets of jobs.                                                 *)
(***************************************************************************)
\* g gives the sum of f over every set of job numbers below n.
SumsBelow(n, g, f) ==
  /\ g \in [SUBSET (0 .. n - 1) -> Int]
  /\ g[{}] = 0
  /\ \A s \in SUBSET (0 .. n - 1) : \A y \in s : g[s] = f[y] + g[s \ {y}]

LEMMA SumsExtend ==
  ASSUME NEW n \in Nat, NEW f \in [0 .. n -> Int], NEW g, SumsBelow(n, g, f)
  PROVE  \E h : SumsBelow(n + 1, h, f)
<1> DEFINE h == [s \in SUBSET (0 .. n) |-> IF n \in s THEN f[n] + g[s \ {n}] ELSE g[s]]
<1>1. /\ 0 .. (n + 1) - 1 = 0 .. n /\ n \in 0 .. n /\ n \notin 0 .. n - 1
      /\ \A s \in SUBSET (0 .. n) : s \ {n} \in SUBSET (0 .. n - 1)
  OBVIOUS
<1>2. \A s \in SUBSET (0 .. n) : n \notin s => s \in SUBSET (0 .. n - 1)
  <2>1. \A s \in SUBSET (0 .. n) : n \notin s => s \ {n} = s
    OBVIOUS
  <2> QED BY <1>1, <2>1
<1>3. h \in [SUBSET (0 .. n) -> Int]
  <2>1. ASSUME NEW s \in SUBSET (0 .. n)
        PROVE  (IF n \in s THEN f[n] + g[s \ {n}] ELSE g[s]) \in Int
    <3>1. CASE n \in s
      <4>1. g[s \ {n}] \in Int /\ f[n] \in Int
        BY <1>1 DEF SumsBelow
      <4> QED BY <3>1, <4>1
    <3>2. CASE n \notin s
      BY <1>2, <3>2 DEF SumsBelow
    <3> QED BY <3>1, <3>2
  <2> QED BY <2>1
<1>4. h[{}] = 0
  BY DEF SumsBelow
<1>5. ASSUME NEW s \in SUBSET (0 .. n), NEW y \in s
      PROVE  h[s] = f[y] + h[s \ {y}]
  <2>1. s \ {y} \in SUBSET (0 .. n) /\ s \ {n} \in SUBSET (0 .. n - 1)
        /\ (s \ {y}) \ {n} \in SUBSET (0 .. n - 1)
    BY <1>1
  <2>2. f[y] \in Int /\ f[n] \in Int
    BY <1>1
  <2>3. CASE n \notin s
    <3>1. s \in SUBSET (0 .. n - 1) /\ n \notin s \ {y}
      BY <1>2, <2>3
    <3>2. h[s] = g[s] /\ h[s \ {y}] = g[s \ {y}]
      BY <2>1, <2>3
    <3> QED BY <3>1, <3>2 DEF SumsBelow
  <2>4. CASE n \in s /\ y = n
    <3>1. h[s] = f[n] + g[s \ {n}] /\ h[s \ {y}] = g[s \ {n}]
      BY <2>1, <2>4
    <3> QED BY <2>4, <3>1
  <2>5. CASE n \in s /\ y # n
    <3>1. /\ h[s] = f[n] + g[s \ {n}]
          /\ h[s \ {y}] = f[n] + g[(s \ {y}) \ {n}]
      BY <2>1, <2>5
    <3>2. y \in s \ {n} /\ (s \ {y}) \ {n} = (s \ {n}) \ {y}
      BY <2>5
    <3>3. g[s \ {n}] = f[y] + g[(s \ {n}) \ {y}]
      BY <2>1, <3>2 DEF SumsBelow
    <3>4. PICK x \in Int : x = g[(s \ {n}) \ {y}]
      BY <2>1, <3>2 DEF SumsBelow
    <3>5. h[s] = f[n] + (f[y] + x) /\ h[s \ {y}] = f[n] + x
      BY <3>1, <3>2, <3>3, <3>4
    <3>6. PICK a \in Int, b \in Int : a = f[n] /\ b = f[y]
      BY <2>2
    <3>7. a + (b + x) = b + (a + x)
      OBVIOUS
    <3> QED BY <3>5, <3>6, <3>7
  <2> QED BY <2>3, <2>4, <2>5
<1> HIDE DEF h
<1>6. SumsBelow(n + 1, h, f)
  BY <1>1, <1>3, <1>4, <1>5 DEF SumsBelow
<1> QED BY <1>6

\* The sums exist.
LEMMA SumsExist ==
  ASSUME NEW f \in [Jobs -> Int]
  PROVE  \E g : SumsBelow(NumJobs, g, f)
<1> DEFINE T == {n \in Nat : n <= NumJobs /\ ~\E g : SumsBelow(n, g, f)}
<1>1. NumJobs \in Nat /\ Jobs = 0 .. NumJobs - 1
  BY InputAssumption
<1>2. CASE T = {}
  <2>1. NumJobs \notin T
    <3> HIDE DEF T
    <3> QED BY <1>2
  <2>2. NumJobs <= NumJobs
    BY <1>1
  <2> QED BY <1>1, <2>1, <2>2
<1>3. CASE T # {}
  <2>1. PICK m \in T : \A n \in T : m <= n
    <3>1. T \subseteq Nat
      OBVIOUS
    <3> HIDE DEF T
    <3> QED BY <1>3, <3>1, LeastNumber
  <2>2. m # 0
    <3>1. SumsBelow(0, [s \in SUBSET (0 .. 0 - 1) |-> 0], f)
      <4>1. 0 .. 0 - 1 = {}
        OBVIOUS
      <4> QED BY <4>1 DEF SumsBelow
    <3> QED BY <2>1, <3>1
  <2>3. m - 1 \in Nat /\ m - 1 < m /\ m <= NumJobs
    BY <2>1, <2>2
  <2>4. m - 1 \notin T
    BY <2>1, <2>3
  <2>5. PICK g : SumsBelow(m - 1, g, f)
    BY <1>1, <2>3, <2>4
  <2> DEFINE e == [n \in 0 .. m - 1 |-> f[n]]
  <2>6. e \in [0 .. m - 1 -> Int] /\ SumsBelow(m - 1, g, e)
    <3>1. \A n \in 0 .. m - 1 : n \in Jobs /\ f[n] \in Int
      BY <1>1, <2>3
    <3>2. \A s \in SUBSET (0 .. (m - 1) - 1) : \A y \in s : y \in 0 .. m - 1 /\ e[y] = f[y]
      BY <2>3
    <3>3. e \in [0 .. m - 1 -> Int]
      BY <3>1
    <3> HIDE DEF e
    <3>4. ASSUME NEW s \in SUBSET (0 .. (m - 1) - 1), NEW y \in s
          PROVE  g[s] = e[y] + g[s \ {y}]
      <4>1. g[s] = f[y] + g[s \ {y}] /\ e[y] = f[y]
        BY <2>5, <3>2 DEF SumsBelow
      <4> QED BY <4>1
    <3>5. g \in [SUBSET (0 .. (m - 1) - 1) -> Int] /\ g[{}] = 0
      BY <2>5 DEF SumsBelow
    <3>6. SumsBelow(m - 1, g, e)
      BY <3>4, <3>5 DEF SumsBelow
    <3> QED BY <3>3, <3>6
  <2>7. PICK h : SumsBelow((m - 1) + 1, h, e)
    <3> HIDE DEF e
    <3> QED BY <2>3, <2>6, SumsExtend
  <2>8. SumsBelow(m, h, f)
    <3>1. (m - 1) + 1 = m
      BY <2>3
    <3>2. \A s \in SUBSET (0 .. m - 1) : \A y \in s : e[y] = f[y]
      OBVIOUS
    <3> HIDE DEF e
    <3> QED BY <2>7, <3>1, <3>2 DEF SumsBelow
  <2> QED BY <2>1, <2>8
<1> QED BY <1>2, <1>3

\* The order in which MapThenSumSet() goes through a set.
First(s) == CHOOSE x \in s : TRUE

\* h adds f up over subsets of S in that order.
Folds(h, f, S) ==
  h = [s \in SUBSET S |-> IF s = {} THEN 0 ELSE f[First(s)] + h[s \ {First(s)}]]

\* Whatever order the jobs of a set are added up in, the sum is the same.
LEMMA AnyOrder ==
  ASSUME NEW f \in [Jobs -> Int], NEW g, SumsBelow(NumJobs, g, f), NEW S \in SUBSET Jobs,
         NEW h, Folds(h, f, S)
  PROVE  h[S] = g[S]
<1> DEFINE T == {n \in Nat : \E s \in SUBSET S : Cardinality(s) = n /\ h[s] # g[s]}
<1>1. \A s \in SUBSET S : /\ IsFiniteSet(s) /\ Cardinality(s) \in Nat
                           /\ s \in SUBSET (0 .. NumJobs - 1)
  BY JobIdsFinite, FS_Subset, FS_CardinalityType, InputAssumption
<1>2. SUFFICES ASSUME T # {} PROVE FALSE
  <2>1. S \in SUBSET S
    OBVIOUS
  <2>2. h[S] # g[S] => Cardinality(S) \in T
    BY <1>1, <2>1
  <2> QED BY <2>2
<1>3. PICK m \in T : \A n \in T : m <= n
  <2>1. T \subseteq Nat
    OBVIOUS
  <2> HIDE DEF T
  <2> QED BY <1>2, <2>1, LeastNumber
<1>4. PICK s \in SUBSET S : Cardinality(s) = m /\ h[s] # g[s]
  BY <1>3
<1>5. s # {}
  <2>1. h[{}] = 0 /\ g[{}] = 0
    BY DEF SumsBelow, Folds
  <2> QED BY <1>4, <2>1
<1> DEFINE x == First(s)
<1>6. x \in s
  BY <1>5 DEF First
<1>7. h[s] = f[x] + h[s \ {x}]
  BY <1>4, <1>5 DEF Folds
<1> HIDE DEF x
<1>8. g[s] = f[x] + g[s \ {x}]
  BY <1>1, <1>6 DEF SumsBelow
<1>9. /\ s \ {x} \in SUBSET S /\ Cardinality(s \ {x}) = m - 1
      /\ Cardinality(s \ {x}) \in Nat
  BY <1>1, <1>4, <1>6, FS_RemoveElement
<1>10. m \in Nat
  BY <1>3
<1>11. m - 1 \notin T
  <2>1. \A n \in T : n \in Nat /\ m <= n
    BY <1>3
  <2> HIDE DEF T
  <2> QED BY <1>10, <2>1
<1>12. h[s \ {x}] = g[s \ {x}]
  BY <1>9, <1>11
<1> QED BY <1>4, <1>7, <1>8, <1>12

Sum(f, S) == MapThenSumSet(LAMBDA id : f[id], S)

LEMMA SumFolds ==
  ASSUME NEW f \in [Jobs -> Int], NEW S \in SUBSET Jobs
  PROVE  \E h : Folds(h, f, S) /\ Sum(f, S) = h[S]
<1>0. PICK g : SumsBelow(NumJobs, g, f)
  BY SumsExist
<1> DEFINE p == [s \in SUBSET S |-> g[s]]
           h == CHOOSE h : Folds(h, f, S)
<1>1. Folds(p, f, S)
  <2>1. ASSUME NEW s \in SUBSET S
        PROVE  p[s] = IF s = {} THEN 0 ELSE f[First(s)] + p[s \ {First(s)}]
    <3>1. CASE s = {}
      BY <1>0, <3>1 DEF SumsBelow
    <3>2. CASE s # {}
      <4>1. First(s) \in s
        BY <3>2 DEF First
      <4>2. s \in SUBSET (0 .. NumJobs - 1)
        BY InputAssumption
      <4>3. g[s] = f[First(s)] + g[s \ {First(s)}]
        BY <1>0, <4>1, <4>2 DEF SumsBelow
      <4>4. s \ {First(s)} \in SUBSET S
        OBVIOUS
      <4> QED BY <3>2, <4>3, <4>4
    <3> QED BY <3>1, <3>2
  <2>2. p = [s \in SUBSET S |-> p[s]]
    OBVIOUS
  <2> HIDE DEF p
  <2> QED BY <2>1, <2>2 DEF Folds
<1>2. Folds(h, f, S)
  <2>1. \E q : Folds(q, f, S)
    <3> HIDE DEF p
    <3> QED BY <1>1
  <2> QED BY <2>1
<1>3. Sum(f, S) = h[S]
  BY DEF Sum, MapThenSumSet, MapThenFoldSet, First, Folds
<1> HIDE DEF h
<1> QED BY <1>2, <1>3

\* It is a sum: nothing of no jobs, more by one job's part with one job more, and the
\* same for functions that agree about the jobs added up.
LEMMA SumFacts ==
  ASSUME NEW f \in [Jobs -> Int], NEW S \in SUBSET Jobs
  PROVE  /\ Sum(f, S) \in Int
         /\ Sum(f, {}) = 0
         /\ \A id \in Jobs \ S : Sum(f, S \cup {id}) = Sum(f, S) + f[id]
         /\ \A e \in [Jobs -> Int] : (\A id \in S : e[id] = f[id]) => Sum(e, S) = Sum(f, S)
<1>1. PICK g : SumsBelow(NumJobs, g, f)
  BY SumsExist
<1>2. \A s \in SUBSET Jobs : Sum(f, s) = g[s]
  BY <1>1, SumFolds, AnyOrder
<1>3. SUBSET Jobs = SUBSET (0 .. NumJobs - 1)
  BY InputAssumption
<1>4. Sum(f, S) \in Int /\ Sum(f, {}) = 0
  BY <1>1, <1>2, <1>3 DEF SumsBelow
<1>5. ASSUME NEW id \in Jobs \ S
      PROVE  Sum(f, S \cup {id}) = Sum(f, S) + f[id]
  <2> DEFINE s == S \cup {id}
  <2>1. s \in SUBSET Jobs /\ id \in s /\ s \ {id} = S
    OBVIOUS
  <2> HIDE DEF s
  <2>2. g[s] = f[id] + g[S]
    BY <1>1, <1>3, <2>1 DEF SumsBelow
  <2>3. g[S] \in Int /\ f[id] \in Int
    BY <1>1, <1>3 DEF SumsBelow
  <2> QED BY <1>2, <2>1, <2>2, <2>3 DEF s
<1>6. ASSUME NEW e \in [Jobs -> Int], \A id \in S : e[id] = f[id]
      PROVE  Sum(e, S) = Sum(f, S)
  <2>1. PICK h : Folds(h, e, S) /\ Sum(e, S) = h[S]
    BY SumFolds
  <2>2. \A s \in SUBSET S : s # {} => First(s) \in S
    BY DEF First
  <2>3. \A s \in SUBSET S : s # {} => e[First(s)] = f[First(s)]
    BY <1>6, <2>2
  <2>4. Folds(h, f, S)
    BY <2>1, <2>3 DEF Folds
  <2> QED BY <1>1, <1>2, <2>1, <2>4, AnyOrder
<1> QED BY <1>4, <1>5, <1>6

\* The sum Accounting compares the turnaround times with.
Turnaround(S) == MapThenSumSet(LAMBDA id : waited[id] + file[id].run_time, S)

LEMMA TurnaroundIs ==
  ASSUME NEW f \in [Jobs -> Int], NEW S \in SUBSET Jobs,
         \A id \in S : f[id] = waited[id] + file[id].run_time
  PROVE  Turnaround(S) = Sum(f, S)
<1> DEFINE Adds(h) == h = [s \in SUBSET S |-> IF s = {} THEN 0
                             ELSE (waited[First(s)] + file[First(s)].run_time) + h[s \ {First(s)}]]
           h == CHOOSE h : Adds(h)
<1>1. \A s \in SUBSET S : s # {} => f[First(s)] = waited[First(s)] + file[First(s)].run_time
  <2>1. \A s \in SUBSET S : s # {} => First(s) \in S
    BY DEF First
  <2> QED BY <2>1
<1>2. \A q : Adds(q) <=> Folds(q, f, S)
  BY <1>1 DEF Folds
<1>3. Turnaround(S) = h[S]
  BY DEF Turnaround, MapThenSumSet, MapThenFoldSet, First
<1>4. Adds(h)
  <2>1. \E q : Adds(q)
    <3> HIDE DEF Adds
    <3> QED BY <1>2, SumFolds
  <2> QED BY <2>1
<1> HIDE DEF h, Adds
<1>5. Folds(h, f, S)
  BY <1>2, <1>4
<1>6. PICK g : SumsBelow(NumJobs, g, f)
  BY SumsExist
<1>7. h[S] = g[S]
  BY <1>5, <1>6, AnyOrder
<1>8. PICK q : Folds(q, f, S) /\ Sum(f, S) = q[S]
  BY SumFolds
<1>9. q[S] = g[S]
  BY <1>6, <1>8, AnyOrder
<1> QED BY <1>3, <1>7, <1>8, <1>9

-----------------------------------------------------------------------------
(***************************************************************************)
(* The accounting: its invariant.                                          *)
(***************************************************************************)
\* What a job's record says agrees with the file and with the time the job waited: a
\* job has run if it started before this time unit, and it began to when it had been
\* idle since it came.
Recorded(j) ==
  /\ j.arrival_time = file[j.job_id].arrival_time
  /\ j.running_time = file[j.job_id].run_time
  /\ waited[j.job_id] <= time - j.arrival_time
  /\ waited[j.job_id] < time - j.arrival_time <=> j.start_time \notin {-1, time}
  /\ idled[j.job_id] = (IF j.start_time = -1 THEN time ELSE j.start_time) - j.arrival_time

\* Who waits has lost the core again if it started in this time unit; who runs, did.
Records(W, r) ==
  /\ \A w \in W : Recorded(w) /\ w.start_time # time
  /\ \A c \in Cores : r[c] # NULL => Recorded(r[c]) /\ r[c].start_time # -1

\* A job in the table either waited or ran since it came.
Booked(e) ==
  /\ e.arrival_time = file[e.job_id].arrival_time
  /\ IF e.arrived
     THEN waited[e.job_id] + (file[e.job_id].run_time - e.run_time) = time - e.arrival_time
     ELSE /\ waited[e.job_id] = 0 /\ idled[e.job_id] = 0
          /\ e.run_time = file[e.job_id].run_time

\* No quantum expires before its job has run.
Fresh == g_scheme = "RR" =>
  /\ quantum > 0
  /\ \A c \in Cores : g_running_jobs[c] # NULL /\ g_running_jobs[c].start_time = time
                        => quantum_clock[c] > 0

Missing(E) == Jobs \ {e.job_id : e \in E}

\* The totals are those of the jobs that are not in the table E any more.
Totals(E) ==
  /\ total.jobs = Cardinality(Missing(E))
  /\ total.waiting = Sum(waited, Missing(E))
  /\ total.response = Sum(idled, Missing(E))
  /\ total.turnaround = Sum([id \in Jobs |-> waited[id] + file[id].run_time], Missing(E))

Histories ==
  /\ file \in [Jobs -> [arrival_time : Nat, run_time : RunTimes, priority : Priorities]]
  /\ waited \in [Jobs -> Nat] /\ idled \in [Jobs -> Nat]

AccInv == /\ Histories
          /\ Records(Waiting, g_running_jobs)
          /\ \A e \in ToSet(jobs) : Booked(e)
          /\ Fresh
          /\ Totals(ToSet(jobs))

\* What is counted of a job.
LEMMA Counted ==
  ASSUME Histories, Clock, NEW id \in Jobs
  PROVE  /\ waited[id] \in Nat /\ idled[id] \in Nat /\ time \in Nat
         /\ file[id].run_time \in Nat \ {0} /\ file[id].arrival_time \in Nat
BY RunTimesAssumption DEF Histories, Clock

-----------------------------------------------------------------------------
(***************************************************************************)
(* A job's record through a call of the scheduler.                         *)
(***************************************************************************)
\* It is looked at with the clock unchanged: only what start_time says matters, and a
\* start in this time unit is as good as none.
LEMMA RecordKept ==
  ASSUME Clock, NEW j \in Job, Recorded(j), NEW x,
         x.job_id = j.job_id, x.arrival_time = j.arrival_time, x.running_time = j.running_time,
         x.start_time = j.start_time \/ {x.start_time, j.start_time} = {-1, time}
  PROVE  Recorded(x)
<1>1. time # -1
  BY DEF Clock
<1>2. CASE x.start_time = j.start_time
  BY <1>2 DEF Recorded
<1>3. CASE {x.start_time, j.start_time} = {-1, time}
  <2>1. x.start_time \in {-1, time} /\ j.start_time \in {-1, time}
    BY <1>3
  <2>2. idled[x.job_id] = (IF x.start_time = -1 THEN time ELSE x.start_time) - x.arrival_time
    BY <1>1, <2>1 DEF Recorded
  <2> QED BY <2>1, <2>2 DEF Recorded
<1> QED BY <1>2, <1>3

LEMMA RecordStarted ==
  ASSUME Clock, NEW j \in Job, Recorded(j)
  PROVE  Recorded(Started(j)) /\ Started(j).start_time # -1
<1>1. /\ Started(j).job_id = j.job_id /\ Started(j).arrival_time = j.arrival_time
      /\ Started(j).start_time = IF j.start_time = -1 THEN time ELSE j.start_time
      /\ Started(j).start_time # -1
  BY StartedFields
<1>2. Started(j).running_time = j.running_time
  BY DEF Started, Job
<1>3. Started(j).start_time = j.start_time \/ {Started(j).start_time, j.start_time} = {-1, time}
  BY <1>1
<1> QED BY <1>1, <1>2, <1>3, RecordKept

LEMMA RecordUpdated ==
  ASSUME Clock, NEW j \in Job, j.latest_update_time <= time, Recorded(j)
  PROVE  Recorded(Updated(j)) /\ Updated(j).start_time = j.start_time
<1>1. /\ Updated(j).job_id = j.job_id /\ Updated(j).arrival_time = j.arrival_time
      /\ Updated(j).start_time = j.start_time
  BY UpdatedFields
<1>2. Updated(j).running_time = j.running_time
  BY DEF Updated, Job
<1> QED BY <1>1, <1>2, RecordKept

LEMMA RecordQueuedAgain ==
  ASSUME Clock, NEW j \in Job, j.latest_update_time = time, Recorded(j)
  PROVE  Recorded(QueuedAgain(j)) /\ QueuedAgain(j).start_time # time
<1>1. /\ QueuedAgain(j).job_id = j.job_id /\ QueuedAgain(j).arrival_time = j.arrival_time
  BY QueuedAgainFields
<1>2. /\ QueuedAgain(j).running_time = j.running_time
      /\ QueuedAgain(j).start_time = IF j.start_time = time THEN -1 ELSE j.start_time
  BY DEF QueuedAgain, Updated, Job
<1>3. /\ QueuedAgain(j).start_time # time
      /\ \/ QueuedAgain(j).start_time = j.start_time
         \/ {QueuedAgain(j).start_time, j.start_time} = {-1, time}
  BY <1>2 DEF Clock
<1> QED BY <1>1, <1>2, <1>3, RecordKept

\* schedule_next_job(): the job taken from the queue starts.
LEMMA NextRecorded ==
  ASSUME Clock, NEW c \in Cores, NEW q \in Seq(Job),
         g_running_jobs \in [Cores -> Job \cup {NULL}],
         \A k, l \in 1 .. Len(q) : k # l => q[k].job_id # q[l].job_id,
         Records(ToSet(q), [g_running_jobs EXCEPT ![c] = NULL]),
         NEW ret, schedule_next_job(q, c, ret)
  PROVE  /\ Records(ToSet(g_job_queue'), g_running_jobs')
         /\ g_running_jobs' \in [Cores -> Job \cup {NULL}]
         /\ \A d \in Cores \ {c} : g_running_jobs'[d] = g_running_jobs[d]
<1> DEFINE r == [g_running_jobs EXCEPT ![c] = NULL]
<1>1. r[c] = NULL /\ \A d \in Cores \ {c} : r[d] = g_running_jobs[d]
  OBVIOUS
<1>2. CASE q = <<>>
  BY <1>2 DEF schedule_next_job
<1>3. CASE q # <<>>
  <2> DEFINE w == Head(q)
  <2>1. g_job_queue' = Tail(q) /\ g_running_jobs' = [g_running_jobs EXCEPT ![c] = Started(w)]
    BY <1>3 DEF schedule_next_job
  <2>2. ToSet(Tail(q)) = ToSet(q) \ {w} /\ w \in ToSet(q) /\ w \in Job
    BY <1>3, QueueMembers
  <2> HIDE DEF w
  <2>3. Recorded(w)
    BY <2>2 DEF Records
  <2>4. Recorded(Started(w)) /\ Started(w).start_time # -1 /\ Started(w) \in Job
    BY <2>2, <2>3, RecordStarted, StartedFields
  <2>5. /\ g_running_jobs'[c] = Started(w)
        /\ \A d \in Cores \ {c} : g_running_jobs'[d] = g_running_jobs[d]
    BY <2>1
  <2>6. ASSUME NEW d \in Cores, g_running_jobs'[d] # NULL
        PROVE  Recorded(g_running_jobs'[d]) /\ g_running_jobs'[d].start_time # -1
    <3>1. CASE d = c
      BY <2>4, <2>5, <3>1
    <3>2. CASE d # c
      BY <1>1, <2>5, <2>6, <3>2 DEF Records
    <3> QED BY <3>1, <3>2
  <2>7. \A v \in ToSet(g_job_queue') : Recorded(v) /\ v.start_time # time
    BY <2>1, <2>2 DEF Records
  <2>8. g_running_jobs' \in [Cores -> Job \cup {NULL}]
    BY <2>1, <2>4
  <2> QED BY <2>5, <2>6, <2>7, <2>8 DEF Records
<1> QED BY <1>2, <1>3

-----------------------------------------------------------------------------
(***************************************************************************)
(* The table through a call of the scheduler.                              *)
(***************************************************************************)
\* What the accounting looks at in an entry.
SameJob(e, f) == /\ f.job_id = e.job_id /\ f.arrival_time = e.arrival_time
                 /\ f.run_time = e.run_time /\ f.arrived = e.arrived

\* The entries F tell the same of the same jobs as the entries E.
SameJobs(F, E) == /\ \A f \in F : \E e \in E : SameJob(e, f)
                  /\ \A e \in E : \E f \in F : SameJob(e, f)

LEMMA BooksKept ==
  ASSUME NEW E, NEW F, SameJobs(F, E)
  PROVE  /\ Missing(F) = Missing(E)
         /\ (\A e \in E : Booked(e)) => \A f \in F : Booked(f)
<1>1. {f.job_id : f \in F} = {e.job_id : e \in E}
  <2>1. \A f \in F : \E e \in E : f.job_id = e.job_id
    BY DEF SameJobs, SameJob
  <2>2. \A e \in E : \E f \in F : f.job_id = e.job_id
    BY DEF SameJobs, SameJob
  <2> QED BY <2>1, <2>2
<1>2. ASSUME NEW f \in F, \A e \in E : Booked(e)
      PROVE  Booked(f)
  <2>1. PICK e \in E : SameJob(e, f)
    BY DEF SameJobs
  <2> QED BY <1>2, <2>1 DEF SameJob, Booked
<1> QED BY <1>1, <1>2 DEF Missing

\* set_active_job() changes nothing of that.
LEMMA AssignKeeps ==
  ASSUME NEW L \in Seq(Entry), NEW id, NEW c \in Cores, NEW next, Assign(L, id, c, next),
         jobs' \in Seq(Entry)
  PROVE  SameJobs(ToSet(jobs'), ToSet(L))
<1>1. jobs' \in {L, set_active_job(L, id, c)} /\ DOMAIN L = 1 .. Len(L)
  BY DEF Assign
<1>2. /\ DOMAIN jobs' = 1 .. Len(L)
      /\ \A k \in 1 .. Len(L) : jobs'[k] \in {L[k], [L[k] EXCEPT !.core_id = c]}
  BY <1>1 DEF set_active_job
<1>3. ASSUME NEW k \in 1 .. Len(L)
      PROVE  SameJob(L[k], jobs'[k])
  <2>1. L[k] \in Entry
    OBVIOUS
  <2> QED BY <1>2, <2>1 DEF SameJob, Entry
<1>4. Len(jobs') = Len(L)
  BY <1>2
<1>5. ToSet(jobs') = {jobs'[k] : k \in 1 .. Len(L)} /\ ToSet(L) = {L[k] : k \in 1 .. Len(L)}
  BY <1>4, Members
<1> QED BY <1>3, <1>5 DEF SameJobs

\* What a step leaves that changes neither the clock nor the history.
LEMMA RecordsCarry ==
  ASSUME UNCHANGED <<time, history>>, SimIInv',
         Records(ToSet(g_job_queue'), g_running_jobs')
  PROVE  Records(Waiting, g_running_jobs)'
<1>1. ToSet(g_job_queue') = Waiting'
  <2>1. g_job_queue' \in Seq(Job)
    BY DEF SimIInv, SchedIInv, SchedTypeOK
  <2> QED BY <2>1, Members DEF Waiting
<1>2. Records(Waiting', g_running_jobs')
  BY <1>1
<1> QED BY <1>2 DEF Records, Recorded, history

LEMMA BookedCarry ==
  ASSUME UNCHANGED <<time, history>>, \A e \in ToSet(jobs') : Booked(e)
  PROVE  (\A e \in ToSet(jobs) : Booked(e))'
BY DEF Booked, history

LEMMA TotalsCarry ==
  ASSUME UNCHANGED <<total, history>>, Totals(ToSet(jobs)),
         Missing(ToSet(jobs')) = Missing(ToSet(jobs))
  PROVE  Totals(ToSet(jobs))'
<1>1. Missing(ToSet(jobs))' = Missing(ToSet(jobs)) /\ Jobs' = Jobs
  BY DEF Missing
<1>2. total' = total /\ waited' = waited /\ idled' = idled /\ file' = file
  BY DEF history
<1> QED BY <1>1, <1>2 DEF Totals

LEMMA HistoriesCarry ==
  ASSUME UNCHANGED history, Histories
  PROVE  Histories'
BY DEF history, Histories

-----------------------------------------------------------------------------
(***************************************************************************)
(* The accounting through the steps of main()'s loop.                      *)
(***************************************************************************)
\* A job that finishes has waited all the time it did not run, and was idle from its
\* arrival to its start: that is what is added to the totals.
LEMMA FinishAccounts ==
  ASSUME SimIInv, AccInv, FinishJob, SimIInv'
  PROVE  AccInv'
<1>1. PICK k \in i .. active_jobs : IsNext(k, Finished) /\
        \E new \in Jobs \cup {-1} :
         /\ scheduler_job_finished(jobs[k].core_id, new)
         /\ quantum_clock' = IF g_scheme = "RR"
                             THEN [quantum_clock EXCEPT ![jobs[k].core_id] = quantum]
                             ELSE quantum_clock
         /\ Assign(Front([jobs EXCEPT ![k] = Last(jobs)]), new, jobs[k].core_id, k)
  BY DEF FinishJob
<1> DEFINE e == jobs[k]
           c == e.core_id
           L == Front([jobs EXCEPT ![k] = Last(jobs)])
<1>2. PICK new \in Jobs \cup {-1} :
        /\ scheduler_job_finished(c, new)
        /\ quantum_clock' = IF g_scheme = "RR" THEN [quantum_clock EXCEPT ![c] = quantum]
                                               ELSE quantum_clock
        /\ Assign(L, new, c, k)
  BY <1>1
<1>3. UNCHANGED <<time, quantum, history>> /\ at = "finish"
  BY DEF FinishJob
<1>4. k \in 1 .. active_jobs /\ e \in Entry /\ e \in ToSet(jobs)
  BY TableFacts DEF SimIInv, Control
<1>5. e.run_time = 0
  BY <1>1 DEF IsNext, Finished
<1>6. c \in Cores /\ e.arrived
  <2>1. c # -1
    BY <1>4, <1>5 DEF SimIInv, Work, active_jobs
  <2> QED BY <1>4, <2>1, TableFacts DEF Agrees, Entry
<1>7. Listed(L) /\ ToSet(L) = ToSet(jobs) \ {e}
  BY <1>4, EntryDeleted DEF SimIInv, active_jobs
<1> HIDE DEF L
<1> DEFINE j == g_running_jobs[c]
<1>8. /\ j \in Job /\ j # NULL /\ j.job_id = e.job_id
      /\ Recorded(j) /\ j.start_time # -1
  <2>1. j # NULL /\ j.job_id = e.job_id
    BY <1>4, <1>6, TableFacts, WhoseCore
  <2>2. g_running_jobs \in [Cores -> Job \cup {NULL}]
    BY TableFacts DEF Agrees
  <2> QED BY <1>6, <2>1, <2>2 DEF AccInv, Records
<1>9. /\ schedule_next_job(g_job_queue, c, new) /\ total' = Account(j)
      /\ UNCHANGED <<g_scheme, time>>
  BY <1>2, <1>3 DEF scheduler_job_finished
<1> HIDE DEF c, j
<1>10. /\ Records(ToSet(g_job_queue'), g_running_jobs')
       /\ \A d \in Cores \ {c} : g_running_jobs'[d] = g_running_jobs[d]
  <2>1. g_running_jobs \in [Cores -> Job \cup {NULL}]
    BY TableFacts DEF Agrees
  <2>2. Records(ToSet(g_job_queue), [g_running_jobs EXCEPT ![c] = NULL])
    BY <1>6, <2>1, TableFacts DEF AccInv, Records
  <2> QED BY <1>6, <1>9, <2>1, <2>2, TableFacts, NextRecorded
<1>11. Records(Waiting, g_running_jobs)'
  BY <1>3, <1>10, RecordsCarry
<1>12. SameJobs(ToSet(jobs'), ToSet(L))
  BY <1>2, <1>6, <1>7, AssignKeeps DEF SimIInv, Listed
<1>13. (\A d \in ToSet(jobs) : Booked(d))'
  <2>1. \A d \in ToSet(L) : Booked(d)
    BY <1>7 DEF AccInv
  <2> QED BY <1>3, <1>12, <2>1, BooksKept, BookedCarry
<1>14. Fresh'
  <2> SUFFICES ASSUME g_scheme' = "RR"
               PROVE  /\ quantum' > 0
                      /\ \A d \in Cores :
                           g_running_jobs'[d] # NULL /\ g_running_jobs'[d].start_time = time'
                             => quantum_clock'[d] > 0
    BY DEF Fresh
  <2>1. g_scheme = "RR" /\ quantum' = quantum /\ quantum > 0
    BY <1>3, <1>9 DEF AccInv, Fresh
  <2>2. quantum_clock \in [Cores -> Int] /\ quantum_clock' = [quantum_clock EXCEPT ![c] = quantum]
    BY <1>2, <2>1 DEF SimIInv, Control
  <2>3. ASSUME NEW d \in Cores, g_running_jobs'[d] # NULL, g_running_jobs'[d].start_time = time'
        PROVE  quantum_clock'[d] > 0
    <3>1. CASE d = c
      BY <1>6, <2>1, <2>2, <3>1
    <3>2. CASE d # c
      BY <1>3, <1>10, <2>1, <2>2, <2>3, <3>2 DEF AccInv, Fresh
    <3> QED BY <3>1, <3>2
  <2> QED BY <2>1, <2>3
<1> DEFINE id == e.job_id
           M == Missing(ToSet(jobs))
           turn == [b \in Jobs |-> waited[b] + file[b].run_time]
<1>15. id \in Jobs \ M /\ M \in SUBSET Jobs
  BY <1>4 DEF Entry, Missing
<1>16. Missing(ToSet(jobs')) = M \cup {id}
  <2>1. Missing(ToSet(jobs')) = Missing(ToSet(L))
    BY <1>12, BooksKept
  <2>2. \A d \in ToSet(jobs) : d.job_id = id => d = e
    BY <1>4, TableFacts DEF Agrees
  <2>3. id \in Jobs
    BY <1>15
  <2> QED BY <1>4, <1>7, <2>1, <2>2, <2>3 DEF Missing
<1>17. Clock /\ Histories
  BY TableFacts DEF AccInv
<1>18. turn \in [Jobs -> Int] /\ waited \in [Jobs -> Int] /\ idled \in [Jobs -> Int]
  <2>1. \A b \in Jobs : waited[b] + file[b].run_time \in Int
    BY <1>17, Counted
  <2> QED BY <1>17, <2>1 DEF Histories
<1>19. turn[id] = waited[id] + file[id].run_time
  BY <1>15
<1> HIDE DEF e, id, M, turn
<1>20. /\ waited[id] + file[id].run_time = time - j.arrival_time
       /\ waited[id] = time - j.arrival_time - j.running_time
       /\ idled[id] = j.start_time - j.arrival_time
  <2>1. waited[id] \in Nat /\ time \in Nat /\ file[id].run_time \in Nat \ {0}
        /\ file[id].arrival_time \in Nat
    BY <1>15, <1>17, Counted
  <2>2. /\ e.arrival_time = file[id].arrival_time
        /\ waited[id] + (file[id].run_time - 0) = time - e.arrival_time
    BY <1>4, <1>5, <1>6 DEF AccInv, Booked, id
  <2>3. /\ j.arrival_time = file[id].arrival_time /\ j.running_time = file[id].run_time
        /\ idled[id] = j.start_time - j.arrival_time
    BY <1>8 DEF Recorded, id
  <2> QED BY <2>1, <2>2, <2>3
<1>21. Totals(ToSet(jobs))'
  <2>1. /\ Cardinality(M \cup {id}) = Cardinality(M) + 1
    BY <1>15, JobIdsFinite, FS_Subset, FS_AddElement
  <2>2. /\ Sum(waited, M \cup {id}) = Sum(waited, M) + waited[id]
        /\ Sum(idled, M \cup {id}) = Sum(idled, M) + idled[id]
        /\ Sum(turn, M \cup {id}) = Sum(turn, M) + turn[id]
    BY <1>15, <1>18, SumFacts
  <2>3. /\ total.jobs = Cardinality(M) /\ total.waiting = Sum(waited, M)
        /\ total.response = Sum(idled, M) /\ total.turnaround = Sum(turn, M)
    BY DEF AccInv, Totals, M, turn
  <2>4. /\ total'.jobs = total.jobs + 1
        /\ total'.turnaround = total.turnaround + (time - j.arrival_time)
        /\ total'.waiting = total.waiting + (time - j.arrival_time - j.running_time)
        /\ total'.response = total.response + (j.start_time - j.arrival_time)
    BY <1>9 DEF Account
  <2>5. Missing(ToSet(jobs))' = M \cup {id} /\ Jobs' = Jobs
    BY <1>16 DEF Missing
  <2>6. waited' = waited /\ idled' = idled /\ turn' = turn
    BY <1>3 DEF history, turn
  <2>7. [b \in Jobs |-> waited[b] + file[b].run_time]' = turn
    BY <1>3 DEF history, turn
  <2>8. /\ total'.jobs = Cardinality(M \cup {id}) /\ total'.waiting = Sum(waited, M \cup {id})
        /\ total'.response = Sum(idled, M \cup {id}) /\ total'.turnaround = Sum(turn, M \cup {id})
    BY <1>19, <1>20, <2>1, <2>2, <2>3, <2>4
  <2> QED BY <2>5, <2>6, <2>7, <2>8 DEF Totals
<1> QED BY <1>3, <1>11, <1>13, <1>14, <1>17, <1>21, HistoriesCarry DEF AccInv

\* The end of a loop changes nothing the books look at.
LEMMA LoopsDoneAccounts ==
  ASSUME AccInv, UNCHANGED <<schedule, time, table, history>>
  PROVE  AccInv'
<1>1. UNCHANGED <<g_scheme, g_job_queue, g_running_jobs, total, time, jobs, quantum,
                  quantum_clock, file, waited, idled>>
  BY DEF schedule, table, history
<1>2. Records(Waiting, g_running_jobs)'
  BY <1>1 DEF AccInv, Records, Recorded, Waiting
<1>3. (\A e \in ToSet(jobs) : Booked(e))'
  BY <1>1 DEF AccInv, Booked, ToSet
<1>4. Fresh'
  BY <1>1 DEF AccInv, Fresh
<1>5. Totals(ToSet(jobs))'
  <2>1. ToSet(jobs)' = ToSet(jobs)
    BY <1>1 DEF ToSet
  <2> QED BY <1>1, <2>1, TotalsCarry DEF AccInv, history, ToSet
<1> QED BY <1>1, <1>2, <1>3, <1>4, <1>5, HistoriesCarry DEF AccInv, history

\* A job whose quantum expires has run, so it is waiting with the start it had.
LEMMA QuantumAccounts ==
  ASSUME SimIInv, AccInv, QuantumExpires, SimIInv'
  PROVE  AccInv'
<1>1. /\ at = "quantum" /\ g_scheme = "RR"
      /\ UNCHANGED <<time, quantum, history>>
  BY DEF QuantumExpires, SimIInv, Control
<1>2. PICK k \in i .. g_total_cores :
        /\ IsNext(k, Expired)
        /\ \E l \in 1 .. active_jobs, new \in Jobs \cup {-1} :
             /\ jobs[l].core_id = k - 1
             /\ scheduler_quantum_expired(k - 1, new)
             /\ quantum_clock' = [quantum_clock EXCEPT ![k - 1] = quantum]
             /\ Assign([jobs EXCEPT ![l].core_id = -1], new, k - 1, k + 1)
  BY DEF QuantumExpires
<1> DEFINE c == k - 1
<1>3. PICK l \in 1 .. active_jobs, new \in Jobs \cup {-1} :
         /\ jobs[l].core_id = c
         /\ scheduler_quantum_expired(c, new)
         /\ quantum_clock' = [quantum_clock EXCEPT ![c] = quantum]
         /\ Assign([jobs EXCEPT ![l].core_id = -1], new, c, k + 1)
  BY <1>2
<1>4. c \in Cores /\ quantum_clock[c] = 0
  BY <1>2, CoresAssumption DEF Cores, SimIInv, Control, IsNext, Expired
<1> HIDE DEF c
<1> DEFINE e == jobs[l]
           f == [e EXCEPT !.core_id = -1]
           L == [jobs EXCEPT ![l].core_id = -1]
           o == g_running_jobs[c]
           j == [o EXCEPT !.latest_queue_time = time]
           q == Order!Insert(g_job_queue, j)
           r == [g_running_jobs EXCEPT ![c] = NULL]
<1>5. /\ o # NULL /\ o \in Job /\ g_running_jobs \in [Cores -> Job \cup {NULL}] /\ Clock
      /\ e \in Entry
  BY <1>3, <1>4, TableFacts DEF scheduler_quantum_expired, Agrees
<1>6. /\ schedule_next_job(q, c, new) /\ UNCHANGED <<g_scheme, total, time>>
  BY <1>1, <1>3 DEF scheduler_quantum_expired
<1>7. /\ j \in Job /\ Sound(q, r)
  BY <1>1, <1>4, <1>5, QuantumQueued DEF SimIInv
<1>8. Recorded(o) /\ o.start_time # -1 /\ o.start_time # time
  BY <1>1, <1>4, <1>5 DEF AccInv, Records, Fresh
<1>9. /\ j.job_id = o.job_id /\ j.arrival_time = o.arrival_time
      /\ j.running_time = o.running_time /\ j.start_time = o.start_time
  BY <1>5 DEF Job
<1>10. ToSet(q) = Waiting \cup {j}
  BY <1>5, <1>7, QueueMembers, TableFacts
<1>11. q \in Seq(Job) /\ \A m, n \in 1 .. Len(q) : m # n => q[m].job_id # q[n].job_id
  BY <1>7 DEF Sound, Placed
<1> HIDE DEF j, q
<1>12. Recorded(j) /\ j.start_time # time
  BY <1>5, <1>7, <1>8, <1>9, RecordKept
<1>13. Records(ToSet(q), r)
  BY <1>4, <1>5, <1>10, <1>12 DEF AccInv, Records
<1> HIDE DEF o
<1>14. /\ Records(ToSet(g_job_queue'), g_running_jobs')
       /\ \A d \in Cores \ {c} : g_running_jobs'[d] = g_running_jobs[d]
  BY <1>4, <1>5, <1>6, <1>11, <1>13, NextRecorded
<1>15. Records(Waiting, g_running_jobs)'
  BY <1>1, <1>14, RecordsCarry
<1>16. f \in Entry /\ SameJob(e, f)
  BY <1>5 DEF SameJob, Entry
<1>17. L = [jobs EXCEPT ![l] = f]
  BY <1>3, TableFacts
<1> HIDE DEF f, L
<1>18. L \in Seq(Entry) /\ SameJobs(ToSet(L), ToSet(jobs))
  <2>1. /\ L \in Seq(Entry) /\ Len(L) = active_jobs
        /\ \A m \in 1 .. active_jobs : L[m] = IF m = l THEN f ELSE jobs[m]
    BY <1>16, <1>17, TableFacts DEF active_jobs
  <2>2. ToSet(L) = {L[m] : m \in 1 .. active_jobs}
    BY <2>1, Members
  <2>3. \A m \in 1 .. active_jobs : SameJob(jobs[m], L[m])
    BY <1>16, <2>1 DEF SameJob
  <2> QED BY <2>1, <2>2, <2>3, TableFacts DEF SameJobs
<1>19. SameJobs(ToSet(jobs'), ToSet(L))
  BY <1>3, <1>4, <1>18, AssignKeeps DEF L, SimIInv, Listed
<1>20. (\A d \in ToSet(jobs) : Booked(d))'
  <2>1. \A d \in ToSet(jobs) : Booked(d)
    BY DEF AccInv
  <2> QED BY <1>1, <1>18, <1>19, <2>1, BooksKept, BookedCarry
<1>21. Totals(ToSet(jobs))'
  <2>1. Missing(ToSet(jobs')) = Missing(ToSet(jobs))
    BY <1>18, <1>19, BooksKept
  <2> QED BY <1>1, <1>6, <2>1, TotalsCarry DEF AccInv
<1>22. Fresh'
  <2> SUFFICES /\ quantum' > 0
               /\ \A d \in Cores :
                    g_running_jobs'[d] # NULL /\ g_running_jobs'[d].start_time = time'
                      => quantum_clock'[d] > 0
    BY DEF Fresh
  <2>1. quantum' = quantum /\ quantum > 0
    BY <1>1 DEF AccInv, Fresh
  <2>2. quantum_clock \in [Cores -> Int] /\ quantum_clock' = [quantum_clock EXCEPT ![c] = quantum]
    BY <1>3 DEF SimIInv, Control
  <2>3. ASSUME NEW d \in Cores, g_running_jobs'[d] # NULL, g_running_jobs'[d].start_time = time'
        PROVE  quantum_clock'[d] > 0
    <3>1. CASE d = c
      BY <1>4, <2>1, <2>2, <3>1
    <3>2. CASE d # c
      BY <1>1, <1>14, <2>2, <2>3, <3>2 DEF AccInv, Fresh
    <3> QED BY <3>1, <3>2
  <2> QED BY <2>1, <2>3
<1> QED BY <1>1, <1>15, <1>20, <1>21, <1>22, HistoriesCarry DEF AccInv

\* A job that arrives has not waited yet, and the other jobs' books are as they were.
LEMMA ArrivalBooked ==
  ASSUME SimIInv, AccInv, at = "arrive", NEW k \in i .. active_jobs, IsNext(k, Arrives),
         NEW core \in Cores \cup {-1}, jobs' = Told(k, core)
  PROVE  /\ Missing(ToSet(jobs')) = Missing(ToSet(jobs))
         /\ \A e \in ToSet(jobs') : Booked(e)
<1>1. /\ k \in 1 .. active_jobs /\ jobs[k] \in ToSet(jobs) /\ jobs[k] \in Entry
      /\ jobs[k].arrival_time = time /\ ~jobs[k].arrived
  BY ArrivingJob
<1>2. ASSUME NEW l \in 1 .. active_jobs
      PROVE  /\ jobs'[l].job_id = jobs[l].job_id /\ jobs'[l].arrival_time = jobs[l].arrival_time
             /\ jobs'[l].run_time = jobs[l].run_time
             /\ jobs'[l].arrived = (l = k \/ jobs[l].arrived)
  <2>1. jobs[l] \in Entry
    BY TableFacts
  <2>2. CASE l = k
    <3>1. jobs'[l] = [jobs[k] EXCEPT !.arrived = TRUE, !.core_id = core]
      BY <2>2 DEF Told
    <3> QED BY <1>1, <2>2, <3>1 DEF Entry
  <2>3. CASE l # k
    <3>1. jobs'[l] \in {jobs[l], [jobs[l] EXCEPT !.core_id = -1]}
      BY <2>3 DEF Told
    <3>2. jobs[l].arrived \in BOOLEAN
      BY <2>1 DEF Entry
    <3> QED BY <2>1, <2>3, <3>1, <3>2 DEF Entry
  <2> QED BY <2>2, <2>3
<1>3. ToSet(jobs') = {jobs'[l] : l \in 1 .. active_jobs}
  <2>1. DOMAIN jobs' = 1 .. active_jobs
    BY DEF Told
  <2> QED BY <2>1 DEF ToSet
<1>4. Missing(ToSet(jobs')) = Missing(ToSet(jobs))
  <2>1. {e.job_id : e \in ToSet(jobs')} = {e.job_id : e \in ToSet(jobs)}
    <3>1. \A e \in ToSet(jobs') : \E d \in ToSet(jobs) : d.job_id = e.job_id
      BY <1>2, <1>3, TableFacts
    <3>2. \A d \in ToSet(jobs) : \E e \in ToSet(jobs') : d.job_id = e.job_id
      BY <1>2, <1>3, TableFacts
    <3> QED BY <3>1, <3>2
  <2> QED BY <2>1 DEF Missing
<1>5. ASSUME NEW l \in 1 .. active_jobs
      PROVE  Booked(jobs'[l])
  <2>1. Booked(jobs[l]) /\ jobs[l] \in Entry
    BY TableFacts DEF AccInv
  <2>2. CASE l = k
    <3>1. jobs[k].job_id \in Jobs
      BY <1>1 DEF Entry
    <3>2. /\ file[jobs[k].job_id].run_time \in Nat /\ time \in Nat
      BY <3>1, Counted, TableFacts DEF AccInv
    <3>3. /\ waited[jobs[k].job_id] = 0 /\ jobs[k].run_time = file[jobs[k].job_id].run_time
          /\ time = file[jobs[k].job_id].arrival_time
      BY <1>1, <2>1, <2>2 DEF Booked
    <3>4. waited[jobs[k].job_id] + (file[jobs[k].job_id].run_time - jobs[k].run_time)
            = time - jobs[k].arrival_time
      BY <1>1, <3>2, <3>3
    <3> QED BY <1>1, <1>2, <2>2, <3>3, <3>4 DEF Booked
  <2>3. CASE l # k
    BY <1>2, <2>1, <2>3 DEF Booked
  <2> QED BY <2>2, <2>3
<1> QED BY <1>3, <1>4, <1>5

\* What scheduler_new_job() makes of it, whether it starts, preempts or waits.
LEMMA ArrivalRecorded ==
  ASSUME SimIInv, AccInv, at = "arrive", NEW k \in i .. active_jobs, IsNext(k, Arrives),
         NEW core \in Cores \cup {-1},
         scheduler_new_job(jobs[k].job_id, jobs[k].run_time, jobs[k].priority, core)
  PROVE  /\ Records(ToSet(g_job_queue'), g_running_jobs')
         /\ UNCHANGED <<g_scheme, total>>
         /\ g_scheme = "RR" => \A c \in Cores \ {core} : g_running_jobs'[c] = g_running_jobs[c]
<1> DEFINE e == jobs[k]
           j == new_job(e.job_id, e.priority, e.run_time)
<1>1. /\ e \in ToSet(jobs) /\ e \in Entry /\ e.arrival_time = time /\ ~e.arrived
      /\ e.job_id \in Jobs \ LiveIds /\ e.run_time \in RunTimes /\ e.priority \in Priorities
  BY ArrivingJob
<1>2. Booked(e) /\ Clock /\ Histories
  BY <1>1, TableFacts DEF AccInv
<1>3. j \in Job
  BY <1>1, NewJobFields DEF SimIInv, New
<1>4. Recorded(j) /\ j.start_time = -1
  <2>1. /\ j.job_id = e.job_id /\ j.arrival_time = time /\ j.start_time = -1
        /\ j.running_time = e.run_time
    BY DEF new_job
  <2>2. /\ waited[e.job_id] = 0 /\ idled[e.job_id] = 0
        /\ time = file[e.job_id].arrival_time /\ e.run_time = file[e.job_id].run_time
    BY <1>1, <1>2 DEF Booked
  <2>3. time \in Nat
    BY <1>2 DEF Clock
  <2> QED BY <2>1, <2>2, <2>3 DEF Recorded
<1> HIDE DEF e, j
<1>5. NewJobStarts(j, core) \/ NewJobPreempts(j, core) \/ NewJobWaits(j, core)
  BY DEF scheduler_new_job, e, j
<1>6. UNCHANGED <<g_scheme, total>>
  BY <1>5 DEF NewJobStarts, NewJobPreempts, NewJobWaits
<1>7. /\ g_running_jobs \in [Cores -> Job \cup {NULL}] /\ -1 \notin Cores
      /\ Records(ToSet(g_job_queue), g_running_jobs) /\ g_job_queue \in Seq(Job)
      /\ SchedIInv /\ ToSet(g_job_queue) \subseteq Job
  BY TableFacts, CoresAssumption DEF Agrees, AccInv, Cores, SimIInv
<1>8. Recorded(Started(j)) /\ Started(j).start_time # -1
  BY <1>2, <1>3, <1>4, RecordStarted
<1>9. CASE NewJobStarts(j, core)
  <2>1. /\ core \in Cores /\ g_job_queue' = g_job_queue
        /\ g_running_jobs' = [g_running_jobs EXCEPT ![core] = Started(j)]
    BY <1>7, <1>9 DEF NewJobStarts, SchedIInv, SchedTypeOK
  <2>2. \A c \in Cores : g_running_jobs'[c] = IF c = core THEN Started(j) ELSE g_running_jobs[c]
    BY <1>7, <2>1
  <2>3. Records(ToSet(g_job_queue'), g_running_jobs')
    BY <1>7, <1>8, <2>1, <2>2 DEF Records
  <2> QED BY <1>6, <2>2, <2>3
<1>10. ASSUME g_idle_cores = {}
       PROVE  /\ Records(ToSet(g_job_queue), UpToDate)
              /\ UpToDate \in [Cores -> Job]
              /\ \A c \in Cores : Preemptive => UpToDate[c].latest_update_time = time
  <2>1. UpToDate \in [Cores -> Job]
    BY <1>7, <1>10, UpToDateSound
  <2>2. \A c \in Cores : g_running_jobs[c] # NULL /\ g_running_jobs[c] \in Job
    BY <1>7, <1>10 DEF SchedIInv, SchedTypeOK, IdleAgree
  <2>3. ASSUME NEW c \in Cores
        PROVE  Recorded(UpToDate[c]) /\ UpToDate[c].start_time # -1
    <3>1. Recorded(g_running_jobs[c]) /\ g_running_jobs[c].start_time # -1
      BY <1>7, <2>2 DEF Records
    <3>2. g_running_jobs[c].latest_update_time <= time
      BY <1>7, <2>2 DEF SchedIInv, Sound, Timed
    <3>3. CASE Preemptive
      <4>1. UpToDate[c] = Updated(g_running_jobs[c])
        BY <3>3 DEF UpToDate
      <4> QED BY <1>2, <2>2, <3>1, <3>2, <4>1, RecordUpdated
    <3>4. CASE ~Preemptive
      BY <3>1, <3>4 DEF UpToDate
    <3> QED BY <3>3, <3>4
  <2>4. \A c \in Cores : Preemptive => UpToDate[c].latest_update_time = time
    BY <1>7, <1>10, UpToDateSound
  <2> QED BY <1>7, <2>1, <2>3, <2>4 DEF Records
<1>11. CASE NewJobPreempts(j, core)
  <2> DEFINE x == QueuedAgain(UpToDate[core])
  <2>1. /\ core \in Cores /\ Preemptive /\ g_idle_cores = {}
        /\ g_job_queue' = Order!Insert(g_job_queue, x)
        /\ g_running_jobs' = [UpToDate EXCEPT ![core] = Started(j)]
    BY <1>11 DEF NewJobPreempts
  <2>2. UpToDate[core] \in Job /\ UpToDate[core].latest_update_time = time
    BY <1>10, <2>1
  <2>3. Recorded(UpToDate[core]) /\ UpToDate[core] # NULL
    BY <1>10, <2>1, <2>2, NullAssumption DEF Records
  <2>4. x \in Job /\ Recorded(x) /\ x.start_time # time
    BY <1>2, <2>2, <2>3, QueuedAgainFields, RecordQueuedAgain
  <2> HIDE DEF x
  <2>5. ToSet(g_job_queue') = ToSet(g_job_queue) \cup {x}
    BY <1>2, <1>7, <2>1, <2>4, QueueMembers
  <2>6. \A c \in Cores : g_running_jobs'[c] = IF c = core THEN Started(j) ELSE UpToDate[c]
    BY <1>10, <2>1
  <2>7. Records(ToSet(g_job_queue'), g_running_jobs')
    BY <1>8, <1>10, <2>1, <2>4, <2>5, <2>6 DEF Records
  <2> QED BY <1>6, <2>1, <2>7 DEF Preemptive
<1>12. CASE NewJobWaits(j, core)
  <2> DEFINE x == [j EXCEPT !.latest_queue_time = time]
  <2>1. /\ g_idle_cores = {} /\ g_running_jobs' = UpToDate
        /\ g_job_queue' = Order!Insert(g_job_queue, x)
    BY <1>12 DEF NewJobWaits
  <2>2. /\ x \in Job /\ x.job_id = j.job_id /\ x.arrival_time = j.arrival_time
        /\ x.running_time = j.running_time /\ x.start_time = j.start_time
    BY <1>2, <1>3 DEF Job, Clock
  <2> HIDE DEF x
  <2>3. Recorded(x) /\ x.start_time # time
    BY <1>2, <1>3, <1>4, <2>2, RecordKept DEF Clock
  <2>4. ToSet(g_job_queue') = ToSet(g_job_queue) \cup {x}
    BY <1>2, <1>7, <2>1, <2>2, QueueMembers
  <2>5. Records(ToSet(g_job_queue'), g_running_jobs')
    BY <1>10, <2>1, <2>3, <2>4 DEF Records
  <2>6. g_scheme = "RR" => g_running_jobs' = g_running_jobs
    BY <2>1 DEF UpToDate, Preemptive
  <2> QED BY <1>6, <2>5, <2>6
<1> QED BY <1>5, <1>9, <1>11, <1>12

LEMMA ArrivalAccounts ==
  ASSUME SimIInv, AccInv, JobArrives, SimIInv'
  PROVE  AccInv'
<1>1. at = "arrive" /\ UNCHANGED <<time, quantum, history>>
  BY DEF JobArrives
<1>2. PICK k \in i .. active_jobs : IsNext(k, Arrives) /\
       \E core \in Cores \cup {-1} :
         /\ scheduler_new_job(jobs[k].job_id, jobs[k].run_time, jobs[k].priority, core)
         /\ jobs' = Told(k, core)
         /\ quantum_clock' = IF core # -1 /\ g_scheme = "RR"
                             THEN [quantum_clock EXCEPT ![core] = quantum]
                             ELSE quantum_clock
  BY DEF JobArrives, Told
<1>3. PICK core \in Cores \cup {-1} :
         /\ scheduler_new_job(jobs[k].job_id, jobs[k].run_time, jobs[k].priority, core)
         /\ jobs' = Told(k, core)
         /\ quantum_clock' = IF core # -1 /\ g_scheme = "RR"
                             THEN [quantum_clock EXCEPT ![core] = quantum]
                             ELSE quantum_clock
  BY <1>2
<1>4. /\ Missing(ToSet(jobs')) = Missing(ToSet(jobs))
      /\ \A e \in ToSet(jobs') : Booked(e)
  BY <1>1, <1>2, <1>3, ArrivalBooked
<1>5. /\ Records(ToSet(g_job_queue'), g_running_jobs')
      /\ UNCHANGED <<g_scheme, total>>
      /\ g_scheme = "RR" => \A c \in Cores \ {core} : g_running_jobs'[c] = g_running_jobs[c]
  BY <1>1, <1>2, <1>3, ArrivalRecorded
<1>6. Records(Waiting, g_running_jobs)'
  BY <1>1, <1>5, RecordsCarry
<1>7. (\A e \in ToSet(jobs) : Booked(e))'
  BY <1>1, <1>4, BookedCarry
<1>8. Totals(ToSet(jobs))'
  BY <1>1, <1>4, <1>5, TotalsCarry DEF AccInv
<1>9. Fresh'
  <2> SUFFICES ASSUME g_scheme' = "RR"
               PROVE  /\ quantum' > 0
                      /\ \A d \in Cores :
                           g_running_jobs'[d] # NULL /\ g_running_jobs'[d].start_time = time'
                             => quantum_clock'[d] > 0
    BY DEF Fresh
  <2>1. g_scheme = "RR" /\ quantum' = quantum /\ quantum > 0
    BY <1>1, <1>5 DEF AccInv, Fresh
  <2>2. quantum_clock \in [Cores -> Int] /\ -1 \notin Cores
    BY CoresAssumption DEF SimIInv, Control, Cores
  <2>3. ASSUME NEW d \in Cores, g_running_jobs'[d] # NULL, g_running_jobs'[d].start_time = time'
        PROVE  quantum_clock'[d] > 0
    <3>1. CASE d = core
      <4>1. quantum_clock'[d] = quantum
        BY <1>3, <2>1, <2>2, <3>1
      <4> QED BY <2>1, <4>1
    <3>2. CASE d # core
      <4>1. quantum_clock'[d] = quantum_clock[d]
        BY <1>3, <2>2, <3>2
      <4>2. g_running_jobs'[d] = g_running_jobs[d]
        BY <1>5, <2>1, <3>2
      <4> QED BY <1>1, <2>1, <2>3, <4>1, <4>2 DEF AccInv, Fresh
    <3> QED BY <3>1, <3>2
  <2> QED BY <2>1, <2>3
<1> QED BY <1>1, <1>6, <1>7, <1>8, <1>9, HistoriesCarry DEF AccInv

\* Who is idle in a time unit: the jobs that wait.
LEMMA IdleJobs ==
  ASSUME SimIInv, AccInv, RunUnit
  PROVE  /\ \A k \in 1 .. active_jobs :
              Idle(jobs[k].job_id) <=> (jobs[k].arrived /\ jobs[k].core_id = -1)
         /\ \A k \in 1 .. active_jobs :
              HasRun(jobs[k].job_id) <=> jobs[k].run_time < file[jobs[k].job_id].run_time
         /\ \A id \in Missing(ToSet(jobs)) : ~Idle(id)
         /\ time' = time + 1 /\ at = "run"
         /\ UNCHANGED <<schedule, quantum, file>>
         /\ \A id \in Jobs : /\ waited'[id] = IF Idle(id) THEN waited[id] + 1 ELSE waited[id]
                             /\ idled'[id] = IF Idle(id) /\ ~HasRun(id) THEN idled[id] + 1
                                                                        ELSE idled[id]
         /\ Histories'
<1>1. \A k, l \in 1 .. active_jobs : jobs[k].job_id = jobs[l].job_id => k = l
  BY DEF SimIInv, Listed, active_jobs
<1>2. /\ \A k \in 1 .. active_jobs :
           Idle(jobs[k].job_id) <=> (jobs[k].arrived /\ jobs[k].core_id = -1)
      /\ \A k \in 1 .. active_jobs :
           HasRun(jobs[k].job_id) <=> jobs[k].run_time < file[jobs[k].job_id].run_time
  BY <1>1 DEF Idle, HasRun
<1>3. \A id \in Missing(ToSet(jobs)) : ~Idle(id)
  BY TableFacts DEF Missing, Idle
<1>4. at = "run" /\ time' = time + 1 /\ UNCHANGED <<schedule, quantum, file>>
  BY AlwaysSane DEF RunUnit
<1>5. Histories
  BY DEF AccInv
<1>6. /\ waited' = [id \in Jobs |-> IF Idle(id) THEN waited[id] + 1 ELSE waited[id]]
      /\ idled' = [id \in Jobs |-> IF Idle(id) /\ ~HasRun(id) THEN idled[id] + 1 ELSE idled[id]]
  <2>1. \A id \in Jobs :
          /\ waited[id] + (IF Idle(id) THEN 1 ELSE 0)
               = IF Idle(id) THEN waited[id] + 1 ELSE waited[id]
          /\ idled[id] + (IF Idle(id) /\ ~HasRun(id) THEN 1 ELSE 0)
               = IF Idle(id) /\ ~HasRun(id) THEN idled[id] + 1 ELSE idled[id]
    BY <1>5 DEF Histories
  <2> QED BY <2>1 DEF RunUnit
<1>7. Histories'
  <2>1. waited' \in [Jobs -> Nat] /\ idled' \in [Jobs -> Nat]
    BY <1>5, <1>6 DEF Histories
  <2> QED BY <1>4, <1>5, <2>1 DEF Histories
<1> QED BY <1>2, <1>3, <1>4, <1>6, <1>7

\* One time unit later every job in the table has waited or run for one more.
LEMMA UnitBooked ==
  ASSUME SimIInv, AccInv, RunUnit, SimIInv'
  PROVE  /\ Missing(ToSet(jobs')) = Missing(ToSet(jobs))
         /\ (\A e \in ToSet(jobs) : Booked(e))'
<1>1. ASSUME NEW k \in 1 .. active_jobs
      PROVE  /\ jobs[k] \in Entry /\ jobs[k] \in ToSet(jobs)
             /\ jobs'[k].job_id = jobs[k].job_id
             /\ jobs'[k].arrival_time = jobs[k].arrival_time
             /\ jobs'[k].arrived = jobs[k].arrived
             /\ jobs'[k].run_time = IF jobs[k].core_id # -1 THEN jobs[k].run_time - 1
                                                            ELSE jobs[k].run_time
  <2>1. jobs[k] \in Entry /\ jobs[k] \in ToSet(jobs)
    BY TableFacts
  <2>2. jobs'[k] = [jobs[k] EXCEPT !.run_time = IF jobs[k].core_id # -1 THEN jobs[k].run_time - 1
                                                            ELSE jobs[k].run_time]
    BY TableFacts DEF RunUnit
  <2> QED BY <2>1, <2>2 DEF Entry
<1>2. ToSet(jobs') = {jobs'[k] : k \in 1 .. active_jobs}
  <2>1. DOMAIN jobs' = 1 .. active_jobs
    BY DEF RunUnit
  <2> QED BY <2>1 DEF ToSet
<1>3. Missing(ToSet(jobs')) = Missing(ToSet(jobs))
  <2>1. {e.job_id : e \in ToSet(jobs')} = {e.job_id : e \in ToSet(jobs)}
    <3>1. \A e \in ToSet(jobs') : \E d \in ToSet(jobs) : d.job_id = e.job_id
      BY <1>1, <1>2
    <3>2. \A d \in ToSet(jobs) : \E e \in ToSet(jobs') : d.job_id = e.job_id
      BY <1>1, <1>2, TableFacts
    <3> QED BY <3>1, <3>2
  <2> QED BY <2>1 DEF Missing
<1>4. ASSUME NEW k \in 1 .. active_jobs, NEW f, f = jobs'[k]
      PROVE  Booked(f)'
  <2> DEFINE e == jobs[k]
             id == e.job_id
  <2>1. e \in Entry /\ e \in ToSet(jobs) /\ id \in Jobs /\ Booked(e)
    BY <1>1 DEF Entry, AccInv
  <2>2. /\ waited[id] \in Nat /\ idled[id] \in Nat /\ time \in Nat
        /\ file[id].run_time \in Nat /\ file[id].arrival_time \in Nat
        /\ e.run_time \in Nat /\ e.arrival_time \in Nat
    BY <2>1, Counted, TableFacts DEF AccInv, Entry
  <2>3. e.core_id # -1 => e.arrived
    BY <2>1, TableFacts DEF Agrees
  <2>4. /\ Idle(id) <=> (e.arrived /\ e.core_id = -1)
        /\ waited'[id] = IF Idle(id) THEN waited[id] + 1 ELSE waited[id]
        /\ idled'[id] = IF Idle(id) /\ ~HasRun(id) THEN idled[id] + 1 ELSE idled[id]
        /\ time' = time + 1 /\ file' = file
    BY <2>1, IdleJobs
  <2>5. /\ f.job_id = id /\ f.arrival_time = e.arrival_time /\ f.arrived = e.arrived
        /\ f.run_time = IF e.core_id # -1 THEN e.run_time - 1 ELSE e.run_time
    BY <1>1, <1>4
  <2> HIDE DEF e, id
  <2>6. CASE e.arrived
    <3>1. waited[id] + (file[id].run_time - e.run_time) = time - e.arrival_time
          /\ e.arrival_time = file[id].arrival_time
      BY <2>1, <2>6 DEF Booked, id
    <3>2. PICK w \in Int, r \in Int, u \in Int, t \in Int, a \in Int :
            /\ w = waited[id] /\ r = file[id].run_time /\ u = e.run_time
            /\ t = time /\ a = e.arrival_time
      <4>1. /\ waited[id] \in Int /\ file[id].run_time \in Int /\ e.run_time \in Int
            /\ time \in Int /\ e.arrival_time \in Int
        BY <2>2
      <4> QED BY <4>1
    <3>3. (w + 1) + (r - u) = (t + 1) - a /\ w + (r - (u - 1)) = (t + 1) - a
      <4>1. w + (r - u) = t - a
        BY <3>1, <3>2
      <4> QED BY <4>1
    <3>4. waited'[id] + (file[id].run_time - f.run_time) = (time + 1) - e.arrival_time
      BY <2>4, <2>5, <2>6, <3>2, <3>3
    <3> QED BY <2>4, <2>5, <2>6, <3>1, <3>4 DEF Booked
  <2>7. CASE ~e.arrived
    BY <2>1, <2>3, <2>4, <2>5, <2>7 DEF Booked, id
  <2> QED BY <2>6, <2>7
<1>5. \A e \in ToSet(jobs') : Booked(e)'
  BY <1>2, <1>4
<1>6. (\A e \in ToSet(jobs) : Booked(e))'
  BY <1>5
<1> QED BY <1>3, <1>6

\* The record of a job still says whether it has run, and since when.
LEMMA UnitRecorded ==
  ASSUME SimIInv, AccInv, RunUnit, SimIInv'
  PROVE  Records(Waiting, g_running_jobs)' /\ Fresh'
<1>1. /\ g_job_queue' = g_job_queue /\ g_running_jobs' = g_running_jobs /\ time' = time + 1
      /\ g_scheme' = g_scheme /\ quantum' = quantum /\ file' = file
  BY IdleJobs DEF schedule
<1>2. Waiting' = Waiting
  BY <1>1 DEF Waiting
<1>3. ASSUME NEW j \in Job, Recorded(j), Past(j), NEW k \in 1 .. active_jobs,
             jobs[k].job_id = j.job_id
      PROVE  /\ j.start_time # time'
             /\ jobs[k].core_id = -1 /\ jobs[k].arrived /\ j.start_time # time => Recorded(j)'
             /\ jobs[k].core_id # -1 /\ j.start_time # -1 => Recorded(j)'
  <2> DEFINE e == jobs[k]
             id == j.job_id
  <2>1. e \in ToSet(jobs) /\ e \in Entry /\ id \in Jobs /\ Booked(e)
    BY TableFacts DEF AccInv, Job
  <2>2. /\ waited[id] \in Nat /\ idled[id] \in Nat /\ time \in Nat
        /\ file[id].run_time \in Nat /\ file[id].arrival_time \in Nat
        /\ e.run_time \in Nat
    BY <2>1, Counted, TableFacts DEF AccInv, Entry
  <2>3. j.start_time \in Int /\ j.arrival_time \in Nat
    <3>1. j.start_time \in Nat \cup {-1} /\ j.arrival_time \in Nat
      BY DEF Job
    <3> QED BY <3>1
  <2>4. j.arrival_time <= time /\ j.start_time <= time
    BY <1>3 DEF Past
  <2>5. j.start_time # time'
    BY <1>1, <2>2, <2>3, <2>4
  <2>6. /\ Idle(id) <=> (e.arrived /\ e.core_id = -1)
        /\ HasRun(id) <=> e.run_time < file[id].run_time
        /\ waited'[id] = IF Idle(id) THEN waited[id] + 1 ELSE waited[id]
        /\ idled'[id] = IF Idle(id) /\ ~HasRun(id) THEN idled[id] + 1 ELSE idled[id]
    BY <1>3, <2>1, IdleJobs
  <2>7. /\ j.arrival_time = file[id].arrival_time /\ j.running_time = file[id].run_time
        /\ waited[id] <= time - j.arrival_time
        /\ waited[id] < time - j.arrival_time <=> j.start_time \notin {-1, time}
        /\ idled[id] = (IF j.start_time = -1 THEN time ELSE j.start_time) - j.arrival_time
    BY <1>3 DEF Recorded
  <2>8. e.job_id = id
    BY <1>3
  <2> HIDE DEF e, id
  <2>9. ASSUME e.core_id = -1, e.arrived, j.start_time # time
        PROVE  Recorded(j)'
    <3>1. waited[id] + (file[id].run_time - e.run_time) = time - j.arrival_time
      BY <2>1, <2>7, <2>8, <2>9 DEF Booked
    <3>2. HasRun(id) <=> j.start_time # -1
      <4>1. e.run_time < file[id].run_time <=> waited[id] < time - j.arrival_time
        BY <2>2, <2>3, <3>1
      <4> QED BY <2>6, <2>7, <2>9, <4>1
    <3>3. /\ waited'[id] = waited[id] + 1
          /\ idled'[id] = IF j.start_time = -1 THEN idled[id] + 1 ELSE idled[id]
      BY <2>6, <2>9, <3>2
    <3>4. waited[id] + 1 <= (time + 1) - j.arrival_time
      BY <2>2, <2>3, <2>7
    <3>5. waited[id] + 1 < (time + 1) - j.arrival_time <=> j.start_time \notin {-1, time + 1}
      <4>1. waited[id] + 1 < (time + 1) - j.arrival_time <=> waited[id] < time - j.arrival_time
        BY <2>2, <2>3
      <4>2. j.start_time \notin {-1, time} <=> j.start_time \notin {-1, time + 1}
        BY <1>1, <2>5, <2>9
      <4> QED BY <2>7, <4>1, <4>2
    <3>6. idled'[id] = (IF j.start_time = -1 THEN time + 1 ELSE j.start_time) - j.arrival_time
      <4>1. CASE j.start_time = -1
        BY <2>2, <2>3, <2>7, <3>3, <4>1
      <4>2. CASE j.start_time # -1
        BY <2>7, <3>3, <4>2
      <4> QED BY <4>1, <4>2
    <3> QED BY <1>1, <2>7, <3>3, <3>4, <3>5, <3>6 DEF Recorded, id
  <2>10. ASSUME e.core_id # -1, j.start_time # -1
         PROVE  Recorded(j)'
    <3>1. waited'[id] = waited[id] /\ idled'[id] = idled[id]
      BY <2>6, <2>10
    <3>2. waited[id] <= (time + 1) - j.arrival_time /\ waited[id] < (time + 1) - j.arrival_time
      BY <2>2, <2>3, <2>7
    <3>3. j.start_time \notin {-1, time + 1}
      BY <1>1, <2>5, <2>10
    <3>4. idled[id] = (IF j.start_time = -1 THEN time + 1 ELSE j.start_time) - j.arrival_time
      BY <2>7, <2>10
    <3> QED BY <1>1, <2>7, <3>1, <3>2, <3>3, <3>4 DEF Recorded, id
  <2> QED BY <2>5, <2>9, <2>10 DEF e
<1>4. ASSUME NEW w \in Waiting
      PROVE  Recorded(w)' /\ w.start_time # time'
  <2>1. w \in Job /\ Recorded(w) /\ w.start_time # time
    BY TableFacts DEF AccInv, Records, Agrees
  <2>2. Past(w)
    BY DEF SimIInv, SchedIInv, Sound, Timed, Waiting
  <2>3. \E e \in ToSet(jobs) : e.job_id = w.job_id /\ e.core_id = -1 /\ e.arrived
    BY TableFacts DEF Agrees
  <2>4. PICK k \in 1 .. active_jobs :
          jobs[k].job_id = w.job_id /\ jobs[k].core_id = -1 /\ jobs[k].arrived
    BY <2>3, TableFacts
  <2> QED BY <1>3, <2>1, <2>2, <2>4
<1>5. ASSUME NEW c \in Cores, g_running_jobs[c] # NULL
      PROVE  /\ Recorded(g_running_jobs[c])' /\ g_running_jobs[c].start_time # -1
             /\ g_running_jobs[c].start_time # time'
  <2> DEFINE j == g_running_jobs[c]
  <2>1. j \in Job /\ Recorded(j) /\ j.start_time # -1
    BY <1>5, TableFacts DEF AccInv, Records, Agrees
  <2>2. Past(j)
    BY <1>5 DEF SimIInv, SchedIInv, Sound, Timed
  <2>3. \E e \in ToSet(jobs) : e.job_id = j.job_id /\ e.core_id = c
    BY <1>5, TableFacts DEF Agrees
  <2>4. PICK k \in 1 .. active_jobs : jobs[k].job_id = j.job_id /\ jobs[k].core_id = c
    BY <2>3, TableFacts
  <2>5. c # -1
    BY CoresAssumption DEF Cores
  <2>6. Recorded(j)' <=> Recorded(g_running_jobs[c])'
    BY <1>1
  <2>7. ASSUME NEW x, x = j
        PROVE  Recorded(x)' /\ x.start_time # time'
    BY <1>3, <2>1, <2>2, <2>4, <2>5, <2>7
  <2> QED BY <1>1, <2>1, <2>7 DEF Recorded
<1>6. Records(Waiting, g_running_jobs)'
  BY <1>1, <1>2, <1>4, <1>5 DEF Records, Recorded
<1>7. Fresh'
  <2>1. Fresh
    BY DEF AccInv
  <2> QED BY <1>1, <1>5, <2>1 DEF Fresh
<1> QED BY <1>6, <1>7

LEMMA UnitAccounts ==
  ASSUME SimIInv, AccInv, RunUnit, SimIInv'
  PROVE  AccInv'
<1>1. Records(Waiting, g_running_jobs)' /\ Fresh'
  BY UnitRecorded
<1>2. /\ Missing(ToSet(jobs')) = Missing(ToSet(jobs))
      /\ (\A e \in ToSet(jobs) : Booked(e))'
  BY UnitBooked
<1> DEFINE M == Missing(ToSet(jobs))
           turn == [id \in Jobs |-> waited[id] + file[id].run_time]
           turn1 == [id \in Jobs |-> waited'[id] + file[id].run_time]
<1>3. /\ \A id \in M : waited'[id] = waited[id] /\ idled'[id] = idled[id]
      /\ M \in SUBSET Jobs /\ file' = file /\ total' = total /\ time' = time + 1 /\ Histories'
      /\ g_scheme' = g_scheme
  BY IdleJobs DEF Missing, schedule
<1>4. /\ waited \in [Jobs -> Int] /\ waited' \in [Jobs -> Int]
      /\ idled \in [Jobs -> Int] /\ idled' \in [Jobs -> Int]
      /\ turn \in [Jobs -> Int] /\ turn1 \in [Jobs -> Int]
  <2>1. Histories /\ Histories' /\ Clock
    BY <1>3, TableFacts DEF AccInv
  <2>2. \A id \in Jobs : waited[id] \in Nat /\ waited'[id] \in Nat /\ file[id].run_time \in Nat
    BY <2>1, Counted DEF Histories
  <2> QED BY <2>1, <2>2 DEF Histories
<1>5. \A id \in M : turn1[id] = turn[id]
  BY <1>3
<1> HIDE DEF M, turn, turn1
<1>6. /\ Sum(waited', M) = Sum(waited, M) /\ Sum(idled', M) = Sum(idled, M)
      /\ Sum(turn1, M) = Sum(turn, M)
  BY <1>3, <1>4, <1>5, SumFacts
<1>7. Totals(ToSet(jobs))
  BY DEF AccInv
<1>8. Totals(ToSet(jobs))'
  <2>1. Missing(ToSet(jobs))' = M /\ Jobs' = Jobs
    BY <1>2 DEF Missing, M
  <2>2. [id \in Jobs |-> waited[id] + file[id].run_time]' = turn1
    BY <1>3 DEF turn1
  <2>3. /\ total'.jobs = Cardinality(M) /\ total'.waiting = Sum(waited', M)
        /\ total'.response = Sum(idled', M) /\ total'.turnaround = Sum(turn1, M)
    BY <1>3, <1>6, <1>7 DEF Totals, M, turn
  <2> QED BY <2>1, <2>2, <2>3 DEF Totals
<1> QED BY <1>1, <1>2, <1>3, <1>8 DEF AccInv

LEMMA AccStart ==
  ASSUME Init
  PROVE  AccInv
<1>1. /\ file \in [Jobs -> Lines] /\ time = 0
      /\ waited = [id \in Jobs |-> 0] /\ idled = [id \in Jobs |-> 0]
      /\ quantum \in IF g_scheme = "RR" THEN Quanta ELSE {0}
      /\ jobs = [k \in 1 .. NumJobs |->
                   [job_id |-> k - 1, arrival_time |-> file[k - 1].arrival_time,
                    run_time |-> file[k - 1].run_time, priority |-> file[k - 1].priority,
                    core_id |-> -1, arrived |-> FALSE]]
      /\ g_job_queue = <<>> /\ g_running_jobs = [c \in Cores |-> NULL]
      /\ total = [jobs |-> 0, waiting |-> 0, turnaround |-> 0, response |-> 0]
  BY DEF Init, SchedInit
<1>2. Histories
  <2>1. file \in [Jobs -> [arrival_time : Nat, run_time : RunTimes, priority : Priorities]]
    BY <1>1, InputAssumption
  <2> QED BY <1>1, <2>1 DEF Histories
<1>3. Records(Waiting, g_running_jobs)
  BY <1>1 DEF Records, Waiting
<1>4. DOMAIN jobs = 1 .. NumJobs /\ ToSet(jobs) = {jobs[k] : k \in 1 .. NumJobs}
  BY <1>1 DEF ToSet
<1>5. \A k \in 1 .. NumJobs :
        /\ k - 1 \in Jobs
        /\ jobs[k].job_id = k - 1 /\ jobs[k].arrived = FALSE
        /\ jobs[k].arrival_time = file[k - 1].arrival_time
        /\ jobs[k].run_time = file[k - 1].run_time
  BY <1>1, InputAssumption
<1>6. \A e \in ToSet(jobs) : Booked(e)
  <2>1. ASSUME NEW e, NEW k \in 1 .. NumJobs, e = jobs[k]
        PROVE  Booked(e)
    <3>1. /\ e.job_id \in Jobs /\ e.arrived = FALSE
          /\ e.arrival_time = file[e.job_id].arrival_time
          /\ e.run_time = file[e.job_id].run_time
      BY <1>5, <2>1
    <3>2. waited[e.job_id] = 0 /\ idled[e.job_id] = 0
      BY <1>1, <3>1
    <3> QED BY <3>1, <3>2 DEF Booked
  <2> QED BY <1>4, <2>1
<1>7. Fresh
  <2>1. \A n \in Quanta : n > 0
    BY InputAssumption
  <2> QED BY <1>1, <2>1 DEF Fresh
<1>8. Missing(ToSet(jobs)) = {}
  <2>1. ASSUME NEW id \in Jobs
        PROVE  \E e \in ToSet(jobs) : e.job_id = id
    <3>1. id + 1 \in 1 .. NumJobs /\ (id + 1) - 1 = id
      BY InputAssumption
    <3>2. jobs[id + 1] \in ToSet(jobs) /\ jobs[id + 1].job_id = id
      BY <1>4, <1>5, <3>1
    <3> QED BY <3>2
  <2> QED BY <2>1 DEF Missing
<1>9. Totals(ToSet(jobs))
  <2> DEFINE turn == [id \in Jobs |-> waited[id] + file[id].run_time]
  <2>1. waited \in [Jobs -> Int] /\ idled \in [Jobs -> Int] /\ turn \in [Jobs -> Int]
    <3>1. Clock
      BY <1>1 DEF Clock, Init, SchedInit
    <3>2. ASSUME NEW id \in Jobs
          PROVE  waited[id] + file[id].run_time \in Int
      <4>1. waited[id] \in Nat /\ file[id].run_time \in Nat
        BY <1>2, <3>1, Counted
      <4> QED BY <4>1
    <3> QED BY <1>2, <3>2 DEF Histories
  <2> HIDE DEF turn
  <2>2. Sum(waited, {}) = 0 /\ Sum(idled, {}) = 0 /\ Sum(turn, {}) = 0
    <3>1. {} \in SUBSET Jobs
      OBVIOUS
    <3> QED BY <2>1, <3>1, SumFacts
  <2> QED BY <1>1, <1>8, <2>2, FS_EmptySet DEF Totals, turn
<1> QED BY <1>2, <1>3, <1>6, <1>7, <1>9 DEF AccInv

LEMMA AccStep ==
  ASSUME SimIInv, AccInv, [Next]_vars, SimIInv'
  PROVE  AccInv'
<1>1. CASE FinishDone \/ QuantaDone \/ ArrivalsDone
  BY <1>1, LoopsDoneAccounts DEF FinishDone, QuantaDone, ArrivalsDone
<1>2. CASE UNCHANGED vars
  BY <1>2, LoopsDoneAccounts DEF vars
<1> QED BY <1>1, <1>2, FinishAccounts, QuantumAccounts, ArrivalAccounts, UnitAccounts
        DEF Next, Step, Terminated

LEMMA AccInductive == Spec => [](SimIInv /\ AccInv)
<1>1. Init => SimIInv /\ AccInv
  BY SimStart, AccStart
<1>2. SimIInv /\ AccInv /\ [Next]_vars => SimIInv' /\ AccInv'
  BY SimStep, AccStep
<1> QED BY <1>1, <1>2, PTL DEF Spec

\* The totals the scheduler computes its averages from, out of what it noted in each
\* job and took back when the job lost a core it had not run on, are the sums of the
\* time units in which the finished jobs did wait, and did wait before they first ran.
THEOREM AccountsRight == Spec => []Accounting
<1>1. SimIInv /\ AccInv => Accounting
  <2> SUFFICES ASSUME SimIInv, AccInv PROVE Accounting
    OBVIOUS
  <2> DEFINE M == Missing(ToSet(jobs))
             turn == [id \in Jobs |-> waited[id] + file[id].run_time]
  <2>1. FinishedJobs = M /\ M \in SUBSET Jobs
    BY TableFacts DEF FinishedJobs, Missing
  <2>2. turn \in [Jobs -> Int]
    <3>1. ASSUME NEW id \in Jobs
          PROVE  waited[id] + file[id].run_time \in Int
      <4>1. waited[id] \in Nat /\ file[id].run_time \in Nat
        BY Counted, TableFacts DEF AccInv
      <4> QED BY <4>1
    <3> QED BY <3>1
  <2>3. \A id \in M : turn[id] = waited[id] + file[id].run_time
    BY <2>1
  <2>4. /\ total.jobs = Cardinality(M) /\ total.waiting = Sum(waited, M)
        /\ total.response = Sum(idled, M) /\ total.turnaround = Sum(turn, M)
    BY DEF AccInv, Totals
  <2> HIDE DEF M, turn
  <2>5. Turnaround(M) = Sum(turn, M)
    BY <2>1, <2>2, <2>3, TurnaroundIs
  <2> QED BY <2>1, <2>4, <2>5 DEF Accounting, Sum, Turnaround
<1> QED BY <1>1, AccInductive, PTL

-----------------------------------------------------------------------------
(***************************************************************************)
(* The priority queue library, whose offer Scheduler takes for one Insert  *)
(* of a sequence: its ring array implements that sequence, for any         *)
(* elements, any comparison function and any size of the first array.      *)
(***************************************************************************)
CONSTANTS Elements, comparer(_, _), INITIAL_SIZE, Garbage, MaxCount, MaxStart

VARIABLES ring, returned

Q == INSTANCE PriQueue WITH compare <- comparer, q <- ring, ret <- returned

\* The rings whose array has n slots.
RingsOf(n) == [data : [0 .. n - 1 -> Elements \cup {Garbage}], size : {n},
               count : 0 .. n, start : Nat]

IsRing(r) == r.size \in Nat \ {0} /\ r \in RingsOf(r.size)

\* What the slot of index n holds.
Slot(r, n) == r.data[Q!true_index(r, n)]

\* r's elements are s.
Keeps(r, s) == /\ IsRing(r)
               /\ s \in Seq(Elements) /\ Len(s) = r.count
               /\ \A n \in 0 .. r.count - 1 : Slot(r, n) = s[n + 1]

\* What starts at 0 and passes on to the next number reaches all of 0 .. n.
LEMMA Upwards ==
  ASSUME NEW n \in Nat, NEW T, 0 \in T, \A m \in 0 .. n - 1 : m \in T => m + 1 \in T
  PROVE  \A m \in 0 .. n : m \in T
<1> DEFINE F == {m \in 0 .. n : m \notin T}
<1> SUFFICES ASSUME F # {} PROVE FALSE
  OBVIOUS
<1>1. PICK m \in F : \A l \in F : m <= l
  <2>1. F \subseteq Nat
    OBVIOUS
  <2> HIDE DEF F
  <2> QED BY <2>1, LeastNumber
<1>2. m \in 1 .. n /\ m - 1 \in 0 .. n - 1 /\ m - 1 \notin F /\ m \notin T
  BY <1>1
<1>3. m - 1 \in T
  BY <1>2
<1> QED BY <1>2, <1>3

\* What a loop of n rounds, round m of which is step[m], goes through.
IsCourse(f, n, A, first, step) == /\ f \in [0 .. n -> A] /\ f[0] = first
                                  /\ \A m \in 1 .. n : f[m] = step[m][f[m - 1]]

LEMMA Course ==
  ASSUME NEW n \in Nat, NEW A, NEW first \in A, NEW step \in [1 .. n -> [A -> A]]
  PROVE  \E f : IsCourse(f, n, A, first, step)
<1> DEFINE Goes(f, l) == IsCourse(f, l, A, first, step)
           T == {l \in 0 .. n : \E f : Goes(f, l)}
<1>1. 0 \in T
  <2>1. Goes([m \in 0 .. 0 |-> first], 0)
    BY DEF IsCourse
  <2> HIDE DEF Goes
  <2> QED BY <2>1
<1>2. ASSUME NEW l \in 0 .. n - 1, l \in T
      PROVE  l + 1 \in T
  <2>1. PICK f : Goes(f, l)
    BY <1>2
  <2> DEFINE g == [m \in 0 .. l + 1 |-> IF m \in 0 .. l THEN f[m] ELSE step[l + 1][f[l]]]
  <2>2. f[l] \in A /\ step[l + 1][f[l]] \in A
    BY <2>1 DEF IsCourse
  <2>3. g \in [0 .. l + 1 -> A] /\ g[0] = first
    BY <2>1, <2>2 DEF IsCourse
  <2>4. ASSUME NEW m \in 1 .. l + 1
        PROVE  g[m] = step[m][g[m - 1]]
    <3>1. CASE m \in 1 .. l
      BY <2>1, <3>1 DEF IsCourse
    <3>2. CASE m = l + 1
      BY <3>2
    <3> QED BY <3>1, <3>2
  <2>5. Goes(g, l + 1)
    <3> HIDE DEF g
    <3> QED BY <2>3, <2>4 DEF IsCourse
  <2> HIDE DEF Goes
  <2> QED BY <2>5
<1> HIDE DEF T
<1>3. \A m \in 0 .. n : m \in T
  BY <1>1, <1>2, Upwards
<1> QED BY <1>3 DEF T

LEMMA Below ==
  ASSUME NEW c \in Nat \ {0}, NEW x \in 0 .. c - 1
  PROVE  x % c = x
OBVIOUS

LEMMA Quotient ==
  ASSUME NEW c \in Nat \ {0}, NEW x \in Nat
  PROVE  \E d \in Int : x = c * d + (x % c)
<1>1. x \div c \in Int /\ x = c * (x \div c) + (x % c)
  OBVIOUS
<1> QED BY <1>1

\* No two different numbers below c are c apart.
LEMMA NoMultiple ==
  ASSUME NEW c \in Nat \ {0}, NEW d \in Int, NEW e \in 1 .. c - 1, e = c * d
  PROVE  FALSE
<1>1. CASE d <= 0
  <2>1. c * d <= 0
    BY <1>1
  <2> QED BY <2>1
<1>2. CASE d >= 1
  <2>1. c * d >= c
    BY <1>2
  <2> QED BY <2>1
<1> QED BY <1>1, <1>2

\* Different indexes have different slots, however far start has gone.
LEMMA Slots ==
  ASSUME NEW r, IsRing(r)
  PROVE  /\ \A n \in 0 .. r.size - 1 : Q!true_index(r, n) \in 0 .. r.size - 1
         /\ \A m, n \in 0 .. r.size - 1 : m # n => Q!true_index(r, m) # Q!true_index(r, n)
<1>1. r.size \in Nat \ {0} /\ r.start \in Nat
  BY DEF IsRing, RingsOf
<1>2. ASSUME NEW n \in Nat
      PROVE  Q!true_index(r, n) \in 0 .. r.size - 1
  BY <1>1 DEF Q!true_index
<1>3. ASSUME NEW m \in 0 .. r.size - 1, NEW n \in 0 .. r.size - 1, m < n,
             Q!true_index(r, m) = Q!true_index(r, n)
      PROVE  FALSE
  <2> DEFINE c == r.size
             x == m + r.start
             y == n + r.start
  <2>1. c \in Nat \ {0} /\ x \in Nat /\ y \in Nat /\ y - x \in 1 .. c - 1
    BY <1>1, <1>3
  <2>2. x % c = y % c /\ x % c \in Int
    BY <1>1, <1>3 DEF Q!true_index
  <2> HIDE DEF x, y, c
  <2>3. PICK d \in Int : x = c * d + (x % c)
    BY <2>1, Quotient
  <2>4. PICK e \in Int : y = c * e + (y % c)
    BY <2>1, Quotient
  <2>5. y - x = c * (e - d)
    BY <2>1, <2>2, <2>3, <2>4
  <2>6. e - d \in Int
    OBVIOUS
  <2> QED BY <2>1, <2>5, <2>6, NoMultiple
<1> QED BY <1>1, <1>2, <1>3

LEMMA RingFields ==
  ASSUME NEW r, IsRing(r)
  PROVE  /\ r.size \in Nat \ {0} /\ r.count \in 0 .. r.size /\ r.start \in Nat
         /\ r.data \in [0 .. r.size - 1 -> Elements \cup {Garbage}]
BY DEF IsRing, RingsOf

\* r with c elements, in the slots of d.
With(r, d, c) == [r EXCEPT !.data = d, !.count = c]

LEMMA OtherData ==
  ASSUME NEW r, IsRing(r), NEW d \in [0 .. r.size - 1 -> Elements \cup {Garbage}],
         NEW c \in 0 .. r.size, NEW s, s = With(r, d, c)
  PROVE  /\ IsRing(s) /\ s.data = d /\ s.count = c
         /\ s.size = r.size /\ s.start = r.start
         /\ \A n : Q!true_index(s, n) = Q!true_index(r, n)
<1>1. r \in RingsOf(r.size) /\ r.size \in Nat \ {0}
  BY DEF IsRing
<1>2. s.data = d /\ s.count = c /\ s.size = r.size /\ s.start = r.start /\ s \in RingsOf(r.size)
  BY <1>1 DEF RingsOf, With
<1> QED BY <1>1, <1>2 DEF IsRing, Q!true_index

LEMMA SwapSlots ==
  ASSUME NEW r, IsRing(r), NEW a \in 0 .. r.size - 1, NEW b \in 0 .. r.size - 1
  PROVE  LET s == Q!swap(r, a, b)
         IN  /\ IsRing(s) /\ s.size = r.size /\ s.count = r.count /\ s.start = r.start
             /\ \A n \in 0 .. r.size - 1 :
                  Slot(s, n) = IF n = a THEN Slot(r, b) ELSE IF n = b THEN Slot(r, a)
                               ELSE Slot(r, n)
<1> DEFINE x == Q!true_index(r, a)
           y == Q!true_index(r, b)
           d == [r.data EXCEPT ![x] = r.data[y], ![y] = r.data[x]]
           s == Q!swap(r, a, b)
<1>1. x \in 0 .. r.size - 1 /\ y \in 0 .. r.size - 1
  BY Slots
<1>2. /\ r.size \in Nat \ {0} /\ r.count \in 0 .. r.size
      /\ r.data \in [0 .. r.size - 1 -> Elements \cup {Garbage}]
  BY RingFields
<1>3. s = With(r, d, r.count)
  <2>1. r \in RingsOf(r.size)
    BY DEF IsRing
  <2> QED BY <2>1 DEF Q!swap, RingsOf, With
<1>4. d \in [0 .. r.size - 1 -> Elements \cup {Garbage}]
  BY <1>1, <1>2
<1> HIDE DEF s, d
<1>5. /\ IsRing(s) /\ s.data = d /\ s.count = r.count /\ s.size = r.size /\ s.start = r.start
      /\ \A n : Q!true_index(s, n) = Q!true_index(r, n)
  BY <1>2, <1>3, <1>4, OtherData
<1>6. ASSUME NEW n \in 0 .. r.size - 1
      PROVE  Slot(s, n) = IF n = a THEN Slot(r, b) ELSE IF n = b THEN Slot(r, a) ELSE Slot(r, n)
  <2> DEFINE z == Q!true_index(r, n)
  <2>1. z \in 0 .. r.size - 1 /\ Slot(s, n) = d[z] /\ Slot(r, n) = r.data[z]
        /\ Slot(r, a) = r.data[x] /\ Slot(r, b) = r.data[y]
    BY <1>5, Slots DEF Slot
  <2>2. (n = a <=> z = x) /\ (n = b <=> z = y)
    BY Slots
  <2> HIDE DEF x, y, z
  <2>3. d[z] = IF z = y THEN r.data[x] ELSE IF z = x THEN r.data[y] ELSE r.data[z]
    BY <1>1, <1>2, <2>1 DEF d
  <2> QED BY <2>1, <2>2, <2>3
<1> QED BY <1>5, <1>6 DEF s

\* The rings that differ from r only in what is in their slots.
Like(r) == {t \in RingsOf(r.size) : t.count = r.count /\ t.start = r.start}

LEMMA SwapLike ==
  ASSUME NEW r, IsRing(r), NEW t \in Like(r),
         NEW a \in 0 .. r.size - 1, NEW b \in 0 .. r.size - 1
  PROVE  /\ Q!swap(t, a, b) \in Like(r)
         /\ \A n \in 0 .. r.size - 1 :
              Slot(Q!swap(t, a, b), n) = IF n = a THEN Slot(t, b) ELSE IF n = b THEN Slot(t, a)
                                         ELSE Slot(t, n)
<1> DEFINE u == Q!swap(t, a, b)
<1>1. IsRing(t) /\ t.size = r.size /\ t.count = r.count /\ t.start = r.start
  BY DEF Like, IsRing, RingsOf
<1>2. /\ IsRing(u) /\ u.size = t.size /\ u.count = t.count /\ u.start = t.start
      /\ \A n \in 0 .. t.size - 1 :
           Slot(u, n) = IF n = a THEN Slot(t, b) ELSE IF n = b THEN Slot(t, a) ELSE Slot(t, n)
  BY <1>1, SwapSlots
<1> HIDE DEF u
<1>3. u \in Like(r)
  BY <1>1, <1>2 DEF Like, IsRing
<1> QED BY <1>1, <1>2, <1>3 DEF u

\* The element goes behind the last one and is swapped down to its index.
LEMMA OfferedInto ==
  ASSUME NEW r, NEW s, Keeps(r, s), r.count < r.size, NEW ptr \in Elements,
         NEW index \in 0 .. r.count
  PROVE  Keeps(Q!OfferInto(r, ptr, index), Q!Abstract!Put(s, ptr, index + 1))
<1>1. /\ IsRing(r) /\ s \in Seq(Elements) /\ Len(s) = r.count
      /\ r.size \in Nat \ {0} /\ r.count \in 0 .. r.size - 1 /\ r.start \in Nat
      /\ r.data \in [0 .. r.size - 1 -> Elements \cup {Garbage}]
      /\ \A n \in 0 .. r.count - 1 : Slot(r, n) = s[n + 1]
  BY RingFields DEF Keeps
<1> DEFINE c == r.count
           x == Q!true_index(r, c)
           d == [r.data EXCEPT ![x] = ptr]
           last == [r EXCEPT !.data[x] = ptr]
           A == Like(r)
           Eqn(f) == f = [n \in index .. c |-> IF n = c THEN last
                                              ELSE Q!swap(f[n + 1], n + 1, n)]
           down == CHOOSE f : Eqn(f)
           o == Q!OfferInto(r, ptr, index)
           p == Q!Abstract!Put(s, ptr, index + 1)
<1>2. x \in 0 .. r.size - 1
  BY <1>1, Slots
<1>3. /\ IsRing(last) /\ last.data = d /\ last.count = c
      /\ last.size = r.size /\ last.start = r.start
      /\ \A n : Q!true_index(last, n) = Q!true_index(r, n)
  <2>1. d \in [0 .. r.size - 1 -> Elements \cup {Garbage}] /\ c \in 0 .. r.size
    BY <1>1, <1>2
  <2>2. last = With(r, d, c)
    <3>1. r \in RingsOf(r.size)
      BY <1>1 DEF IsRing
    <3> QED BY <3>1 DEF RingsOf, With
  <2> HIDE DEF d, last
  <2> QED BY <1>1, <2>1, <2>2, OtherData
<1>4. \A n \in 0 .. c : Slot(last, n) = IF n = c THEN ptr ELSE s[n + 1]
  <2> HIDE DEF last
  <2> SUFFICES ASSUME NEW n \in 0 .. c
               PROVE  Slot(last, n) = IF n = c THEN ptr ELSE s[n + 1]
    OBVIOUS
  <2>1. Slot(last, n) = d[Q!true_index(r, n)] /\ Q!true_index(r, n) \in 0 .. r.size - 1
    BY <1>1, <1>3, Slots DEF Slot
  <2>2. CASE n = c
    BY <1>1, <1>2, <2>1, <2>2
  <2>3. CASE n # c
    <3>1. Q!true_index(r, n) # x
      BY <1>1, <2>3, Slots
    <3>2. Slot(r, n) = s[n + 1]
      BY <1>1, <2>3
    <3> QED BY <1>1, <2>1, <2>3, <3>1, <3>2 DEF Slot
  <2> QED BY <2>2, <2>3
<1> HIDE DEF last, d, x
<1>5. ASSUME NEW t \in A, NEW m \in 0 .. c - 1
      PROVE  /\ Q!swap(t, m + 1, m) \in A
             /\ \A k \in 0 .. c : Slot(Q!swap(t, m + 1, m), k) =
                  IF k = m + 1 THEN Slot(t, m) ELSE IF k = m THEN Slot(t, m + 1) ELSE Slot(t, k)
  <2>1. /\ m \in 0 .. r.size - 1 /\ m + 1 \in 0 .. r.size - 1
        /\ 0 .. c \subseteq 0 .. r.size - 1
    BY <1>1
  <2> DEFINE l == m + 1
             u == Q!swap(t, l, m)
  <2>2. /\ u \in Like(r)
        /\ \A k \in 0 .. r.size - 1 : Slot(u, k) =
             IF k = l THEN Slot(t, m) ELSE IF k = m THEN Slot(t, l) ELSE Slot(t, k)
    <3>1. m \in 0 .. r.size - 1 /\ l \in 0 .. r.size - 1 /\ t \in Like(r) /\ IsRing(r)
      BY <1>1, <2>1
    <3> HIDE DEF l
    <3> QED BY <3>1, SwapLike
  <2> HIDE DEF u
  <2>3. u \in A /\ \A k \in 0 .. c : Slot(u, k) =
          IF k = l THEN Slot(t, m) ELSE IF k = m THEN Slot(t, l) ELSE Slot(t, k)
    BY <2>1, <2>2
  <2> QED BY <2>3 DEF u
<1>6. last \in A
  BY <1>3 DEF IsRing, Like
<1>7. \E f : Eqn(f)
  <2> DEFINE l == c - index
             step == [m \in 1 .. l |-> [t \in A |-> Q!swap(t, c - m + 1, c - m)]]
  <2>1. l \in Nat
    BY <1>1
  <2>2. ASSUME NEW m \in 1 .. l, NEW t \in A
        PROVE  Q!swap(t, c - m + 1, c - m) \in A
    <3>1. c - m \in 0 .. c - 1
      BY <1>1
    <3> QED BY <1>5, <3>1
  <2> HIDE DEF A
  <2>3. step \in [1 .. l -> [A -> A]]
    BY <2>2
  <2> HIDE DEF step, l
  <2>4. PICK g : IsCourse(g, l, A, last, step)
    BY <1>6, <2>1, <2>3, Course
  <2> DEFINE f == [n \in index .. c |-> g[c - n]]
  <2>5. ASSUME NEW n \in index .. c, n # c
        PROVE  f[n] = Q!swap(f[n + 1], n + 1, n)
    <3>1. /\ c - n \in 1 .. l /\ c - (c - n) = n /\ c - n - 1 = c - (n + 1)
          /\ c - n - 1 \in 0 .. l /\ n + 1 \in index .. c
      BY <1>1, <2>5 DEF l
    <3>2. g[c - n] = step[c - n][g[c - n - 1]] /\ g[c - n - 1] \in A
      BY <2>4, <3>1 DEF IsCourse
    <3>3. g[c - n] = Q!swap(g[c - n - 1], c - (c - n) + 1, c - (c - n))
      BY <3>1, <3>2 DEF step
    <3> QED BY <3>1, <3>3
  <2>6. f[c] = last
    <3>1. c \in index .. c /\ c - c = 0
      BY <1>1
    <3> QED BY <2>4, <3>1 DEF IsCourse
  <2>7. f = [n \in index .. c |-> f[n]]
    OBVIOUS
  <2> HIDE DEF f
  <2>8. Eqn(f)
    BY <2>5, <2>6, <2>7
  <2> QED BY <2>8
<1>8. Eqn(down)
  <2> HIDE DEF Eqn
  <2> QED BY <1>7
<1>9. o = [down[index] EXCEPT !.count = @ + 1]
  BY DEF Q!OfferInto, last, x
<1> HIDE DEF down, o
<1> DEFINE T == {m \in 0 .. c - index :
                   /\ down[c - m] \in A
                   /\ \A k \in 0 .. c : Slot(down[c - m], k) =
                        IF k = c - m THEN ptr ELSE IF k < c - m THEN s[k + 1] ELSE s[k]}
<1>10. 0 \in T
  <2>1. down[c - 0] = last /\ c - 0 = c /\ 0 \in 0 .. c - index
    <3>1. c \in index .. c /\ c - 0 = c /\ 0 \in 0 .. c - index
      BY <1>1
    <3> QED BY <1>8, <3>1
  <2> HIDE DEF A
  <2>2. \A k \in 0 .. c : Slot(down[c - 0], k) =
          IF k = c - 0 THEN ptr ELSE IF k < c - 0 THEN s[k + 1] ELSE s[k]
    BY <1>1, <1>4, <2>1
  <2> QED BY <1>6, <2>1, <2>2
<1>11. ASSUME NEW m \in 0 .. c - index - 1, m \in T
       PROVE  m + 1 \in T
  <2> DEFINE n == c - (m + 1)
  <2>1. /\ n \in 0 .. c - 1 /\ n \in index .. c /\ n # c /\ n + 1 = c - m
        /\ m + 1 \in 0 .. c - index
    <3>1. c \in Nat /\ index \in 0 .. c /\ m \in 0 .. c - index - 1
      BY <1>1
    <3> HIDE DEF c, T
    <3> QED BY <3>1
  <2> HIDE DEF n
  <2>2. down[n] = Q!swap(down[n + 1], n + 1, n)
    BY <1>8, <2>1
  <2>3. /\ down[n + 1] \in A
        /\ \A k \in 0 .. c : Slot(down[n + 1], k) =
             IF k = n + 1 THEN ptr ELSE IF k < n + 1 THEN s[k + 1] ELSE s[k]
    BY <1>11, <2>1
  <2> HIDE DEF A, Eqn
  <2>4. /\ down[n] \in A
        /\ \A k \in 0 .. c : Slot(down[n], k) =
             IF k = n + 1 THEN Slot(down[n + 1], n)
             ELSE IF k = n THEN Slot(down[n + 1], n + 1) ELSE Slot(down[n + 1], k)
    BY <1>5, <2>1, <2>2, <2>3
  <2>5. ASSUME NEW k \in 0 .. c
        PROVE  Slot(down[n], k) = IF k = n THEN ptr ELSE IF k < n THEN s[k + 1] ELSE s[k]
    <3>1. n \in 0 .. c /\ n + 1 \in 0 .. c /\ n \in Int /\ k \in Int
      BY <1>1, <2>1
    <3>2. CASE k = n + 1
      <4>1. Slot(down[n], k) = Slot(down[n + 1], n) /\ Slot(down[n + 1], n) = s[n + 1]
        BY <2>3, <2>4, <3>1, <3>2
      <4> QED BY <3>1, <3>2, <4>1
    <3>3. CASE k = n
      <4>1. Slot(down[n], k) = Slot(down[n + 1], n + 1)
        BY <2>4, <3>1, <3>3
      <4>2. Slot(down[n + 1], n + 1) = ptr
        BY <2>3, <3>1
      <4> QED BY <3>3, <4>1, <4>2
    <3>4. CASE k # n /\ k # n + 1
      <4>1. Slot(down[n], k) = Slot(down[n + 1], k)
        BY <2>4, <3>4
      <4>2. Slot(down[n + 1], k) = IF k < n + 1 THEN s[k + 1] ELSE s[k]
        BY <2>3, <3>4
      <4> QED BY <3>1, <3>4, <4>1, <4>2
    <3> QED BY <3>2, <3>3, <3>4
  <2> QED BY <2>1, <2>4, <2>5 DEF n
<1>12. /\ down[index] \in A
       /\ \A k \in 0 .. c : Slot(down[index], k) =
            IF k = index THEN ptr ELSE IF k < index THEN s[k + 1] ELSE s[k]
  <2>1. c - index \in Nat /\ c - (c - index) = index /\ c - index \in 0 .. c - index
    BY <1>1
  <2>2. \A m \in 0 .. c - index : m \in T
    <3> HIDE DEF T
    <3> QED BY <1>10, <1>11, <2>1, Upwards
  <2> HIDE DEF A
  <2> QED BY <2>1, <2>2
<1> HIDE DEF T
<1>13. /\ IsRing(o) /\ o.count = c + 1 /\ o.size = r.size
       /\ \A k : Slot(o, k) = Slot(down[index], k)
  <2> DEFINE u == down[index]
  <2>1. IsRing(u) /\ u.size = r.size /\ u.count = c /\ c + 1 \in 0 .. u.size
    BY <1>1, <1>12 DEF IsRing, RingsOf, Like
  <2>2. u.data \in [0 .. u.size - 1 -> Elements \cup {Garbage}]
    BY <2>1, RingFields
  <2>3. o = With(u, u.data, c + 1)
    <3>1. u \in RingsOf(r.size)
      BY <1>12 DEF Like
    <3> HIDE DEF u
    <3>2. o = [u EXCEPT !.count = @ + 1]
      BY <1>9 DEF u
    <3> QED BY <2>1, <3>1, <3>2 DEF With, RingsOf
  <2> HIDE DEF u
  <2>4. /\ IsRing(o) /\ o.data = u.data /\ o.count = c + 1 /\ o.size = r.size
        /\ \A k : Q!true_index(o, k) = Q!true_index(u, k)
    BY <2>1, <2>2, <2>3, OtherData
  <2> QED BY <2>4 DEF Slot, u
<1>14. /\ p \in Seq(Elements) /\ Len(p) = c + 1
       /\ \A k \in 1 .. c + 1 : p[k] = IF k < index + 1 THEN s[k]
                                       ELSE IF k = index + 1 THEN ptr ELSE s[k - 1]
  <2> DEFINE n == index + 1
  <2>1. s \in Seq(Elements) /\ Len(s) = c /\ n \in 1 .. Len(s) + 1 /\ ptr \in Elements
    BY <1>1
  <2> HIDE DEF n, c
  <2>2. /\ Q!Abstract!Put(s, ptr, n) \in Seq(Elements)
        /\ Len(Q!Abstract!Put(s, ptr, n)) = Len(s) + 1
        /\ \A k \in 1 .. Len(s) + 1 : Q!Abstract!Put(s, ptr, n)[k] =
             IF k < n THEN s[k] ELSE IF k = n THEN ptr ELSE s[k - 1]
    BY <2>1 DEF Q!Abstract!Put
  <2> QED BY <2>1, <2>2 DEF n
<1> HIDE DEF p
<1>15. ASSUME NEW k \in 0 .. c
       PROVE  Slot(o, k) = p[k + 1]
  <2>1. k + 1 \in 1 .. c + 1 /\ k \in Int /\ index \in Int /\ k + 1 - 1 = k
    BY <1>1
  <2>2. p[k + 1] = IF k + 1 < index + 1 THEN s[k + 1] ELSE IF k + 1 = index + 1 THEN ptr ELSE s[k]
    BY <1>14, <2>1
  <2>3. Slot(o, k) = IF k = index THEN ptr ELSE IF k < index THEN s[k + 1] ELSE s[k]
    BY <1>12, <1>13
  <2> QED BY <2>1, <2>2, <2>3
<1>16. c + 1 - 1 = c
  BY <1>1
<1> QED BY <1>13, <1>14, <1>15, <1>16 DEF Keeps, o, p

\* The loop of priqueue_offer() finds the place behind the last element that the new
\* one does not belong before.
LEMMA OfferedAt ==
  ASSUME Q!CompareAssumption, NEW r, NEW s, Keeps(r, s), NEW ptr \in Elements
  PROVE  /\ Q!OfferIndex(r, ptr) \in 0 .. r.count
         /\ Q!Abstract!Position(s, ptr) = Q!OfferIndex(r, ptr) + 1
<1> DEFINE c == r.count
           Passes(n) == comparer(ptr, r.data[Q!true_index(r, n)]) >= 0
           Eqn(f) == f = [index \in 0 .. c |-> IF index < c /\ Passes(index)
                                               THEN f[index + 1] ELSE index]
           stop == CHOOSE f : Eqn(f)
           o == Q!OfferIndex(r, ptr)
<1>1. c \in Nat /\ s \in Seq(Elements) /\ Len(s) = c
  BY RingFields DEF Keeps
<1>2. ASSUME NEW n \in 0 .. c - 1
      PROVE  Passes(n) <=> comparer(ptr, s[n + 1]) >= 0
  BY DEF Keeps, Slot
<1>3. o = stop[0]
  BY DEF Q!OfferIndex
<1> HIDE DEF Passes, o
<1>4. \E f : Eqn(f)
  <2> DEFINE A == 0 .. c
             step == [m \in 1 .. c |-> [a \in A |-> IF Passes(c - m) THEN a ELSE c - m]]
  <2>1. c \in A
    BY <1>1
  <2>2. step \in [1 .. c -> [A -> A]]
    <3>1. ASSUME NEW m \in 1 .. c, NEW a \in A
          PROVE  (IF Passes(c - m) THEN a ELSE c - m) \in A
      <4>1. c - m \in A
        <5>1. c \in Nat /\ m \in 1 .. c
          BY <1>1
        <5> HIDE DEF c
        <5> QED BY <5>1
      <4> HIDE DEF A, c
      <4> QED BY <4>1
    <3> HIDE DEF A
    <3> QED BY <3>1
  <2> HIDE DEF A, step, c
  <2>3. PICK g : IsCourse(g, c, A, c, step)
    BY <1>1, <2>1, <2>2, Course
  <2> DEFINE f == [n \in 0 .. c |-> g[c - n]]
  <2>4. ASSUME NEW n \in 0 .. c
        PROVE  f[n] = IF n < c /\ Passes(n) THEN f[n + 1] ELSE n
    <3>1. CASE n = c
      <4>1. g[c - n] = c
        BY <1>1, <2>3, <3>1 DEF IsCourse
      <4> QED BY <1>1, <3>1, <4>1
    <3>2. CASE n # c
      <4>1. /\ c - n \in 1 .. c /\ c - (c - n) = n /\ c - n - 1 = c - (n + 1)
            /\ c - n - 1 \in 0 .. c /\ n + 1 \in 0 .. c /\ n < c
        BY <1>1, <3>2
      <4>2. g[c - n] = step[c - n][g[c - n - 1]] /\ g[c - n - 1] \in A
        BY <2>3, <4>1 DEF IsCourse
      <4>3. g[c - n] = IF Passes(n) THEN g[c - n - 1] ELSE n
        BY <4>1, <4>2 DEF step
      <4> QED BY <4>1, <4>3
    <3> QED BY <3>1, <3>2
  <2>5. f = [n \in 0 .. c |-> f[n]]
    OBVIOUS
  <2> HIDE DEF f
  <2>6. Eqn(f)
    BY <2>4, <2>5 DEF c
  <2> QED BY <2>6
<1>5. Eqn(stop)
  <2> HIDE DEF Eqn
  <2> QED BY <1>4
<1> HIDE DEF stop
<1>6. \A n \in 0 .. c : stop[n] = IF n < c /\ Passes(n) THEN stop[n + 1] ELSE n
  BY <1>5
<1> HIDE DEF Eqn, c
<1> DEFINE Stops(n) == /\ stop[n] \in n .. c
                       /\ \A k \in n .. stop[n] - 1 : Passes(k)
                       /\ stop[n] < c => ~Passes(stop[n])
           T == {m \in 0 .. c : Stops(c - m)}
<1>7. 0 \in T
  <2>1. c - 0 = c /\ c \in 0 .. c /\ 0 \in 0 .. c
    BY <1>1
  <2>2. stop[c] = c
    BY <1>1, <1>6, <2>1
  <2>3. Stops(c)
    BY <1>1, <2>2
  <2> HIDE DEF Stops
  <2> QED BY <2>1, <2>3
<1>8. ASSUME NEW m \in 0 .. c - 1, m \in T
      PROVE  m + 1 \in T
  <2> DEFINE n == c - (m + 1)
  <2>1. n \in 0 .. c - 1 /\ n + 1 = c - m /\ m + 1 \in 0 .. c /\ n \in 0 .. c
    BY <1>1
  <2> HIDE DEF n
  <2>2. Stops(n + 1)
    BY <1>8, <2>1
  <2>3. Stops(n)
    <3>1. CASE Passes(n)
      <4>1. stop[n] = stop[n + 1]
        BY <1>1, <1>6, <2>1, <3>1
      <4>2. stop[n] \in n .. c /\ (stop[n] < c => ~Passes(stop[n]))
        BY <1>1, <2>1, <2>2, <4>1
      <4>3. ASSUME NEW k \in n .. stop[n] - 1 PROVE Passes(k)
        <5>1. CASE k = n
          BY <3>1, <5>1
        <5>2. CASE k # n
          <6>1. k \in n + 1 .. stop[n + 1] - 1
            BY <1>1, <2>1, <4>1, <4>2, <5>2
          <6> QED BY <2>2, <6>1
        <5> QED BY <5>1, <5>2
      <4> QED BY <4>2, <4>3
    <3>2. CASE ~Passes(n)
      <4>1. stop[n] = n
        BY <1>6, <2>1, <3>2
      <4> QED BY <1>1, <2>1, <3>2, <4>1
    <3> QED BY <3>1, <3>2
  <2> HIDE DEF Stops
  <2> QED BY <2>1, <2>3 DEF n
<1>9. Stops(0)
  <2>1. \A m \in 0 .. c : m \in T
    <3> HIDE DEF T
    <3> QED BY <1>1, <1>7, <1>8, Upwards
  <2>2. c \in 0 .. c /\ c - c = 0
    BY <1>1
  <2> HIDE DEF Stops
  <2> QED BY <2>1, <2>2
<1>10. o \in 0 .. c /\ (\A k \in 0 .. o - 1 : Passes(k)) /\ (o < c => ~Passes(o))
  BY <1>3, <1>9
<1> HIDE DEF Stops, T
<1>11. \A k \in 1 .. Len(s) : comparer(ptr, s[k]) \in Int
  BY <1>1 DEF Q!CompareAssumption
<1>12. Q!Abstract!IsPosition(s, ptr, o + 1)
  <2> DEFINE d == o + 1
  <2>1. d \in 1 .. Len(s) + 1
    BY <1>1, <1>10
  <2>2. ASSUME NEW k \in 1 .. d - 1
        PROVE  comparer(ptr, s[k]) >= 0
    <3>1. k - 1 \in 0 .. o - 1 /\ k - 1 \in 0 .. c - 1 /\ k - 1 + 1 = k
      BY <1>1, <1>10
    <3> QED BY <1>2, <1>10, <3>1 DEF c
  <2>3. ASSUME d <= Len(s)
        PROVE  comparer(ptr, s[d]) < 0
    <3>1. o < c /\ o \in 0 .. c - 1 /\ d \in 1 .. Len(s)
      BY <1>1, <1>10, <2>3
    <3>2. ~(comparer(ptr, s[d]) >= 0)
      BY <1>2, <1>10, <3>1 DEF c
    <3>3. comparer(ptr, s[d]) \in Int
      BY <1>11, <3>1
    <3> QED BY <3>2, <3>3
  <2> HIDE DEF d
  <2>4. Q!Abstract!IsPosition(s, ptr, d)
    BY <2>1, <2>2, <2>3 DEF Q!Abstract!IsPosition
  <2> QED BY <2>4 DEF d
<1>13. ASSUME NEW n \in 1 .. Len(s) + 1, Q!Abstract!IsPosition(s, ptr, n)
       PROVE  n = o + 1
  <2> DEFINE d == o + 1
  <2>1. d \in 1 .. Len(s) + 1 /\ Q!Abstract!IsPosition(s, ptr, d) /\ Len(s) \in Nat
    BY <1>1, <1>10, <1>12
  <2> HIDE DEF d
  <2>2. CASE n < d
    <3>1. n \in 1 .. d - 1 /\ n \in 1 .. Len(s)
      BY <2>1, <2>2
    <3>2. comparer(ptr, s[n]) >= 0 /\ comparer(ptr, s[n]) < 0 /\ comparer(ptr, s[n]) \in Int
      BY <1>11, <1>13, <2>1, <3>1 DEF Q!Abstract!IsPosition
    <3> QED BY <3>2
  <2>3. CASE d < n
    <3>1. d \in 1 .. n - 1 /\ d \in 1 .. Len(s)
      BY <2>1, <2>3
    <3>2. comparer(ptr, s[d]) >= 0 /\ comparer(ptr, s[d]) < 0 /\ comparer(ptr, s[d]) \in Int
      BY <1>11, <1>13, <2>1, <3>1 DEF Q!Abstract!IsPosition
    <3> QED BY <3>2
  <2> QED BY <2>1, <2>2, <2>3 DEF d
<1>14. Q!Abstract!Position(s, ptr) = o + 1
  <2>1. o + 1 \in 1 .. Len(s) + 1
    BY <1>1, <1>10
  <2> QED BY <1>12, <1>13, <2>1 DEF Q!Abstract!Position
<1> QED BY <1>10, <1>14 DEF o, c

\* A larger array holds the same elements, from its first slot on.
LEMMA Resized ==
  ASSUME NEW r, NEW s, Keeps(r, s)
  PROVE  Keeps(Q!resize(r), s) /\ Q!resize(r).count = r.count /\ r.count < Q!resize(r).size
<1> DEFINE n == r.size * 2 + 1
           d == [k \in 0 .. n - 1 |->
                   IF k < r.count THEN r.data[Q!true_index(r, k)] ELSE Garbage]
           u == Q!resize(r)
<1>1. /\ IsRing(r) /\ s \in Seq(Elements) /\ Len(s) = r.count
      /\ r.size \in Nat \ {0} /\ r.count \in 0 .. r.size
      /\ r.data \in [0 .. r.size - 1 -> Elements \cup {Garbage}]
      /\ \A k \in 0 .. r.count - 1 : Slot(r, k) = s[k + 1]
  BY RingFields DEF Keeps
<1>2. u = [data |-> d, size |-> n, count |-> r.count, start |-> 0]
  BY DEF Q!resize
<1>3. n \in Nat \ {0} /\ r.count < n /\ r.count \in 0 .. n
  BY <1>1
<1>4. d \in [0 .. n - 1 -> Elements \cup {Garbage}]
  <2>1. ASSUME NEW k \in 0 .. n - 1, k < r.count
        PROVE  r.data[Q!true_index(r, k)] \in Elements \cup {Garbage}
    <3>1. k \in 0 .. r.size - 1
      BY <1>1, <2>1
    <3>2. Q!true_index(r, k) \in 0 .. r.size - 1
      BY <1>1, <3>1, Slots
    <3> QED BY <1>1, <3>2
  <2> QED BY <2>1
<1> HIDE DEF u
<1>5. \A k \in 0 .. r.count - 1 : d[k] = s[k + 1]
  <2> SUFFICES ASSUME NEW k \in 0 .. r.count - 1 PROVE d[k] = s[k + 1]
    OBVIOUS
  <2>1. k \in 0 .. n - 1 /\ k < r.count
    BY <1>1
  <2> QED BY <1>1, <2>1 DEF Slot
<1> HIDE DEF d, n
<1>6. IsRing(u)
  BY <1>2, <1>3, <1>4 DEF IsRing, RingsOf
<1>7. ASSUME NEW k \in 0 .. r.count - 1
      PROVE  Slot(u, k) = s[k + 1]
  <2>1. k \in 0 .. n - 1 /\ k + 0 = k
    BY <1>1, <1>3
  <2>2. k % n = k
    BY <1>3, <2>1, Below
  <2> QED BY <1>2, <1>5, <2>1, <2>2 DEF Slot, Q!true_index
<1> QED BY <1>1, <1>2, <1>3, <1>6, <1>7 DEF Keeps, u

LEMMA RemoveAtFacts ==
  ASSUME NEW s \in Seq(Elements), NEW n \in 1 .. Len(s)
  PROVE  LET t == Q!Abstract!RemoveAt(s, n)
         IN  /\ t \in Seq(Elements) /\ Len(t) = Len(s) - 1
             /\ \A k \in 1 .. Len(s) - 1 : t[k] = IF k < n THEN s[k] ELSE s[k + 1]
<1> DEFINE a == SubSeq(s, 1, n - 1)
           b == SubSeq(s, n + 1, Len(s))
           t == Q!Abstract!RemoveAt(s, n)
<1>1. t = a \o b
  BY DEF Q!Abstract!RemoveAt
<1>2. /\ a \in Seq(Elements) /\ Len(a) = n - 1
      /\ \A k \in 1 .. n - 1 : a[k] = s[k]
  <2>1. \A k \in 1 .. n - 1 : s[k] \in Elements
    OBVIOUS
  <2>2. /\ a \in Seq(Elements) /\ Len(a) = IF 1 <= n - 1 THEN n - 1 - 1 + 1 ELSE 0
        /\ \A k \in 1 .. n - 1 - 1 + 1 : a[k] = s[1 + k - 1]
    BY <2>1, SubSeqProperties
  <2> QED BY <2>2
<1>3. /\ b \in Seq(Elements) /\ Len(b) = Len(s) - n
      /\ \A k \in 1 .. Len(s) - n : b[k] = s[n + k]
  <2>1. \A k \in n + 1 .. Len(s) : s[k] \in Elements
    OBVIOUS
  <2>2. /\ b \in Seq(Elements) /\ Len(b) = IF n + 1 <= Len(s) THEN Len(s) - (n + 1) + 1 ELSE 0
        /\ \A k \in 1 .. Len(s) - (n + 1) + 1 : b[k] = s[n + 1 + k - 1]
    BY <2>1, SubSeqProperties
  <2> QED BY <2>2
<1> HIDE DEF a, b, t
<1>4. /\ t \in Seq(Elements) /\ Len(t) = Len(a) + Len(b)
      /\ \A k \in 1 .. Len(a) + Len(b) : t[k] = IF k <= Len(a) THEN a[k] ELSE b[k - Len(a)]
  BY <1>1, <1>2, <1>3, ConcatProperties
<1>5. ASSUME NEW k \in 1 .. Len(s) - 1
      PROVE  t[k] = IF k < n THEN s[k] ELSE s[k + 1]
  <2>1. CASE k < n
    <3>1. k \in 1 .. n - 1 /\ k \in 1 .. Len(a) + Len(b) /\ k <= Len(a)
      BY <1>2, <1>3, <2>1
    <3>2. t[k] = a[k]
      BY <1>4, <3>1
    <3> QED BY <1>2, <2>1, <3>1, <3>2
  <2>2. CASE ~(k < n)
    <3>1. k - (n - 1) \in 1 .. Len(s) - n /\ n + (k - (n - 1)) = k + 1
      BY <2>2
    <3>2. Len(a) = n - 1 /\ k \in 1 .. Len(a) + Len(b) /\ ~(k <= Len(a))
      BY <1>2, <1>3, <2>2
    <3>3. t[k] = b[k - (n - 1)]
      BY <1>4, <3>2
    <3> QED BY <1>3, <2>2, <3>1, <3>3
  <2> QED BY <2>1, <2>2
<1> QED BY <1>2, <1>3, <1>4, <1>5 DEF t

\* The element at an index is swapped behind the others, in their order.
LEMMA RemovedAt ==
  ASSUME NEW r, NEW s, Keeps(r, s), NEW index \in 0 .. r.count - 1
  PROVE  LET u == Q!RemoveAtIndex(r, index)
         IN  /\ Keeps(u, Q!Abstract!RemoveAt(s, index + 1))
             /\ u.size = r.size /\ u.count = r.count - 1 /\ u.start = r.start
             /\ Slot(u, u.count) = s[index + 1]
<1> DEFINE c == r.count
           A == Like(r)
           Eqn(f) == f = [n \in index .. c - 1 |-> IF n = index THEN r
                                                  ELSE Q!swap(f[n - 1], n - 1, n)]
           up == CHOOSE f : Eqn(f)
           last == up[c - 1]
           o == Q!RemoveAtIndex(r, index)
           p == Q!Abstract!RemoveAt(s, index + 1)
           l == c - 1 - index
<1>1. /\ IsRing(r) /\ s \in Seq(Elements) /\ Len(s) = c
      /\ r.size \in Nat \ {0} /\ c \in 1 .. r.size /\ index \in 0 .. c - 1
      /\ \A n \in 0 .. c - 1 : Slot(r, n) = s[n + 1]
  BY RingFields DEF Keeps
<1>2. r \in A
  BY <1>1 DEF IsRing, Like
<1>3. l \in Nat /\ c - 1 \in index .. c - 1 /\ c - 1 = index + l /\ index \in Nat /\ c \in Nat
  BY <1>1
<1>4. o = [last EXCEPT !.count = @ - 1]
  BY DEF Q!RemoveAtIndex
<1> HIDE DEF o, last
<1>5. ASSUME NEW t \in A, NEW m \in 1 .. l
      PROVE  /\ Q!swap(t, index + m - 1, index + m) \in A
             /\ \A k \in 0 .. c - 1 : Slot(Q!swap(t, index + m - 1, index + m), k) =
                  IF k = index + m - 1 THEN Slot(t, index + m)
                  ELSE IF k = index + m THEN Slot(t, index + m - 1) ELSE Slot(t, k)
  <2> DEFINE a == index + m - 1
             b == index + m
             u == Q!swap(t, a, b)
  <2>1. /\ a \in 0 .. r.size - 1 /\ b \in 0 .. r.size - 1
        /\ 0 .. c - 1 \subseteq 0 .. r.size - 1
    BY <1>1
  <2> HIDE DEF a, b, c
  <2>2. /\ u \in Like(r)
        /\ \A k \in 0 .. r.size - 1 : Slot(u, k) =
             IF k = a THEN Slot(t, b) ELSE IF k = b THEN Slot(t, a) ELSE Slot(t, k)
    BY <1>1, <2>1, SwapLike
  <2> HIDE DEF u
  <2>3. u \in A /\ \A k \in 0 .. c - 1 : Slot(u, k) =
          IF k = a THEN Slot(t, b) ELSE IF k = b THEN Slot(t, a) ELSE Slot(t, k)
    BY <2>1, <2>2
  <2> QED BY <2>3 DEF u, a, b
<1>6. \E f : Eqn(f)
  <2> DEFINE step == [m \in 1 .. l |-> [t \in A |-> Q!swap(t, index + m - 1, index + m)]]
  <2>1. step \in [1 .. l -> [A -> A]]
    <3> HIDE DEF A, l
    <3> QED BY <1>5
  <2> HIDE DEF step, l, A
  <2>2. PICK g : IsCourse(g, l, A, r, step)
    BY <1>2, <1>3, <2>1, Course
  <2> DEFINE f == [n \in index .. c - 1 |-> g[n - index]]
  <2>3. ASSUME NEW n \in index .. c - 1, n # index
        PROVE  f[n] = Q!swap(f[n - 1], n - 1, n)
    <3>1. /\ n - index \in 1 .. l /\ index + (n - index) = n /\ n - index - 1 = (n - 1) - index
          /\ n - index - 1 \in 0 .. l /\ n - 1 \in index .. c - 1
      BY <1>3, <2>3 DEF l
    <3>2. g[n - index] = step[n - index][g[n - index - 1]] /\ g[n - index - 1] \in A
      BY <2>2, <3>1 DEF IsCourse
    <3>3. g[n - index]
            = Q!swap(g[n - index - 1], index + (n - index) - 1, index + (n - index))
      BY <3>1, <3>2 DEF step
    <3> QED BY <3>1, <3>3
  <2>4. f[index] = r
    <3>1. index \in index .. c - 1 /\ index - index = 0
      BY <1>1, <1>3
    <3> QED BY <2>2, <3>1 DEF IsCourse
  <2>5. f = [n \in index .. c - 1 |-> f[n]]
    OBVIOUS
  <2> HIDE DEF f
  <2>6. Eqn(f)
    BY <2>3, <2>4, <2>5
  <2> QED BY <2>6
<1>7. Eqn(up)
  <2> HIDE DEF Eqn
  <2> QED BY <1>6
<1> HIDE DEF up, p
\* Where n has got to: s[index + 1] at n, and what was between index and n moved down.
<1> DEFINE MovedTo(n) == /\ up[n] \in A
                       /\ \A k \in 0 .. c - 1 : Slot(up[n], k) =
                            IF k = n THEN s[index + 1]
                            ELSE IF index <= k /\ k < n THEN s[k + 2] ELSE s[k + 1]
           T == {m \in 0 .. l : MovedTo(index + m)}
<1>8. 0 \in T
  <2>1. index + 0 = index /\ index \in index .. c - 1 /\ 0 \in 0 .. l /\ index \in Int
    BY <1>1, <1>3
  <2>2. up[index] = r
    BY <1>7, <2>1
  <2>3. MovedTo(index)
    <3> HIDE DEF A
    <3> QED BY <1>1, <1>2, <2>2
  <2> HIDE DEF MovedTo
  <2> QED BY <2>1, <2>3
<1>9. ASSUME NEW m \in 0 .. l - 1, m \in T
      PROVE  m + 1 \in T
  <2> DEFINE n == index + m + 1
  <2>1. /\ n \in index .. c - 1 /\ n # index /\ n - 1 = index + m /\ m + 1 \in 1 .. l
        /\ index + (m + 1) = n /\ index + (m + 1) - 1 = n - 1 /\ m + 1 \in 0 .. l
        /\ n \in Int /\ n - 1 \in 0 .. c - 1 /\ n \in 0 .. c - 1 /\ index <= n - 1
    <3>1. m \in 0 .. c - 1 - index - 1 /\ c \in Nat /\ index \in Nat
      BY <1>3
    <3> HIDE DEF c, T
    <3> QED BY <3>1
  <2>2. MovedTo(n - 1)
    <3> HIDE DEF MovedTo, n
    <3> QED BY <1>9, <2>1
  <2> HIDE DEF n, l
  <2>3. up[n] = Q!swap(up[n - 1], n - 1, n)
    BY <1>7, <2>1
  <2> HIDE DEF A, Eqn
  <2>4. /\ up[n] \in A
        /\ \A k \in 0 .. c - 1 : Slot(up[n], k) =
             IF k = n - 1 THEN Slot(up[n - 1], n)
             ELSE IF k = n THEN Slot(up[n - 1], n - 1) ELSE Slot(up[n - 1], k)
    BY <1>5, <2>1, <2>2, <2>3
  <2>5. ASSUME NEW k \in 0 .. c - 1
        PROVE  Slot(up[n], k) = IF k = n THEN s[index + 1]
                                ELSE IF index <= k /\ k < n THEN s[k + 2] ELSE s[k + 1]
    <3>1. k \in Int /\ n \in Int /\ index \in Int
      BY <1>3, <2>1
    <3>2. CASE k = n - 1
      <4>1. Slot(up[n], k) = Slot(up[n - 1], n)
        BY <2>4, <3>2
      <4>2. Slot(up[n - 1], n) = s[n + 1]
        <5>1. n # n - 1 /\ ~(n < n - 1)
          BY <3>1
        <5> QED BY <2>1, <2>2, <5>1
      <4>3. n + 1 = k + 2 /\ k # n /\ index <= k /\ k < n
        BY <2>1, <3>1, <3>2
      <4> QED BY <4>1, <4>2, <4>3
    <3>3. CASE k = n
      <4>1. Slot(up[n], k) = Slot(up[n - 1], n - 1)
        BY <2>1, <2>4, <3>1, <3>3
      <4>2. Slot(up[n - 1], n - 1) = s[index + 1]
        BY <2>1, <2>2
      <4> QED BY <3>3, <4>1, <4>2
    <3>4. CASE k # n /\ k # n - 1
      <4>1. Slot(up[n], k) = Slot(up[n - 1], k)
        BY <2>4, <3>4
      <4>2. Slot(up[n - 1], k) = IF index <= k /\ k < n - 1 THEN s[k + 2] ELSE s[k + 1]
        BY <2>2, <3>4
      <4>3. k < n - 1 <=> k < n
        BY <3>1, <3>4
      <4> QED BY <3>4, <4>1, <4>2, <4>3
    <3> QED BY <3>2, <3>3, <3>4
  <2> QED BY <2>1, <2>4, <2>5
<1>10. MovedTo(c - 1)
  <2>1. \A m \in 0 .. l : m \in T
    <3> HIDE DEF T, l
    <3> QED BY <1>3, <1>8, <1>9, Upwards
  <2> HIDE DEF MovedTo
  <2> QED BY <1>3, <2>1
<1>11. /\ last \in Like(r)
       /\ \A k \in 0 .. c - 1 : Slot(last, k) =
            IF k = c - 1 THEN s[index + 1] ELSE IF index <= k THEN s[k + 2] ELSE s[k + 1]
  <2>1. \A k \in 0 .. c - 1 : k # c - 1 => k < c - 1
    <3>1. c \in Nat
      BY <1>3
    <3> HIDE DEF c
    <3> QED BY <3>1
  <2> QED BY <1>10, <2>1 DEF last
<1> HIDE DEF T, MovedTo, A, l
<1>12. /\ IsRing(o) /\ o.count = c - 1 /\ o.size = r.size /\ o.start = r.start
       /\ \A k : Slot(o, k) = Slot(last, k)
  <2>1. /\ IsRing(last) /\ last.size = r.size /\ last.count = c /\ c - 1 \in 0 .. last.size
        /\ last.start = r.start
    BY <1>1, <1>11 DEF IsRing, RingsOf, Like
  <2>2. last.data \in [0 .. last.size - 1 -> Elements \cup {Garbage}]
    BY <2>1, RingFields
  <2>3. o = With(last, last.data, c - 1)
    <3>1. last \in RingsOf(r.size)
      BY <1>11 DEF Like
    <3> QED BY <1>4, <2>1, <3>1 DEF With, RingsOf
  <2>4. /\ IsRing(o) /\ o.data = last.data /\ o.count = c - 1 /\ o.size = last.size
        /\ o.start = last.start
        /\ \A k : Q!true_index(o, k) = Q!true_index(last, k)
    BY <2>1, <2>2, <2>3, OtherData
  <2> QED BY <2>1, <2>4 DEF Slot
<1>13. /\ p \in Seq(Elements) /\ Len(p) = c - 1
       /\ \A k \in 1 .. c - 1 : p[k] = IF k < index + 1 THEN s[k] ELSE s[k + 1]
  <2> DEFINE n == index + 1
  <2>1. s \in Seq(Elements) /\ n \in 1 .. Len(s) /\ Len(s) = c
    BY <1>1
  <2> HIDE DEF n, c
  <2> QED BY <2>1, RemoveAtFacts DEF p, n
<1>14. ASSUME NEW k \in 0 .. c - 1 - 1
       PROVE  Slot(o, k) = p[k + 1]
  <2>1. k + 1 \in 1 .. c - 1 /\ k \in 0 .. c - 1 /\ k # c - 1 /\ index \in Int /\ k \in Int
    BY <1>3
  <2>2. Slot(o, k) = IF index <= k THEN s[k + 2] ELSE s[k + 1]
    BY <1>11, <1>12, <2>1
  <2>3. p[k + 1] = IF k + 1 < index + 1 THEN s[k + 1] ELSE s[k + 1 + 1]
    BY <1>13, <2>1
  <2>4. k + 1 + 1 = k + 2 /\ (k + 1 < index + 1 <=> ~(index <= k))
    BY <2>1
  <2> QED BY <2>2, <2>3, <2>4
<1>15. Slot(o, c - 1) = s[index + 1]
  BY <1>3, <1>11, <1>12
<1> QED BY <1>12, <1>13, <1>14, <1>15 DEF Keeps, o, p

\* The loop of priqueue_remove() has looked at the first n elements of s, and keeps
\* those at place in front of its index.
LookedAt(x, n, s, ptr, t, place) ==
  /\ Keeps(x.ring, t)
  /\ x.i \in 0 .. n /\ Len(t) = x.i + (Len(s) - n)
  /\ \A k \in 1 .. Len(s) - n : t[x.i + k] = s[n + k]
  /\ place \in [1 .. x.i -> 1 .. n]
  /\ \A k, l \in 1 .. x.i : k < l => place[k] < place[l]
  /\ \A m \in 1 .. n : s[m] # ptr <=> \E k \in 1 .. x.i : place[k] = m
  /\ \A k \in 1 .. x.i : t[k] = s[place[k]]

\* A round that finds ptr leaves the index where it is, another one moves it on.
LEMMA RoundLooks ==
  ASSUME NEW s \in Seq(Elements), NEW n \in 0 .. Len(s) - 1, NEW ptr, NEW t, NEW place,
         NEW x, LookedAt(x, n, s, ptr, t, place), x = [ring |-> x.ring, i |-> x.i]
  PROVE  \E u, where : LookedAt(Q!Round(x, ptr), n + 1, s, ptr, u, where)
<1> DEFINE b == x.i
           y == Q!Round(x, ptr)
<1>1. /\ Keeps(x.ring, t) /\ t \in Seq(Elements) /\ Len(t) = x.ring.count
      /\ b \in 0 .. n /\ Len(t) = b + (Len(s) - n) /\ x.ring.count \in Nat
      /\ \A k \in 1 .. Len(s) - n : t[b + k] = s[n + k]
      /\ place \in [1 .. b -> 1 .. n]
      /\ \A k, l \in 1 .. b : k < l => place[k] < place[l]
      /\ \A m \in 1 .. n : s[m] # ptr <=> \E k \in 1 .. b : place[k] = m
      /\ \A k \in 1 .. b : t[k] = s[place[k]]
  BY RingFields DEF LookedAt, Keeps
<1> HIDE DEF b
<1>2. /\ b \in 0 .. x.ring.count - 1 /\ ~(b >= x.ring.count) /\ b \in Nat
      /\ b + 1 \in 1 .. Len(t) /\ n \in Nat /\ Len(s) \in Nat
  BY <1>1
<1>3. Slot(x.ring, b) = t[b + 1] /\ t[b + 1] = s[n + 1]
  <2>1. 1 \in 1 .. Len(s) - n
    BY <1>2
  <2> QED BY <1>1, <1>2, <2>1 DEF Keeps
<1>4. CASE s[n + 1] = ptr
  <2> DEFINE d == b + 1
             u == Q!Abstract!RemoveAt(t, d)
             v == Q!RemoveAtIndex(x.ring, b)
  <2>1. y = [ring |-> v, i |-> b]
    <3>1. x.ring.data[Q!true_index(x.ring, x.i)] = ptr /\ ~(x.i >= x.ring.count)
      BY <1>2, <1>3, <1>4 DEF Slot, b
    <3> HIDE DEF y
    <3>2. y = [x EXCEPT !.ring = Q!RemoveAtIndex(x.ring, x.i)]
      BY <3>1 DEF y, Q!Round
    <3> QED BY <3>2 DEF b
  <2>2. Keeps(v, u)
    BY <1>1, <1>2, RemovedAt
  <2>3. /\ Len(u) = Len(t) - 1
        /\ \A k \in 1 .. Len(t) - 1 : u[k] = IF k < b + 1 THEN t[k] ELSE t[k + 1]
    <3>1. d \in 1 .. Len(t) /\ t \in Seq(Elements)
      BY <1>1, <1>2
    <3> HIDE DEF d, v, y
    <3>2. /\ Len(u) = Len(t) - 1
          /\ \A k \in 1 .. Len(t) - 1 : u[k] = IF k < d THEN t[k] ELSE t[k + 1]
      BY <3>1, RemoveAtFacts
    <3> QED BY <3>2 DEF d
  <2> HIDE DEF u, v, y
  <2>4. \A k \in 1 .. Len(s) - (n + 1) : u[b + k] = s[n + 1 + k]
    <3> SUFFICES ASSUME NEW k \in 1 .. Len(s) - (n + 1) PROVE u[b + k] = s[n + 1 + k]
      OBVIOUS
    <3>1. /\ b + k \in 1 .. Len(t) - 1 /\ ~(b + k < b + 1) /\ b + k + 1 = b + (k + 1)
          /\ k + 1 \in 1 .. Len(s) - n /\ n + (k + 1) = n + 1 + k
      <4> DEFINE N == Len(s)
                 M == Len(t)
      <4>1. k \in 1 .. N - (n + 1) /\ n \in Nat /\ b \in Nat /\ N \in Nat
            /\ M \in Nat /\ M = b + (N - n)
        BY <1>1, <1>2
      <4> HIDE DEF N, M, d
      <4>2. /\ b + k \in 1 .. M - 1 /\ ~(b + k < b + 1) /\ b + k + 1 = b + (k + 1)
            /\ k + 1 \in 1 .. N - n /\ n + (k + 1) = n + 1 + k
        <5>1. k \in Nat /\ 1 <= k /\ k <= N - (n + 1)
          BY <4>1
        <5>2. b + k \in Nat /\ 1 <= b + k /\ b + k <= M - 1 /\ M - 1 \in Int
          BY <4>1, <5>1
        <5>3. ~(b + k < b + 1) /\ b + k + 1 = b + (k + 1) /\ n + (k + 1) = n + 1 + k
          BY <4>1, <5>1
        <5>4. k + 1 \in 1 .. N - n
          BY <4>1, <5>1
        <5> QED BY <5>2, <5>3, <5>4
      <4> QED BY <4>2 DEF N, M
    <3>2. u[b + k] = t[b + k + 1]
      BY <2>3, <3>1
    <3>3. t[b + (k + 1)] = s[n + (k + 1)]
      BY <1>1, <3>1
    <3> QED BY <3>1, <3>2, <3>3
  <2>5. \A k \in 1 .. b : u[k] = s[place[k]]
    <3> SUFFICES ASSUME NEW k \in 1 .. b PROVE u[k] = s[place[k]]
      OBVIOUS
    <3>1. k \in 1 .. Len(t) - 1 /\ k < b + 1
      BY <1>1, <1>2
    <3> QED BY <1>1, <2>3, <3>1
  <2>6. \A m \in 1 .. n + 1 : s[m] # ptr <=> \E k \in 1 .. b : place[k] = m
    <3>1. \A k \in 1 .. b : place[k] # n + 1
      BY <1>1, <1>2
    <3>2. \A m \in 1 .. n + 1 : m = n + 1 \/ m \in 1 .. n
      BY <1>2
    <3> QED BY <1>1, <1>4, <3>1, <3>2
  <2>7. /\ place \in [1 .. b -> 1 .. n + 1] /\ b \in 0 .. n + 1
        /\ Len(u) = b + (Len(s) - (n + 1))
    BY <1>1, <1>2, <2>3
  <2>8. y.ring = v /\ y.i = b
    BY <2>1
  <2>9. LookedAt(y, n + 1, s, ptr, u, place)
    BY <1>1, <2>2, <2>4, <2>5, <2>6, <2>7, <2>8 DEF LookedAt
  <2> QED BY <2>9 DEF y
<1>5. CASE s[n + 1] # ptr
  <2> DEFINE d == b + 1
             where == [k \in 1 .. d |-> IF k = d THEN n + 1 ELSE place[k]]
  <2>1. y = [ring |-> x.ring, i |-> d]
    <3>1. x.ring.data[Q!true_index(x.ring, x.i)] # ptr /\ ~(x.i >= x.ring.count)
      BY <1>2, <1>3, <1>5 DEF Slot, b
    <3> HIDE DEF y
    <3>2. y = [x EXCEPT !.i = @ + 1]
      BY <3>1 DEF y, Q!Round
    <3> QED BY <3>2 DEF b
  <2>2. d \in 0 .. n + 1 /\ Len(t) = d + (Len(s) - (n + 1)) /\ d \in Nat
    BY <1>1, <1>2
  <2>3. \A k \in 1 .. Len(s) - (n + 1) : t[d + k] = s[n + 1 + k]
    <3> SUFFICES ASSUME NEW k \in 1 .. Len(s) - (n + 1) PROVE t[d + k] = s[n + 1 + k]
      OBVIOUS
    <3>1. k + 1 \in 1 .. Len(s) - n /\ b + (k + 1) = d + k /\ n + (k + 1) = n + 1 + k
      <4> DEFINE N == Len(s)
      <4>1. k \in 1 .. N - (n + 1) /\ n \in Nat /\ b \in Nat /\ N \in Nat
        BY <1>2
      <4> HIDE DEF N
      <4>2. k + 1 \in 1 .. N - n /\ b + (k + 1) = d + k /\ n + (k + 1) = n + 1 + k
        BY <4>1
      <4> QED BY <4>2 DEF N
    <3>2. t[b + (k + 1)] = s[n + (k + 1)]
      BY <1>1, <3>1
    <3> QED BY <3>1, <3>2
  <2>4. \A k \in 1 .. d : k = d \/ (k \in 1 .. b /\ k # d)
    BY <1>2
  <2>5. where[d] = n + 1 /\ \A k \in 1 .. b : where[k] = place[k] /\ place[k] \in 1 .. n
    <3>1. d \in 1 .. d /\ \A k \in 1 .. b : k \in 1 .. d /\ k # d
      BY <1>2
    <3> HIDE DEF d
    <3> QED BY <1>1, <3>1
  <2>6. where \in [1 .. d -> 1 .. n + 1]
    <3>1. n + 1 \in 1 .. n + 1 /\ 1 .. n \subseteq 1 .. n + 1
      BY <1>2
    <3> HIDE DEF d
    <3> QED BY <1>1, <2>4, <3>1
  <2> HIDE DEF where, d, y
  <2>7. \A k, l \in 1 .. d : k < l => where[k] < where[l]
    <3> SUFFICES ASSUME NEW k \in 1 .. d, NEW l \in 1 .. d, k < l
                 PROVE  where[k] < where[l]
      OBVIOUS
    <3>1. k \in 1 .. b
      BY <2>2, <2>4
    <3>2. CASE l = d
      <4>1. where[k] \in 1 .. n /\ where[l] = n + 1
        BY <2>5, <3>1, <3>2
      <4> QED BY <1>2, <4>1
    <3>3. CASE l # d
      <4>1. l \in 1 .. b
        BY <2>4, <3>3
      <4> QED BY <1>1, <2>5, <3>1, <4>1
    <3> QED BY <3>2, <3>3
  <2>8. \A m \in 1 .. n + 1 : s[m] # ptr <=> \E k \in 1 .. d : where[k] = m
    <3> SUFFICES ASSUME NEW m \in 1 .. n + 1
                 PROVE  s[m] # ptr <=> \E k \in 1 .. d : where[k] = m
      OBVIOUS
    <3>1. d \in 1 .. d /\ \A k \in 1 .. b : k \in 1 .. d
      BY <1>2 DEF d
    <3>2. CASE m = n + 1
      BY <1>5, <2>5, <3>1, <3>2
    <3>3. CASE m # n + 1
      <4>1. m \in 1 .. n /\ where[d] # m
        BY <1>2, <2>5, <3>3
      <4>2. s[m] # ptr <=> \E k \in 1 .. b : place[k] = m
        BY <1>1, <4>1
      <4>3. ASSUME NEW k \in 1 .. b, place[k] = m
            PROVE  \E l \in 1 .. d : where[l] = m
        BY <2>5, <3>1, <4>3
      <4>4. ASSUME NEW k \in 1 .. d, where[k] = m
            PROVE  \E l \in 1 .. b : place[l] = m
        BY <2>4, <2>5, <4>1, <4>4
      <4> QED BY <4>2, <4>3, <4>4
    <3> QED BY <3>2, <3>3
  <2>9. \A k \in 1 .. d : t[k] = s[where[k]]
    <3> SUFFICES ASSUME NEW k \in 1 .. d PROVE t[k] = s[where[k]]
      OBVIOUS
    <3>1. CASE k = d
      BY <1>3, <2>5, <3>1 DEF d
    <3>2. CASE k # d
      BY <1>1, <2>4, <2>5, <3>2
    <3> QED BY <3>1, <3>2
  <2>10. y.ring = x.ring /\ y.i = d
    BY <2>1
  <2>11. LookedAt(y, n + 1, s, ptr, t, where)
    BY <1>1, <2>2, <2>3, <2>6, <2>7, <2>8, <2>9, <2>10 DEF LookedAt
  <2> QED BY <2>11 DEF y
<1> QED BY <1>4, <1>5

\* The loop leaves what is not ptr, in order.
LEMMA RemovedAll ==
  ASSUME NEW r, NEW s, Keeps(r, s), NEW ptr
  PROVE  \E t : Keeps(Q!RemoveAll(r, ptr), t) /\ Q!Abstract!Without(s, ptr, t)
<1> DEFINE c == r.count
           K == {u \in RingsOf(r.size) : \E t : Keeps(u, t)}
           A == [ring : K, i : Nat]
           start == [ring |-> r, i |-> 0]
           Eqn(f) == f = [n \in 0 .. c |-> IF n = 0 THEN start ELSE Q!Round(f[n - 1], ptr)]
           after == CHOOSE f : Eqn(f)
           o == Q!RemoveAll(r, ptr)
<1>1. IsRing(r) /\ s \in Seq(Elements) /\ Len(s) = c /\ c \in Nat
  BY RingFields DEF Keeps
<1>2. start \in A
  BY <1>1 DEF IsRing
<1>3. ASSUME NEW x \in A
      PROVE  Q!Round(x, ptr) \in A
  <2> DEFINE y == Q!Round(x, ptr)
  <2>1. x.ring \in K /\ x.i \in Nat
    OBVIOUS
  <2>2. PICK t : Keeps(x.ring, t)
    BY <2>1
  <2>3. IsRing(x.ring) /\ x.ring.size = r.size /\ x.ring.count \in Nat
    BY <2>1, <2>2, RingFields DEF Keeps, RingsOf
  <2>4. CASE x.i >= x.ring.count
    BY <2>4 DEF Q!Round
  <2>5. CASE ~(x.i >= x.ring.count) /\ x.ring.data[Q!true_index(x.ring, x.i)] = ptr
    <3> DEFINE v == Q!RemoveAtIndex(x.ring, x.i)
    <3>1. x.i \in 0 .. x.ring.count - 1
      BY <2>1, <2>3, <2>5
    <3>2. Keeps(v, Q!Abstract!RemoveAt(t, x.i + 1)) /\ v.size = r.size
      BY <2>2, <2>3, <3>1, RemovedAt
    <3>3. v \in K
      BY <3>2 DEF Keeps, IsRing
    <3>4. Q!Round(x, ptr) = [x EXCEPT !.ring = v]
      BY <2>5 DEF Q!Round
    <3> HIDE DEF v, K
    <3> QED BY <3>3, <3>4
  <2>6. CASE ~(x.i >= x.ring.count) /\ x.ring.data[Q!true_index(x.ring, x.i)] # ptr
    <3>1. Q!Round(x, ptr) = [x EXCEPT !.i = @ + 1]
      BY <2>6 DEF Q!Round
    <3> HIDE DEF K
    <3> QED BY <3>1
  <2> QED BY <2>4, <2>5, <2>6
<1> HIDE DEF K
<1>4. \E f : Eqn(f)
  <2> DEFINE step == [m \in 1 .. c |-> [x \in A |-> Q!Round(x, ptr)]]
  <2> HIDE DEF A, start
  <2>1. step \in [1 .. c -> [A -> A]]
    BY <1>3
  <2> HIDE DEF step, c
  <2>2. PICK f : IsCourse(f, c, A, start, step)
    BY <1>1, <1>2, <2>1, Course
  <2>3. /\ f \in [0 .. c -> A] /\ f[0] = start
        /\ \A n \in 1 .. c : f[n] = step[n][f[n - 1]]
    BY <2>2 DEF IsCourse
  <2>4. ASSUME NEW n \in 0 .. c
        PROVE  f[n] = IF n = 0 THEN start ELSE Q!Round(f[n - 1], ptr)
    <3>1. CASE n = 0
      BY <2>3, <3>1
    <3>2. CASE n # 0
      <4>1. n \in 1 .. c /\ n - 1 \in 0 .. c
        BY <1>1, <3>2
      <4>2. f[n - 1] \in A
        BY <2>3, <4>1
      <4> QED BY <2>3, <3>2, <4>1, <4>2 DEF step
    <3> QED BY <3>1, <3>2
  <2>5. Eqn(f)
    BY <2>3, <2>4 DEF c
  <2> QED BY <2>5
<1>5. Eqn(after)
  <2> HIDE DEF Eqn
  <2> QED BY <1>4
<1>6. o = after[c].ring
  BY DEF Q!RemoveAll
<1> HIDE DEF after, o, A, start
<1>7. after[0] = start /\ \A n \in 1 .. c : after[n] = Q!Round(after[n - 1], ptr)
  BY <1>1, <1>5
<1> HIDE DEF Eqn
<1> DEFINE Looked(n) == /\ after[n] = [ring |-> after[n].ring, i |-> after[n].i]
                        /\ \E t, place : LookedAt(after[n], n, s, ptr, t, place)
           T == {n \in 0 .. c : after[n] \in A /\ Looked(n)}
<1>8. 0 \in T
  <2>1. start.ring = r /\ start.i = 0 /\ start = [ring |-> r, i |-> 0]
    BY DEF start
  <2>2. LookedAt(start, 0, s, ptr, s, [k \in 1 .. 0 |-> 0])
    BY <1>1, <2>1 DEF LookedAt
  <2>3. Looked(0)
    <3> HIDE DEF start
    <3> QED BY <1>7, <2>1, <2>2
  <2> HIDE DEF Looked
  <2> QED BY <1>1, <1>2, <1>7, <2>3
<1>9. ASSUME NEW n \in 0 .. c - 1, n \in T
      PROVE  n + 1 \in T
  <2> DEFINE x == after[n]
  <2>1. n + 1 \in 1 .. c /\ n + 1 - 1 = n /\ n + 1 \in 0 .. c /\ n \in 0 .. Len(s) - 1
    BY <1>1
  <2>2. after[n + 1] = Q!Round(x, ptr)
    BY <1>7, <2>1
  <2>3. x \in A /\ x = [ring |-> x.ring, i |-> x.i]
    BY <1>9
  <2>4. PICK t, place : LookedAt(x, n, s, ptr, t, place)
    BY <1>9
  <2> HIDE DEF x
  <2>5. \E u, where : LookedAt(Q!Round(x, ptr), n + 1, s, ptr, u, where)
    BY <1>1, <2>1, <2>3, <2>4, RoundLooks
  <2>6. after[n + 1] \in A
    BY <1>3, <2>2, <2>3
  <2>7. after[n + 1] = [ring |-> after[n + 1].ring, i |-> after[n + 1].i]
    BY <2>6 DEF A
  <2>8. Looked(n + 1)
    BY <2>2, <2>5, <2>7
  <2> HIDE DEF Looked
  <2> QED BY <2>1, <2>6, <2>8
<1>10. Looked(c)
  <2>1. \A n \in 0 .. c : n \in T
    <3> HIDE DEF T, c
    <3> QED BY <1>1, <1>8, <1>9, Upwards
  <2>2. c \in 0 .. c
    BY <1>1
  <2> HIDE DEF Looked
  <2> QED BY <2>1, <2>2
<1>11. PICK t, place : LookedAt(after[c], c, s, ptr, t, place)
  BY <1>10
<1> DEFINE b == after[c].i
<1>12. /\ Keeps(o, t) /\ Len(t) = b
       /\ place \in [1 .. b -> 1 .. Len(s)]
       /\ \A k, l \in 1 .. b : k < l => place[k] < place[l]
       /\ \A m \in 1 .. Len(s) : s[m] # ptr <=> \E k \in 1 .. b : place[k] = m
       /\ \A k \in 1 .. b : t[k] = s[place[k]]
  BY <1>1, <1>6, <1>11 DEF LookedAt
<1> HIDE DEF b
<1>13. Q!Abstract!Without(s, ptr, t)
  BY <1>12 DEF Q!Abstract!Without
<1> QED BY <1>12, <1>13 DEF o

\* The elements priqueue_at() returns.
InArray(r) == [k \in 1 .. r.count |-> IF k - 1 >= r.count THEN NULL ELSE Slot(r, k - 1)]

LEMMA ArrayIs ==
  ASSUME NEW r, NEW s, Keeps(r, s)
  PROVE  InArray(r) = s
<1>1. s \in Seq(Elements) /\ Len(s) = r.count /\ r.count \in Nat
  BY RingFields DEF Keeps
<1>2. s = [k \in 1 .. r.count |-> s[k]]
  BY <1>1
<1>3. ASSUME NEW k \in 1 .. r.count
      PROVE  s[k] = IF k - 1 >= r.count THEN NULL ELSE Slot(r, k - 1)
  <2>1. k - 1 \in 0 .. r.count - 1 /\ ~(k - 1 >= r.count) /\ k - 1 + 1 = k
    BY <1>1
  <2> QED BY <2>1 DEF Keeps
<1> QED BY <1>2, <1>3 DEF InArray

LEMMA ContentInArray == Q!Content = InArray(ring) /\ Q!Content' = InArray(ring')
BY DEF Q!Content, Q!at, InArray, Slot, Q!true_index

QueueInv == \E s : Keeps(ring, s)

LEMMA QueueStart ==
  ASSUME Q!InitialSizeAssumption, Q!Init
  PROVE  QueueInv /\ Q!Abstract!SQInit
<1>1. ring = [data |-> Q!Memory(INITIAL_SIZE), size |-> INITIAL_SIZE, count |-> 0, start |-> 0]
  BY DEF Q!Init, Q!priqueue_init
<1>2. IsRing(ring)
  BY <1>1 DEF IsRing, RingsOf, Q!Memory, Q!InitialSizeAssumption
<1>3. Keeps(ring, <<>>)
  BY <1>1, <1>2 DEF Keeps
<1>4. Q!Content = <<>>
  BY <1>3, ArrayIs, ContentInArray
<1> QED BY <1>3, <1>4 DEF QueueInv, Q!Abstract!SQInit, Q!Init

LEMMA QueueStep ==
  ASSUME Q!CompareAssumption, QueueInv, [Q!Next]_Q!vars
  PROVE  QueueInv' /\ [Q!Abstract!SQNext]_<<Q!Content, returned>>
<1>1. PICK s : Keeps(ring, s)
  BY DEF QueueInv
<1>2. /\ Q!Content = s
      /\ s \in Seq(Elements) /\ Len(s) = ring.count /\ IsRing(ring)
      /\ ring.size \in Nat \ {0} /\ ring.count \in 0 .. ring.size /\ ring.start \in Nat
      /\ ring.data \in [0 .. ring.size - 1 -> Elements \cup {Garbage}]
      /\ \A n \in 0 .. ring.count - 1 : Slot(ring, n) = s[n + 1]
  BY <1>1, ArrayIs, ContentInArray, RingFields DEF Keeps
<1>3. ASSUME NEW t, Keeps(ring', t)
      PROVE  QueueInv' /\ Q!Content' = t
  BY <1>3, ArrayIs, ContentInArray DEF QueueInv
<1>4. CASE UNCHANGED Q!vars
  <2>1. ring' = ring /\ returned' = returned
    BY <1>4 DEF Q!vars
  <2> QED BY <1>1, <1>2, <1>3, <2>1
<1>5. CASE Q!poll
  <2>1. CASE ring.count = 0
    <3>1. returned' = NULL /\ ring' = ring
      BY <1>5, <2>1 DEF Q!poll
    <3>2. s = <<>>
      BY <1>2, <2>1
    <3>3. QueueInv' /\ Q!Content' = Q!Content
      BY <1>1, <1>2, <1>3, <3>1
    <3>4. Q!Abstract!SQPoll
      BY <1>2, <3>1, <3>2, <3>3 DEF Q!Abstract!SQPoll
    <3> QED BY <3>3, <3>4 DEF Q!Abstract!SQNext
  <2>2. CASE ring.count # 0
    <3> DEFINE t == Tail(s)
               c == ring.count - 1
    <3>1. /\ returned' = ring.data[Q!true_index(ring, 0)]
          /\ ring' = [ring EXCEPT !.start = @ + 1, !.count = @ - 1]
      BY <1>5, <2>2 DEF Q!poll
    <3>2. returned' = Head(s) /\ s # <<>>
      <4>1. 0 \in 0 .. ring.count - 1 /\ s # <<>> /\ Head(s) = s[0 + 1]
        BY <1>2, <2>2
      <4> QED BY <1>2, <3>1, <4>1 DEF Slot
    <3>3. c \in 0 .. ring.size /\ ring.start + 1 \in Nat
      BY <1>2, <2>2
    <3>4. /\ ring' \in RingsOf(ring.size) /\ ring'.size = ring.size
          /\ ring'.count = c /\ ring'.start = ring.start + 1 /\ ring'.data = ring.data
      <4>1. ring \in RingsOf(ring.size)
        BY <1>2 DEF IsRing
      <4> QED BY <3>1, <3>3, <4>1 DEF RingsOf
    <3>5. t \in Seq(Elements) /\ Len(t) = c /\ \A n \in 1 .. c : t[n] = s[n + 1]
      BY <1>2, <3>2
    <3> HIDE DEF c, t
    <3>6. ASSUME NEW n \in 0 .. c - 1
          PROVE  Slot(ring', n) = t[n + 1]
      <4>1. n + 1 \in 0 .. ring.count - 1 /\ n + 1 \in 1 .. c
            /\ n + (ring.start + 1) = n + 1 + ring.start
        <5>1. PICK m \in Nat, b \in Nat : ring.count = m /\ ring.start = b
          BY <1>2
        <5>2. c = m - 1 /\ n \in 0 .. c - 1
          BY <5>1 DEF c
        <5>3. n + 1 \in 0 .. m - 1 /\ n + 1 \in 1 .. c /\ n + (b + 1) = n + 1 + b
          BY <5>2
        <5> QED BY <5>1, <5>3
      <4>2. Slot(ring', n) = Slot(ring, n + 1)
        BY <3>4, <4>1 DEF Slot, Q!true_index
      <4> QED BY <1>2, <3>5, <4>1, <4>2
    <3>7. Keeps(ring', t)
      BY <1>2, <3>4, <3>5, <3>6 DEF Keeps, IsRing
    <3>8. QueueInv' /\ Q!Content' = t
      BY <1>3, <3>7
    <3>9. Q!Abstract!SQPoll
      BY <1>2, <3>2, <3>8 DEF Q!Abstract!SQPoll, t
    <3> QED BY <3>8, <3>9 DEF Q!Abstract!SQNext
  <2> QED BY <2>1, <2>2
<1>6. ASSUME NEW ptr \in Elements, Q!offer(ptr)
      PROVE  QueueInv' /\ [Q!Abstract!SQNext]_<<Q!Content, returned>>
  <2> DEFINE r == IF ring.count = ring.size THEN Q!resize(ring) ELSE ring
             index == Q!OfferIndex(r, ptr)
  <2>1. ring' = Q!OfferInto(r, ptr, index) /\ returned' = index
    BY <1>6 DEF Q!offer
  <2>2. Keeps(r, s) /\ r.count < r.size
    <3>1. CASE ring.count = ring.size
      BY <1>1, <3>1, Resized
    <3>2. CASE ring.count # ring.size
      BY <1>1, <1>2, <3>2
    <3> QED BY <3>1, <3>2
  <2> HIDE DEF r
  <2>3. index \in 0 .. r.count /\ Q!Abstract!Position(s, ptr) = index + 1
    BY <2>2, OfferedAt
  <2> HIDE DEF index
  <2>4. Keeps(ring', Q!Abstract!Put(s, ptr, index + 1))
    BY <2>1, <2>2, <2>3, OfferedInto
  <2>5. QueueInv' /\ Q!Content' = Q!Abstract!Insert(s, ptr)
    BY <1>3, <2>3, <2>4 DEF Q!Abstract!Insert
  <2>6. returned' = Q!Abstract!Position(s, ptr) - 1
    BY <2>1, <2>3
  <2>7. Q!Abstract!SQOffer(ptr)
    BY <1>2, <2>5, <2>6 DEF Q!Abstract!SQOffer
  <2> QED BY <2>5, <2>7 DEF Q!Abstract!SQNext
<1>7. ASSUME NEW ptr \in Elements, Q!remove(ptr)
      PROVE  QueueInv' /\ [Q!Abstract!SQNext]_<<Q!Content, returned>>
  <2>1. ring' = Q!RemoveAll(ring, ptr) /\ returned' = ring.count - ring'.count
    BY <1>7 DEF Q!remove
  <2>2. PICK t : Keeps(ring', t) /\ Q!Abstract!Without(s, ptr, t)
    BY <1>1, <2>1, RemovedAll
  <2>3. QueueInv' /\ Q!Content' = t
    BY <1>3, <2>2
  <2>4. t \in Seq(Elements) /\ Len(t) = ring'.count
    BY <2>2 DEF Keeps
  <2>5. Q!Abstract!SQRemove(ptr)
    BY <1>2, <2>1, <2>2, <2>3, <2>4 DEF Q!Abstract!SQRemove
  <2> QED BY <2>3, <2>5 DEF Q!Abstract!SQNext
<1>8. ASSUME NEW index \in -1 .. ring.count, Q!remove_at(index)
      PROVE  QueueInv' /\ [Q!Abstract!SQNext]_<<Q!Content, returned>>
  <2>1. index \in -1 .. Len(Q!Content)
    BY <1>2
  <2>2. CASE index < 0 \/ index >= ring.count
    <3>1. returned' = NULL /\ ring' = ring
      BY <1>8, <2>2 DEF Q!remove_at
    <3>2. QueueInv' /\ Q!Content' = Q!Content
      BY <1>1, <1>2, <1>3, <3>1
    <3>3. index \notin 0 .. Len(Q!Content) - 1
      BY <1>2, <2>2
    <3>4. Q!Abstract!SQRemoveAt(index)
      BY <3>1, <3>2, <3>3 DEF Q!Abstract!SQRemoveAt
    <3> QED BY <2>1, <3>2, <3>4 DEF Q!Abstract!SQNext
  <2>3. CASE ~(index < 0 \/ index >= ring.count)
    <3>1. /\ ring' = Q!RemoveAtIndex(ring, index)
          /\ returned' = ring'.data[Q!true_index(ring', ring'.count)]
      BY <1>8, <2>3 DEF Q!remove_at, Q!true_index
    <3>2. index \in 0 .. ring.count - 1 /\ index \in 0 .. Len(s) - 1
      BY <1>2, <2>3
    <3>3. /\ Keeps(ring', Q!Abstract!RemoveAt(s, index + 1))
          /\ Slot(ring', ring'.count) = s[index + 1]
      BY <1>1, <3>1, <3>2, RemovedAt
    <3>4. QueueInv' /\ Q!Content' = Q!Abstract!RemoveAt(s, index + 1)
      BY <1>3, <3>3
    <3>5. returned' = s[index + 1]
      BY <3>1, <3>3 DEF Slot
    <3>6. Q!Abstract!SQRemoveAt(index)
      BY <1>2, <3>2, <3>4, <3>5 DEF Q!Abstract!SQRemoveAt
    <3> QED BY <2>1, <3>4, <3>6 DEF Q!Abstract!SQNext
  <2> QED BY <2>2, <2>3
<1> QED BY <1>4, <1>5, <1>6, <1>7, <1>8 DEF Q!Next

\* libpriqueue.h's promise, of every call in every order: what a call returns and
\* leaves is what a sorted sequence would return and be left with, however often the
\* array grew and the elements went around its end.
THEOREM RingKeepsOrder ==
  ASSUME Q!InitialSizeAssumption, Q!CompareAssumption
  PROVE  Q!Spec => Q!ImplementsSortedQueue
<1>1. Q!Init => QueueInv /\ Q!Abstract!SQInit
  BY QueueStart
<1>2. QueueInv /\ [Q!Next]_Q!vars => QueueInv' /\ [Q!Abstract!SQNext]_<<Q!Content, returned>>
  BY QueueStep
<1> QED BY <1>1, <1>2, PTL DEF Q!Spec, Q!ImplementsSortedQueue, Q!Abstract!SQSpec
=============================================================================
