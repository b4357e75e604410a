---------------------------- MODULE DiningProofs ----------------------------
(***************************************************************************)
(* Proofs about the dining philosophers for a table of any size, and       *)
(* whatever main() concludes from the progress it sees: first those with a *)
(* mutex for each chopstick, then those with a waiter, as an instance W of *)
(* DiningWaiter.                                                           *)
(***************************************************************************)
EXTENDS DiningPhilosophers, TLAPS

VARIABLES waiter, available, waiting

W == INSTANCE DiningWaiter

-----------------------------------------------------------------------------
(***************************************************************************)
(* A mutex for each chopstick                                              *)
(***************************************************************************)
\* main() only starts to unlock chopsticks when Stop is set, so until then the
\* chopsticks' owners and the philosophers' places in the code agree.
StopInv == at \in {"unlock", "join", "done"} <=> Stop

\* A philosopher is created once.
CreateInv == at = "create" => \A p \in Phils : p >= i => pc[p] = "new"

IInv == TypeOK /\ StopInv /\ CreateInv /\ OwnerInv

-----------------------------------------------------------------------------
\* Every philosopher reaches for two different chopsticks of the table.
LEMMA Chopsticks ==
  ASSUME NEW p \in Phils
  PROVE  /\ left_chop(p) \in Phils /\ right_chop(p) \in Phils
         /\ left_chop(p) # right_chop(p)
         /\ first_chop(p) \in Phils /\ second_chop(p) \in Phils
         /\ first_chop(p) # second_chop(p)
         /\ {first_chop(p), second_chop(p)} = {left_chop(p), right_chop(p)}
<1>1. /\ left_chop(p) \in Phils /\ right_chop(p) \in Phils
      /\ left_chop(p) # right_chop(p)
  BY NumPhilsAssumption DEF Phils, left_chop, right_chop
<1> QED BY <1>1 DEF first_chop, second_chop

\* main() and the philosophers start with nothing locked.
LEMMA InitIInv == Init => IInv
<1> SUFFICES ASSUME Init PROVE IInv
  OBVIOUS
<1>1. TypeOK
  <2>1. 0 \in Phils
    BY NumPhilsAssumption DEF Phils
  <2> QED BY <2>1 DEF Init, MonitorInit, TypeOK, MonitorTypeOK, MonitorLabels, PhilLabels
<1>2. StopInv
  BY DEF Init, MonitorInit, StopInv
<1>3. OwnerInv /\ CreateInv
  BY NobodyAssumption DEF Init, MonitorInit, OwnerInv, CreateInv, Holds
<1> QED BY <1>1, <1>2, <1>3 DEF IInv

\* The loop variable of main() counts up and stays below NUM_PHILS.
LEMMA LoopInRange ==
  ASSUME i \in Phils, NEW label, LoopTo(label)
  PROVE  /\ i' \in Phils
         /\ (at' = at /\ i' = i + 1) \/ at' = label
BY NumPhilsAssumption DEF LoopTo, Phils

\* The steps of main() that leave the chopsticks alone.
LEMMA MonitorIInv ==
  ASSUME IInv, MonitorStep(Stuck), UNCHANGED chopstick
  PROVE  IInv'
<1> USE DEF IInv
<1>1. i \in Phils /\ i \in Int
  BY DEF TypeOK, MonitorTypeOK, Phils
<1>2. CASE CreatePhil
  <2>1. i' \in Phils /\ ((at' = at /\ i' = i + 1) \/ at' = "reset")
    BY <1>1, <1>2, LoopInRange DEF CreatePhil
  <2>2. TypeOK' /\ StopInv'
    BY <1>2, <2>1
       DEF CreatePhil, TypeOK, MonitorTypeOK, MonitorLabels, PhilLabels, StopInv
  <2>3. CreateInv'
    BY <1>1, <1>2, <2>1 DEF CreatePhil, CreateInv, Phils, TypeOK
  <2>4. pc[i] = "new" /\ pc' = [pc EXCEPT ![i] = "loop"]
    BY <1>1, <1>2 DEF CreatePhil, CreateInv
  <2>5. \A p \in Phils : Holds(p)' = Holds(p)
    BY <1>1, <2>4 DEF TypeOK, Holds, first_chop, TakesRightFirst
  <2>6. OwnerInv'
    BY <1>2, <2>5 DEF CreatePhil, OwnerInv
  <2> QED BY <2>2, <2>3, <2>6
<1>3. CASE ResetProg \/ CheckProg \/ JoinPhil
  <2>1. /\ i' \in Phils /\ at # "create"
        /\ at' \in {at, "sleep", "decide", "done"}
        /\ at = "join" <=> at' \in {"join", "done"}
        /\ at \in {"reset", "check", "join"}
    BY <1>1, <1>3, LoopInRange DEF ResetProg, CheckProg, JoinPhil, LoopTo
  <2>2. deadlock' \in BOOLEAN /\ prog' \in [Phils -> BOOLEAN]
    BY <1>3, Zenon DEF ResetProg, CheckProg, JoinPhil, TypeOK, MonitorTypeOK
  <2>3. pc' = pc /\ chopstick' = chopstick /\ Stop' = Stop /\ iter' = iter
    BY <1>3 DEF ResetProg, CheckProg, JoinPhil
  <2>4. TypeOK'
    BY <2>1, <2>2, <2>3 DEF TypeOK, MonitorTypeOK, MonitorLabels
  <2>5. StopInv' /\ CreateInv'
    BY <2>1, <2>3, Zenon DEF StopInv, CreateInv
  <2>6. OwnerInv'
    BY <1>3 DEF ResetProg, CheckProg, JoinPhil, OwnerInv, Holds
  <2> QED BY <2>4, <2>5, <2>6
<1>4. CASE SleepPeriod(Stuck)
  BY <1>4 DEF SleepPeriod, TypeOK, MonitorTypeOK, MonitorLabels, StopInv, CreateInv,
              OwnerInv, Holds
<1>5. CASE Decide
  <2>1. /\ at = "decide" /\ iter' = iter + 1
        /\ \/ at' = "reset" /\ Stop' = Stop
           \/ at' = "unlock" /\ Stop' = TRUE
        /\ UNCHANGED <<prog, pc, i, deadlock, chopstick>>
    BY <1>5 DEF Decide
  <2>2. Stop' \in BOOLEAN /\ at' \in MonitorLabels
    BY <2>1, Zenon DEF TypeOK, MonitorTypeOK, MonitorLabels
  <2>3. iter' \in Nat /\ UNCHANGED <<prog, pc, i, deadlock, chopstick>>
    BY <2>1 DEF TypeOK, MonitorTypeOK
  <2>4. TypeOK'
    BY <2>2, <2>3, Zenon DEF TypeOK, MonitorTypeOK
  <2>5. StopInv' /\ CreateInv' /\ OwnerInv'
    BY <2>1 DEF StopInv, CreateInv, OwnerInv, Holds
  <2> QED BY <2>4, <2>5
<1> QED BY <1>2, <1>3, <1>4, <1>5 DEF MonitorStep

\* main() unlocking a chopstick: Stop is set.
LEMMA ReleaseIInv ==
  ASSUME IInv, ReleaseChopstick
  PROVE  IInv'
<1> USE DEF IInv, ReleaseChopstick
<1>1. i' \in Phils /\ at' \in {"unlock", "join"} /\ at = "unlock"
  BY LoopInRange DEF TypeOK, MonitorTypeOK
<1>2. TypeOK' /\ StopInv' /\ CreateInv'
  BY <1>1 DEF TypeOK, MonitorTypeOK, MonitorLabels, StopInv, CreateInv
<1>3. OwnerInv'
  BY DEF StopInv, OwnerInv
<1> QED BY <1>2, <1>3

\* A philosopher's steps leave main() alone.
LEMMA PhilQuiet ==
  ASSUME IInv, NEW p \in Phils, PhilStep(p)
  PROVE  TypeOK' /\ StopInv' /\ CreateInv'
<1> USE DEF IInv
<1>1. /\ left_chop(p) \in Phils /\ right_chop(p) \in Phils
      /\ first_chop(p) \in Phils /\ second_chop(p) \in Phils
  BY Chopsticks
<1>2. /\ pc[p] # "new" /\ UNCHANGED <<Stop, at, i, iter, deadlock>>
      /\ \E label \in PhilLabels : pc' = [pc EXCEPT ![p] = label]
      /\ prog' \in [Phils -> BOOLEAN]
      /\ chopstick' \in [Phils -> Phils \cup {Nobody}]
  <2>1. /\ pc[p] # "new" /\ UNCHANGED <<Stop, at, i, iter, deadlock>>
        /\ \E label \in PhilLabels : pc' = [pc EXCEPT ![p] = label]
    BY DEF PhilStep, TestStop, LockFirst, LockSecond, UnlockRight, UnlockLeft,
           CountProgress, monitor, goto, PhilLabels
  <2>2. prog' \in [Phils -> BOOLEAN]
    BY DEF PhilStep, TestStop, LockFirst, LockSecond, UnlockRight, UnlockLeft,
           CountProgress, TypeOK, MonitorTypeOK
  <2>3. chopstick' \in [Phils -> Phils \cup {Nobody}]
    BY <1>1 DEF PhilStep, TestStop, LockFirst, LockSecond, UnlockRight, UnlockLeft,
                CountProgress, TypeOK
  <2> QED BY <2>1, <2>2, <2>3
<1> QED BY <1>2 DEF TypeOK, MonitorTypeOK, StopInv, CreateInv

\* A philosopher's steps keep the owners in agreement with the code.
LEMMA PhilOwner ==
  ASSUME IInv, NEW p \in Phils, PhilStep(p)
  PROVE  OwnerInv'
<1> USE DEF IInv
<1> SUFFICES ASSUME ~Stop', NEW q \in Phils, NEW c \in Phils
             PROVE  chopstick'[c] = q <=> c \in Holds(q)'
  BY DEF OwnerInv
<1>1. ~Stop /\ pc \in [Phils -> PhilLabels]
              /\ chopstick \in [Phils -> Phils \cup {Nobody}]
  BY DEF PhilStep, TestStop, LockFirst, LockSecond, UnlockRight, UnlockLeft,
         CountProgress, TypeOK
<1>2. \A r \in Phils, d \in Phils : chopstick[d] = r <=> d \in Holds(r)
  BY <1>1 DEF OwnerInv
<1>3. q # p => Holds(q)' = Holds(q)
  BY <1>1 DEF PhilStep, TestStop, LockFirst, LockSecond, UnlockRight, UnlockLeft,
         CountProgress, goto, Holds
<1>4. /\ left_chop(p) \in Phils /\ right_chop(p) \in Phils
      /\ left_chop(p) # right_chop(p)
      /\ first_chop(p) \in Phils /\ second_chop(p) \in Phils
      /\ {first_chop(p), second_chop(p)} = {left_chop(p), right_chop(p)}
  BY Chopsticks
<1>5. CASE TestStop(p) \/ CountProgress(p)
  <2>1. Holds(p)' = Holds(p) /\ chopstick' = chopstick
    BY <1>1, <1>5 DEF TestStop, CountProgress, goto, Holds
  <2> QED BY <1>2, <1>3, <2>1
<1>6. CASE LockFirst(p)
  <2>1. /\ chopstick[first_chop(p)] = Nobody
        /\ chopstick' = [chopstick EXCEPT ![first_chop(p)] = p]
        /\ Holds(p) = {} /\ Holds(p)' = {first_chop(p)}
    BY <1>1, <1>6 DEF LockFirst, goto, Holds
  <2> QED BY <1>1, <1>2, <1>3, <1>4, <2>1, NobodyAssumption
<1>7. CASE LockSecond(p)
  <2>1. /\ chopstick[second_chop(p)] = Nobody
        /\ chopstick' = [chopstick EXCEPT ![second_chop(p)] = p]
        /\ Holds(p) = {first_chop(p)} /\ Holds(p)' = {left_chop(p), right_chop(p)}
    BY <1>1, <1>7 DEF LockSecond, goto, Holds
  <2> QED BY <1>1, <1>2, <1>3, <1>4, <2>1, NobodyAssumption
<1>8. CASE UnlockRight(p)
  <2>1. /\ chopstick' = [chopstick EXCEPT ![right_chop(p)] = Nobody]
        /\ Holds(p) = {left_chop(p), right_chop(p)} /\ Holds(p)' = {left_chop(p)}
    BY <1>1, <1>8 DEF UnlockRight, goto, Holds
  <2> QED BY <1>1, <1>2, <1>3, <1>4, <2>1, NobodyAssumption
<1>9. CASE UnlockLeft(p)
  <2>1. /\ chopstick' = [chopstick EXCEPT ![left_chop(p)] = Nobody]
        /\ Holds(p) = {left_chop(p)} /\ Holds(p)' = {}
    BY <1>1, <1>9 DEF UnlockLeft, goto, Holds
  <2> QED BY <1>1, <1>2, <1>3, <1>4, <2>1, NobodyAssumption
<1> QED BY <1>5, <1>6, <1>7, <1>8, <1>9 DEF PhilStep

\* The inductive invariant holds throughout.
LEMMA SpecIInv == Spec => []IInv
<1>1. IInv /\ [Next]_vars => IInv'
  <2> SUFFICES ASSUME IInv, [Next]_vars PROVE IInv'
    OBVIOUS
  <2>1. CASE MainStep
    BY <2>1, MonitorIInv, ReleaseIInv DEF MainStep
  <2>2. ASSUME NEW p \in Phils, PhilStep(p) PROVE IInv'
    BY <2>2, PhilQuiet, PhilOwner DEF IInv
  <2>3. CASE UNCHANGED vars
    BY <2>3 DEF vars, monitor, IInv, TypeOK, MonitorTypeOK, StopInv, CreateInv,
                OwnerInv, Holds
  <2> QED BY <2>1, <2>2, <2>3 DEF Next, Terminated
<1> QED BY <1>1, InitIInv, PTL DEF Spec

-----------------------------------------------------------------------------
\* Types and ranges, for a table of any size.
THEOREM TypeCorrect == Spec => []TypeOK
<1>1. IInv => TypeOK
  BY DEF IInv
<1> QED BY <1>1, SpecIInv, PTL

\* No two neighbours eat at once, in either program, until Stop is set.
THEOREM ExclusionCorrect == Spec => []Exclusion
<1>1. IInv => Exclusion
  <2> SUFFICES ASSUME IInv, ~Stop, NEW p \in Phils,
                      pc[p] = "eat", pc[left_phil(p)] = "eat"
               PROVE  FALSE
    BY DEF Exclusion
  <2> DEFINE q == left_phil(p)
  <2>1. q \in Phils /\ q # p /\ right_chop(q) = p /\ left_chop(p) = p
    BY NumPhilsAssumption DEF left_phil, right_chop, left_chop, Phils
  <2>2. p \in Holds(p) /\ p \in Holds(q)
    BY <2>1 DEF Holds
  <2> QED BY <2>1, <2>2 DEF IInv, OwnerInv
<1> QED BY <1>1, SpecIInv, PTL

\* dp_asymmetric.c cannot deadlock, at a table of any size.  Philosophers 0 and
\* 1 both begin with chopstick 0, so one of them is past it, if all are blocked,
\* and waits for its second chopstick.  That one is the second chopstick of the
\* neighbour, or the first one of a neighbour who in turn needs the second one
\* of the next: whoever has that, eats.
THEOREM AsymmetricNeverStuck == Spec => []NoCircularWait
<1>1. IInv => NoCircularWait
  <2> SUFFICES ASSUME IInv, Asymmetric, ~Stop, Stuck PROVE FALSE
    BY DEF NoCircularWait
  <2>1. ASSUME NEW p \in Phils
        PROVE  /\ pc[p] \in {"first", "second"}
               /\ pc[p] = "first" => chopstick[first_chop(p)] # Nobody
               /\ pc[p] = "second" => chopstick[second_chop(p)] # Nobody
    BY DEF Stuck, Blocked
  <2>2. ASSUME NEW c \in Phils, chopstick[c] # Nobody
        PROVE  \E p \in Phils : pc[p] = "second" /\ c = first_chop(p)
    BY <2>1, <2>2 DEF IInv, OwnerInv, TypeOK, Holds
  <2> DEFINE n == NUM_PHILS - 1
  <2>3. 0 \in Phils /\ 1 \in Phils /\ n \in Phils /\ n - 1 \in Phils
    BY NumPhilsAssumption DEF Phils
  <2>4. \A p \in Phils : first_chop(p) = IF p % 2 = 1 THEN right_chop(p) ELSE p
    BY DEF first_chop, TakesRightFirst, left_chop
  <2>5. \A p \in Phils : second_chop(p) = IF p % 2 = 1 THEN p ELSE right_chop(p)
    BY DEF second_chop, TakesRightFirst, left_chop
  <2>6. /\ 0 % 2 = 0 /\ 1 % 2 = 1 /\ 2 % 2 = 0
        /\ \A x \in Int : x % 2 \in {0, 1} /\ (x % 2 = 0 => (x - 1) % 2 = 1)
    OBVIOUS
  <2>7. chopstick[0] # Nobody
    <3>1. first_chop(0) = 0 /\ (pc[0] = "second" => chopstick[0] = 0)
      BY <2>3, <2>4, <2>6 DEF IInv, OwnerInv, Holds
    <3> QED BY <2>1, <2>3, <3>1, NobodyAssumption
  <2>8. PICK p \in Phils : pc[p] = "second" /\ first_chop(p) = 0
    BY <2>2, <2>3, <2>7
  <2>9. CASE p # 0
    <3>1. p = 1 /\ second_chop(p) = 1
      BY <2>3, <2>4, <2>5, <2>6, <2>8, <2>9, NumPhilsAssumption DEF Phils, right_chop
    <3>2. PICK q \in Phils : first_chop(q) = 1
      BY <2>1, <2>2, <2>8, <3>1
    <3> QED BY <2>4, <2>6, <3>2, NumPhilsAssumption DEF Phils, right_chop
  <2>10. CASE p = 0
    <3>1. second_chop(p) = n
      BY <2>3, <2>5, <2>6, <2>10 DEF right_chop
    <3>2. PICK q \in Phils : pc[q] = "second" /\ first_chop(q) = n
      BY <2>1, <2>2, <2>3, <2>8, <3>1
    <3>3. q = n /\ n % 2 = 0 /\ n >= 2
      BY <2>4, <2>6, <3>2, NumPhilsAssumption DEF Phils, right_chop
    <3>4. second_chop(q) = n - 1
      BY <2>5, <3>2, <3>3, NumPhilsAssumption DEF Phils, right_chop
    <3>5. PICK r \in Phils : first_chop(r) = n - 1
      BY <2>1, <2>2, <2>3, <3>2, <3>4
    <3> QED BY <2>4, <2>6, <3>3, <3>5, NumPhilsAssumption DEF Phils, right_chop
  <2> QED BY <2>9, <2>10
<1> QED BY <1>1, SpecIInv, PTL

-----------------------------------------------------------------------------
(***************************************************************************)
(* The waiter                                                              *)
(***************************************************************************)
\* A philosopher is created once.
WaiterCreateInv == at = "create" => \A p \in W!Phils : p >= i => pc[p] = "new"

\* The flags are right because only the waiter's philosopher changes them, and
\* a wake-up is not lost because the flags are right: who lacks a chopstick has
\* a neighbour that eats and will signal.
WaiterIInv ==
  W!TypeOK /\ WaiterCreateInv /\ W!WaiterInv /\ W!ChopstickInv /\ W!NoLostWakeup

-----------------------------------------------------------------------------
LEMMA NobodySits == Nobody \notin W!Phils
BY NobodyAssumption DEF Phils, W!Phils

\* The chopsticks of a philosopher, and who shares them.
LEMMA Neighbours ==
  ASSUME NEW p \in W!Phils
  PROVE  /\ W!left_phil(p) \in W!Phils /\ W!right_phil(p) \in W!Phils
         /\ W!left_phil(p) # p /\ W!right_phil(p) # p
         /\ W!left_phil(W!right_phil(p)) = p /\ W!right_phil(W!left_phil(p)) = p
         /\ W!left_chop(p) = p /\ W!right_chop(p) = W!right_phil(p)
BY NumPhilsAssumption DEF W!Phils, W!left_phil, W!right_phil, W!left_chop, W!right_chop

\* A philosopher's flags, chopstick by chopstick.
LEMMA SetBothFlags ==
  ASSUME W!TypeOK, NEW p \in W!Phils, NEW flag \in BOOLEAN
  PROVE  /\ W!SetBoth(p, flag) \in [W!Phils -> BOOLEAN]
         /\ \A c \in W!Phils : W!SetBoth(p, flag)[c] = IF c \in {p, W!right_phil(p)}
                                                   THEN flag ELSE available[c]
BY Neighbours DEF W!SetBoth, W!TypeOK

\* At the start nobody eats, waits or holds the waiter's mutex.
LEMMA InitWaiterIInv == W!Init => WaiterIInv
<1> SUFFICES ASSUME W!Init PROVE WaiterIInv
  OBVIOUS
<1>1. W!TypeOK
  <2>1. 0 \in W!Phils
    BY NumPhilsAssumption DEF W!Phils
  <2> QED BY <2>1 DEF W!Init, W!MonitorInit, W!TypeOK, W!MonitorTypeOK, W!MonitorLabels,
         W!PhilLabels
<1>2. WaiterCreateInv
  BY DEF W!Init, W!MonitorInit, WaiterCreateInv
<1>3. W!WaiterInv
  BY NobodySits DEF W!Init, W!MonitorInit, W!WaiterInv, W!Serving
<1>4. W!ChopstickInv
  BY Neighbours DEF W!Init, W!MonitorInit, W!ChopstickInv, W!Eating
<1>5. W!NoLostWakeup
  BY DEF W!Init, W!NoLostWakeup
<1> QED BY <1>1, <1>2, <1>3, <1>4, <1>5 DEF WaiterIInv

-----------------------------------------------------------------------------
(***************************************************************************)
(* main()                                                                  *)
(***************************************************************************)
\* The loop variable of main() counts up and stays below NUM_PHILS.
LEMMA WaiterLoopInRange ==
  ASSUME i \in W!Phils, NEW label, W!LoopTo(label)
  PROVE  /\ i' \in W!Phils
         /\ (at' = at /\ i' = i + 1) \/ at' = label
BY NumPhilsAssumption DEF W!LoopTo, W!Phils

\* A step after which every philosopher is where it was.
LEMMA NobodyMoves ==
  ASSUME WaiterIInv, UNCHANGED <<pc, waiter, available, waiting>>
  PROVE  W!WaiterInv' /\ W!ChopstickInv' /\ W!NoLostWakeup'
BY DEF WaiterIInv, W!WaiterInv, W!ChopstickInv, W!NoLostWakeup, W!Eating,
       W!BothAvailable, W!AboutToWake

\* Creating a philosopher: it was not at the table before.
LEMMA CreateStep ==
  ASSUME WaiterIInv, W!CreatePhil, UNCHANGED <<waiter, available, waiting>>
  PROVE  WaiterIInv'
<1>1. i \in W!Phils /\ i' \in W!Phils /\ ((at' = at /\ i' = i + 1) \/ at' = "reset")
  BY WaiterLoopInRange DEF WaiterIInv, W!TypeOK, W!MonitorTypeOK, W!CreatePhil
<1>2. /\ pc[i] = "new" /\ pc' = [pc EXCEPT ![i] = "loop"] /\ at = "create"
      /\ pc \in [W!Phils -> W!PhilLabels]
      /\ UNCHANGED <<Stop, prog, iter, deadlock, waiter, available, waiting>>
  BY <1>1 DEF WaiterIInv, WaiterCreateInv, W!TypeOK, W!CreatePhil, W!Phils
<1>3. W!TypeOK'
  BY <1>1, <1>2 DEF WaiterIInv, W!TypeOK, W!MonitorTypeOK, W!MonitorLabels, W!PhilLabels
<1>4. WaiterCreateInv'
  BY <1>1, <1>2 DEF WaiterIInv, WaiterCreateInv, W!Phils
<1>5. \A p \in W!Phils : /\ W!Eating(p)' = W!Eating(p)
                         /\ pc[p] \in W!Serving <=> pc'[p] \in W!Serving
                         /\ \A l \in {"wait", "signal_left", "signal_right"} : pc[p] = l <=> pc'[p] = l
  BY <1>1, <1>2 DEF W!Eating, W!Serving
<1>6. W!WaiterInv'
  BY <1>2, <1>5 DEF WaiterIInv, W!WaiterInv, W!TypeOK
<1>7. W!ChopstickInv'
  BY <1>2, <1>5, Neighbours DEF WaiterIInv, W!ChopstickInv
<1>8. W!NoLostWakeup'
  BY <1>2, <1>5, Neighbours DEF WaiterIInv, W!NoLostWakeup, W!BothAvailable,
                                W!AboutToWake, W!TypeOK
<1> QED BY <1>3, <1>4, <1>6, <1>7, <1>8 DEF WaiterIInv

\* The other steps of main() leave the table alone.
LEMMA MainWaiterIInv ==
  ASSUME WaiterIInv, W!MainStep
  PROVE  WaiterIInv'
<1>1. CASE W!CreatePhil
  BY <1>1, CreateStep DEF W!MainStep
<1>2. CASE ~W!CreatePhil
  <2>1. UNCHANGED <<pc, waiter, available, waiting>> /\ at # "create"
    BY <1>2 DEF W!MainStep, W!MonitorStep, W!ResetProg, W!SleepPeriod, W!CheckProg,
                W!Decide,
                W!JoinPhil, W!UnlockUnused
  <2>2. i' \in W!Phils /\ at' \in W!MonitorLabels \ {"create"}
    BY <1>2, WaiterLoopInRange
       DEF W!MainStep, W!MonitorStep, W!ResetProg, W!SleepPeriod, W!CheckProg,
           W!Decide, W!JoinPhil,
           W!UnlockUnused, WaiterIInv, W!TypeOK, W!MonitorTypeOK, W!MonitorLabels
  <2>3. /\ Stop' \in BOOLEAN /\ iter' \in Nat /\ deadlock' \in BOOLEAN
        /\ prog' \in [W!Phils -> BOOLEAN]
    <3> USE DEF WaiterIInv, W!TypeOK, W!MonitorTypeOK
    <3>1. CASE W!ResetProg \/ W!CheckProg
      BY <3>1, Zenon DEF W!ResetProg, W!CheckProg
    <3>2. CASE W!SleepPeriod(W!Stuck) \/ W!JoinPhil \/ W!UnlockUnused
      BY <3>2 DEF W!SleepPeriod, W!JoinPhil, W!UnlockUnused
    <3>3. CASE W!Decide
      <4>1. iter' \in Nat
        BY <3>3 DEF W!Decide
      <4>2. Stop' \in BOOLEAN /\ deadlock' \in BOOLEAN /\ prog' \in [W!Phils -> BOOLEAN]
        BY <3>3, Zenon DEF W!Decide
      <4> QED BY <4>1, <4>2
    <3> QED BY <1>2, <3>1, <3>2, <3>3 DEF W!MainStep, W!MonitorStep
  <2>4. W!TypeOK' /\ WaiterCreateInv'
    BY <2>1, <2>2, <2>3 DEF WaiterIInv, W!TypeOK, W!MonitorTypeOK, WaiterCreateInv
  <2> QED BY <2>1, <2>4, NobodyMoves DEF WaiterIInv
<1> QED BY <1>1, <1>2

-----------------------------------------------------------------------------
(***************************************************************************)
(* dp_thread()                                                             *)
(***************************************************************************)
\* A philosopher's step keeps the types, and leaves main() alone.
LEMMA PhilTypes ==
  ASSUME WaiterIInv, NEW p \in W!Phils, W!PhilStep(p)
  PROVE  W!TypeOK' /\ WaiterCreateInv' /\ Stop' = Stop
<1>1. /\ pc[p] # "new" /\ UNCHANGED <<Stop, W!monitor>>
      /\ \E label \in W!PhilLabels : pc' = [pc EXCEPT ![p] = label]
      /\ prog' \in [W!Phils -> BOOLEAN]
      /\ waiter' \in {waiter, p, Nobody}
      /\ waiting' \subseteq waiting \cup {p}
      /\ available' \in {available, W!SetBoth(p, TRUE), W!SetBoth(p, FALSE)}
  BY DEF W!PhilStep, W!TestStop, W!LockToTake, W!Wait, W!Take, W!LockToPut, W!Put,
         W!SignalLeft,
         W!SignalRight, W!LetGo, W!CountProgress, W!goto, W!monitor, W!PhilLabels,
         WaiterIInv, W!TypeOK,
         W!MonitorTypeOK
<1>2. W!TypeOK /\ WaiterCreateInv
  BY DEF WaiterIInv
<1>3. available' \in [W!Phils -> BOOLEAN]
  <2>1. \A flag \in BOOLEAN : W!SetBoth(p, flag) \in [W!Phils -> BOOLEAN]
    BY <1>2, SetBothFlags
  <2> QED BY <1>1, <1>2, <2>1 DEF W!TypeOK
<1>4. W!TypeOK'
  BY <1>1, <1>2, <1>3 DEF W!TypeOK, W!MonitorTypeOK, W!monitor
<1>5. WaiterCreateInv'
  BY <1>1, <1>2 DEF W!TypeOK, WaiterCreateInv, W!monitor
<1> QED BY <1>1, <1>4, <1>5

\* A philosopher's step keeps the waiter's mutex with who is being served.
LEMMA PhilWaiter ==
  ASSUME WaiterIInv, NEW p \in W!Phils, W!PhilStep(p)
  PROVE  W!WaiterInv'
<1> USE DEF WaiterIInv, W!TypeOK, W!WaiterInv, W!Serving, W!goto
<1>1. CASE W!TestStop(p) \/ W!CountProgress(p)
  BY <1>1 DEF W!TestStop, W!CountProgress
<1>2. CASE W!LockToTake(p) \/ W!LockToPut(p)
  BY <1>2, NobodySits DEF W!LockToTake, W!LockToPut
<1>3. CASE W!Wait(p) \/ W!Take(p) \/ W!LetGo(p)
  BY <1>3, NobodySits DEF W!Wait, W!Take, W!LetGo
<1>4. CASE W!Put(p) \/ W!SignalLeft(p) \/ W!SignalRight(p)
  BY <1>4 DEF W!Put, W!SignalLeft, W!SignalRight
<1> QED BY <1>1, <1>2, <1>3, <1>4 DEF W!PhilStep

\* A philosopher's step keeps the flags in agreement with who eats.
LEMMA PhilChopsticks ==
  ASSUME WaiterIInv, NEW p \in W!Phils, W!PhilStep(p)
  PROVE  W!ChopstickInv'
<1>1. pc \in [W!Phils -> W!PhilLabels] /\ W!TypeOK /\ W!ChopstickInv
  BY DEF WaiterIInv, W!TypeOK
<1>2. CASE ~W!Take(p) /\ ~W!Put(p)
  <2>1. available' = available /\ \A q \in W!Phils : W!Eating(q)' = W!Eating(q)
    BY <1>1, <1>2 DEF W!PhilStep, W!TestStop, W!LockToTake, W!Wait, W!LockToPut,
                      W!SignalLeft,
                      W!SignalRight, W!LetGo, W!CountProgress, W!goto, W!Eating
  <2> QED BY <1>1, <2>1, Neighbours DEF W!ChopstickInv
<1>3. CASE W!Take(p)
  <2>1. /\ available[p] /\ available[W!right_phil(p)] /\ ~W!Eating(p) /\ W!Eating(p)'
        /\ \A q \in W!Phils \ {p} : W!Eating(q)' = W!Eating(q)
    BY <1>1, <1>3, Neighbours DEF W!Take, W!BothAvailable, W!goto, W!Eating
  <2>2. \A c \in W!Phils : 
          available'[c] = IF c \in {p, W!right_phil(p)} THEN FALSE ELSE available[c]
    BY <1>1, <1>3, SetBothFlags DEF W!Take
  <2> SUFFICES ASSUME NEW c \in W!Phils
               PROVE  /\ available'[c] <=> ~W!Eating(c)' /\ ~W!Eating(W!left_phil(c))'
                      /\ ~(W!Eating(c)' /\ W!Eating(W!left_phil(c))')
    BY DEF W!ChopstickInv
  <2>3. /\ W!left_phil(c) \in W!Phils
        /\ c = W!right_phil(p) <=> W!left_phil(c) = p
    BY Neighbours
  <2> QED BY <1>1, <2>1, <2>2, <2>3, Neighbours DEF W!ChopstickInv
<1>4. CASE W!Put(p)
  <2>1. /\ W!Eating(p) /\ ~W!Eating(p)'
        /\ \A q \in W!Phils \ {p} : W!Eating(q)' = W!Eating(q)
    BY <1>1, <1>4 DEF W!Put, W!goto, W!Eating
  <2>2. \A c \in W!Phils : 
          available'[c] = IF c \in {p, W!right_phil(p)} THEN TRUE ELSE available[c]
    BY <1>1, <1>4, SetBothFlags DEF W!Put
  <2> SUFFICES ASSUME NEW c \in W!Phils
               PROVE  /\ available'[c] <=> ~W!Eating(c)' /\ ~W!Eating(W!left_phil(c))'
                      /\ ~(W!Eating(c)' /\ W!Eating(W!left_phil(c))')
    BY DEF W!ChopstickInv
  <2>3. /\ W!left_phil(c) \in W!Phils /\ W!left_phil(p) \in W!Phils
        /\ c = W!right_phil(p) <=> W!left_phil(c) = p
        /\ W!left_phil(p) # p
    BY Neighbours
  <2>4. CASE c = p
    BY <1>1, <2>1, <2>2, <2>3, <2>4 DEF W!ChopstickInv
  <2>5. CASE W!left_phil(c) = p
    BY <1>1, <2>1, <2>2, <2>3, <2>5 DEF W!ChopstickInv
  <2>6. CASE c # p /\ W!left_phil(c) # p
    BY <1>1, <2>1, <2>2, <2>3, <2>6 DEF W!ChopstickInv
  <2> QED BY <2>4, <2>5, <2>6
<1> QED BY <1>2, <1>3, <1>4

\* A philosopher's step loses no wake-up: who puts chopsticks down owes both
\* neighbours a signal, and pays one after the other.
LEMMA PhilWakeups ==
  ASSUME WaiterIInv, NEW p \in W!Phils, W!PhilStep(p)
  PROVE  W!NoLostWakeup'
<1>1. /\ pc \in [W!Phils -> W!PhilLabels] /\ W!TypeOK /\ W!NoLostWakeup
      /\ waiting \subseteq W!Phils /\ \A q \in waiting : pc[q] = "wait"
  BY DEF WaiterIInv, W!TypeOK, W!WaiterInv
<1>2. /\ waiting' \subseteq W!Phils
      /\ \A q \in W!Phils \ {p} : pc'[q] = pc[q]
  BY <1>1, PhilTypes DEF W!TypeOK, W!PhilStep, W!TestStop, W!LockToTake, W!Wait, W!Take,
         W!LockToPut,
     W!Put, W!SignalLeft, W!SignalRight, W!LetGo, W!CountProgress, W!goto
<1> SUFFICES ASSUME NEW q \in waiting'
             PROVE  (~W!BothAvailable(q))' \/ W!AboutToWake(q)'
  BY DEF W!NoLostWakeup
<1>3. q \in W!Phils
  BY <1>2
<1>4. ASSUME q \in waiting, available' = available, pc[p] \notin {"signal_left", "signal_right"}
      PROVE  (~W!BothAvailable(q))' \/ W!AboutToWake(q)'
  <2>1. W!AboutToWake(q) => W!AboutToWake(q)'
    BY <1>2, <1>3, <1>4, Neighbours DEF W!AboutToWake
  <2> QED BY <1>1, <1>4, <2>1 DEF W!NoLostWakeup, W!BothAvailable
<1>5. CASE W!TestStop(p) \/ W!LockToTake(p) \/ W!LockToPut(p) \/ W!LetGo(p) \/ W!CountProgress(p)
  BY <1>4, <1>5 DEF W!TestStop, W!LockToTake, W!LockToPut, W!LetGo, W!CountProgress
<1>6. CASE W!Wait(p)
  <2>1. q = p => (~W!BothAvailable(q))'
    BY <1>6 DEF W!Wait, W!BothAvailable
  <2> QED BY <1>4, <1>6, <2>1 DEF W!Wait
<1>7. CASE W!Take(p)
  <2>1. q \in waiting /\ pc[p] = "test" /\ q # p
    BY <1>1, <1>7 DEF W!Take
  <2>2. W!BothAvailable(q)' => W!BothAvailable(q)
    <3>1. \A c \in W!Phils : 
            available'[c] = IF c \in {p, W!right_phil(p)} THEN FALSE ELSE available[c]
      BY <1>1, <1>7, SetBothFlags DEF W!Take
    <3>2. \A c \in W!Phils : available'[c] => available[c]
      BY <3>1
    <3>3. W!left_chop(q) \in W!Phils /\ W!right_chop(q) \in W!Phils
      BY <1>3, Neighbours
    <3> QED BY <3>2, <3>3 DEF W!BothAvailable
  <2>3. W!AboutToWake(q) => W!AboutToWake(q)'
    BY <1>2, <1>3, <2>1, Neighbours DEF W!AboutToWake
  <2> QED BY <1>1, <2>1, <2>2, <2>3 DEF W!NoLostWakeup
<1>8. CASE W!Put(p)
  <2>1. /\ q \in waiting /\ q # p /\ pc'[p] = "signal_left" /\ pc[p] = "put"
    BY <1>1, <1>8 DEF W!Put, W!goto
  <2>2. CASE q \in {W!left_phil(p), W!right_phil(p)}
    BY <2>1, <2>2, Neighbours DEF W!AboutToWake
  <2>3. CASE q \notin {W!left_phil(p), W!right_phil(p)}
    <3>1. \A c \in {q, W!right_phil(q)} : c \notin {p, W!right_phil(p)}
      BY <1>3, <2>1, <2>3, Neighbours
    <3>2. W!BothAvailable(q)' => W!BothAvailable(q)
      <4>1. \A c \in W!Phils \ {p, W!right_phil(p)} : available'[c] = available[c]
        BY <1>1, <1>8, SetBothFlags DEF W!Put
      <4> QED BY <1>3, <3>1, <4>1, Neighbours DEF W!BothAvailable
    <3>3. W!AboutToWake(q) => W!AboutToWake(q)'
      BY <1>2, <1>3, <2>1, Neighbours DEF W!AboutToWake
    <3> QED BY <1>1, <2>1, <3>2, <3>3 DEF W!NoLostWakeup
  <2> QED BY <2>2, <2>3
<1>9. CASE W!SignalLeft(p)
  <2>1. /\ q \in waiting /\ q # W!left_phil(p) /\ pc'[p] = "signal_right"
        /\ available' = available
    BY <1>1, <1>9 DEF W!SignalLeft, W!goto
  <2>2. W!AboutToWake(q) => W!AboutToWake(q)'
    BY <1>2, <1>3, <2>1, Neighbours DEF W!AboutToWake
  <2> QED BY <1>1, <2>1, <2>2 DEF W!NoLostWakeup, W!BothAvailable
<1>10. CASE W!SignalRight(p)
  <2>1. /\ q \in waiting /\ q # W!right_phil(p) /\ pc[p] = "signal_right"
        /\ available' = available
    BY <1>10 DEF W!SignalRight
  <2>2. W!AboutToWake(q) => W!AboutToWake(q)'
    BY <1>2, <1>3, <2>1, Neighbours DEF W!AboutToWake
  <2> QED BY <1>1, <2>1, <2>2 DEF W!NoLostWakeup, W!BothAvailable
<1> QED BY <1>5, <1>6, <1>7, <1>8, <1>9, <1>10 DEF W!PhilStep

\* pthread_cond_wait returning without a signal.
LEMMA SpuriousStep ==
  ASSUME WaiterIInv, NEW p \in W!Phils, W!SpuriousWake(p)
  PROVE  WaiterIInv'
<1> USE DEF WaiterIInv, W!SpuriousWake
<1>1. W!TypeOK' /\ WaiterCreateInv'
  BY DEF W!TypeOK, W!MonitorTypeOK, WaiterCreateInv, W!monitor
<1>2. W!WaiterInv' /\ W!ChopstickInv'
  BY DEF W!WaiterInv, W!ChopstickInv, W!Eating
<1>3. W!NoLostWakeup'
  BY DEF W!NoLostWakeup, W!BothAvailable, W!AboutToWake
<1> QED BY <1>1, <1>2, <1>3

\* The inductive invariant holds throughout.
LEMMA SpecWaiterIInv == W!Spec => []WaiterIInv
<1>1. WaiterIInv /\ [W!Next]_W!vars => WaiterIInv'
  <2> SUFFICES ASSUME WaiterIInv, [W!Next]_W!vars PROVE WaiterIInv'
    OBVIOUS
  <2>1. CASE W!MainStep
    BY <2>1, MainWaiterIInv
  <2>2. ASSUME NEW p \in W!Phils, W!PhilStep(p) PROVE WaiterIInv'
    BY <2>2, PhilTypes, PhilWaiter, PhilChopsticks, PhilWakeups DEF WaiterIInv
  <2>3. ASSUME NEW p \in W!Phils, W!SpuriousWake(p) PROVE WaiterIInv'
    BY <2>3, SpuriousStep
  <2>4. CASE UNCHANGED W!vars
    <3>1. W!TypeOK' /\ WaiterCreateInv'
      BY <2>4 DEF W!vars, W!monitor, WaiterIInv, W!TypeOK, W!MonitorTypeOK,
                  WaiterCreateInv
    <3> QED BY <2>4, <3>1, NobodyMoves DEF W!vars, WaiterIInv
  <2> QED BY <2>1, <2>2, <2>3, <2>4 DEF W!Next, W!Terminated
<1> QED BY <1>1, InitWaiterIInv, PTL DEF W!Spec

-----------------------------------------------------------------------------
\* The flags tell who eats, and neighbours never eat at once, at a table of any
\* size and also after Stop: main() cannot take a chopstick away here.
THEOREM ChopsticksCorrect == W!Spec => []W!ChopstickInv
<1>1. WaiterIInv => W!ChopstickInv
  BY DEF WaiterIInv
<1> QED BY <1>1, SpecWaiterIInv, PTL

\* Signalling both neighbours after every meal is enough.
THEOREM WakeupsCorrect == W!Spec => []W!NoLostWakeup
<1>1. WaiterIInv => W!NoLostWakeup
  BY DEF WaiterIInv
<1> QED BY <1>1, SpecWaiterIInv, PTL

\* Never do all philosophers sleep on their condition variables: nobody would
\* eat, so all chopsticks would be there, and nobody would be about to signal.
THEOREM WaiterNeverStuck == W!Spec => []W!NeverStuck
<1>1. WaiterIInv => W!NeverStuck
  <2> SUFFICES ASSUME WaiterIInv, W!Stuck PROVE FALSE
    BY DEF W!NeverStuck
  <2>1. \A p \in W!Phils : p \in waiting /\ pc[p] = "wait"
    BY DEF WaiterIInv, W!WaiterInv, W!Stuck
  <2>2. 0 \in W!Phils /\ W!left_phil(0) \in W!Phils /\ W!right_phil(0) \in W!Phils
    BY NumPhilsAssumption, Neighbours DEF W!Phils
  <2>3. ~W!AboutToWake(0)
    BY <2>1, <2>2 DEF W!AboutToWake
  <2>4. available[0] /\ available[W!right_phil(0)]
    BY <2>1, <2>2, Neighbours DEF WaiterIInv, W!ChopstickInv, W!Eating
  <2>5. W!BothAvailable(0)
    BY <2>2, <2>4, Neighbours DEF W!BothAvailable
  <2> QED BY <2>1, <2>2, <2>3, <2>5 DEF WaiterIInv, W!NoLostWakeup
<1> QED BY <1>1, SpecWaiterIInv, PTL
=============================================================================
