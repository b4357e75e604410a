------------------------- MODULE DiningPhilosophers -------------------------
(***************************************************************************)
(* pthreads_dp/dining_philosophers.c and dp_asymmetric.c: each chopstick   *)
(* is a mutex.  In the first program everybody locks the left chopstick    *)
(* and then the right one; in the second, philosophers with an odd id lock *)
(* the right one first.  procfs/dine.c has the same two orders under       *)
(* #if DEADLOCK.                                                           *)
(*                                                                         *)
(* main() unlocks chopsticks it did not lock.  The mutexes are of the      *)
(* default kind, on which glibc's unlock just makes the mutex free,        *)
(* whoever holds it, and so it does here.                                  *)
(***************************************************************************)
EXTENDS DiningMonitor

CONSTANTS Asymmetric,  \* TRUE for dp_asymmetric.c, FALSE for dining_philosophers.c
          Nobody       \* the owner of a free chopstick

ASSUME AsymmetricAssumption == Asymmetric \in BOOLEAN
ASSUME NobodyAssumption == Nobody \notin Phils

VARIABLE chopstick     \* who holds each chopstick

vars == <<Stop, prog, pc, monitor, chopstick>>

Init == MonitorInit /\ chopstick = [c \in Phils |-> Nobody]

\* Fault: no id is ever odd.
TakesRightFirstNever(p) == Asymmetric /\ p % 2 = 2

TakesRightFirst(p) == Asymmetric /\ p % 2 = 1

first_chop(p) == IF TakesRightFirst(p) THEN right_chop(p) ELSE left_chop(p)
second_chop(p) == IF TakesRightFirst(p) THEN left_chop(p) ELSE right_chop(p)

goto(p, label) == pc' = [pc EXCEPT ![p] = label]

(***************************************************************************)
(* dp_thread().  Thinking is the time before the first lock, eating the    *)
(* time at "eat" before the first unlock.                                  *)
(***************************************************************************)
\* while (!Stop)
TestStop(p) == /\ pc[p] = "loop"
               /\ goto(p, IF Stop THEN "done" ELSE "first")
               /\ UNCHANGED <<Stop, prog, monitor, chopstick>>

LockFirst(p) == /\ pc[p] = "first"
                /\ chopstick[first_chop(p)] = Nobody
                /\ chopstick' = [chopstick EXCEPT ![first_chop(p)] = p]
                /\ goto(p, "second")
                /\ UNCHANGED <<Stop, prog, monitor>>

\* Fault: pthread_mutex_trylock with its result unchecked.
LockSecondUnchecked(p) == /\ pc[p] = "second"
                          /\ IF chopstick[second_chop(p)] = Nobody
                             THEN chopstick' = [chopstick EXCEPT ![second_chop(p)] = p]
                             ELSE UNCHANGED chopstick
                          /\ goto(p, "eat")
                          /\ UNCHANGED <<Stop, prog, monitor>>

LockSecond(p) == /\ pc[p] = "second"
                 /\ chopstick[second_chop(p)] = Nobody
                 /\ chopstick' = [chopstick EXCEPT ![second_chop(p)] = p]
                 /\ goto(p, "eat")
                 /\ UNCHANGED <<Stop, prog, monitor>>

UnlockRight(p) == /\ pc[p] = "eat"
                  /\ chopstick' = [chopstick EXCEPT ![right_chop(p)] = Nobody]
                  /\ goto(p, "unlock")
                  /\ UNCHANGED <<Stop, prog, monitor>>

\* Fault: the right chopstick is unlocked twice, the left one never.
UnlockRightTwice(p) == /\ pc[p] = "unlock"
                       /\ chopstick' = [chopstick EXCEPT ![right_chop(p)] = Nobody]
                       /\ goto(p, "count")
                       /\ UNCHANGED <<Stop, prog, monitor>>

UnlockLeft(p) == /\ pc[p] = "unlock"
                 /\ chopstick' = [chopstick EXCEPT ![left_chop(p)] = Nobody]
                 /\ goto(p, "count")
                 /\ UNCHANGED <<Stop, prog, monitor>>

\* me->prog++, behind the unlocks.
CountProgress(p) == /\ pc[p] = "count"
                    /\ prog' = [prog EXCEPT ![p] = TRUE]
                    /\ goto(p, "loop")
                    /\ UNCHANGED <<Stop, monitor, chopstick>>

PhilStep(p) == \/ TestStop(p) \/ LockFirst(p) \/ LockSecond(p)
               \/ UnlockRight(p) \/ UnlockLeft(p) \/ CountProgress(p)

\* A philosopher at a pthread_mutex_lock of a chopstick that is not free.
Blocked(p) == \/ pc[p] = "first" /\ chopstick[first_chop(p)] # Nobody
              \/ pc[p] = "second" /\ chopstick[second_chop(p)] # Nobody

Stuck == \A p \in Phils : Blocked(p)

(***************************************************************************)
(* main()'s pthread_mutex_unlock of every chopstick, one after the other.  *)
(***************************************************************************)
ReleaseChopstick == /\ at = "unlock"
                    /\ chopstick' = [chopstick EXCEPT ![i] = Nobody]
                    /\ LoopTo("join")
                    /\ UNCHANGED <<Stop, prog, pc, iter, deadlock>>

MainStep == \/ MonitorStep(Stuck) /\ UNCHANGED chopstick
            \/ ReleaseChopstick

Terminated == at = "done" /\ UNCHANGED vars

Next == MainStep \/ (\E p \in Phils : PhilStep(p)) \/ Terminated

\* Every thread that can run runs; who gets a contended chopstick is open.
Fairness == WF_vars(MainStep) /\ \A p \in Phils : WF_vars(PhilStep(p))

Spec == Init /\ [][Next]_vars

FairSpec == Spec /\ Fairness

(***************************************************************************)
(* Properties.                                                             *)
(***************************************************************************)
PhilLabels == {"new", "loop", "first", "second", "eat", "unlock", "count", "done"}

\* Types and ranges.
TypeOK == /\ MonitorTypeOK
          /\ pc \in [Phils -> PhilLabels]
          /\ chopstick \in [Phils -> Phils \cup {Nobody}]

\* What philosopher p has locked and not unlocked, by its place in the code.
Holds(p) ==
  CASE pc[p] = "second" -> {first_chop(p)}
    [] pc[p] = "eat"    -> {left_chop(p), right_chop(p)}
    [] pc[p] = "unlock" -> {left_chop(p)}
    [] OTHER            -> {}

\* Until main() sets Stop and starts to unlock, a chopstick is held by whom
\* the code believes it is.
OwnerInv == ~Stop => \A p \in Phils, c \in Phils : chopstick[c] = p <=> c \in Holds(p)

\* Neighbours share a chopstick and never eat at the same time, until Stop.
\* (Once main() has unlocked the chopsticks of those who eat, they may.)
Exclusion == ~Stop => \A p \in Phils :
                        ~(pc[p] = "eat" /\ pc[left_phil(p)] = "eat")

\* Lines 152-157 of dp_asymmetric.c: with the order changed for odd ids no
\* circle of philosophers can form, each waiting for the next.
NoCircularWait == Asymmetric /\ ~Stop => ~Stuck

\* Lines 357-360: "Release all locks so philosophers can exit even if they are
\* deadlocked."  Once main() has unlocked the chopsticks, all threads exit and
\* the joins return.
ReleaseLetsExit == at = "join" ~> at = "done"

\* The whole program ends, whatever main() saw of the progress.
Termination == <>(at = "done")
=============================================================================
