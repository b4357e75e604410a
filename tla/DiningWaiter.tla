---------------------------- MODULE DiningWaiter ----------------------------
(***************************************************************************)
(* pthreads_dp/dp_waiter.c: the chopsticks are flags guarded by one mutex, *)
(* the waiter, and each philosopher has a condition variable on which to   *)
(* wait until both of its chopsticks are available.  main() unlocks the    *)
(* chopstick mutexes here too, but no philosopher uses them.               *)
(***************************************************************************)
EXTENDS DiningMonitor

CONSTANT Nobody               \* the owner of the waiter mutex when it is free

ASSUME NobodyAssumption == Nobody \notin Phils

VARIABLES waiter,              \* who holds the waiter mutex
          available,           \* available_chopsticks
          waiting              \* who is blocked on its condition variable can_eat

vars == <<Stop, prog, pc, monitor, waiter, available, waiting>>

Init == /\ MonitorInit
        /\ waiter = Nobody
        /\ available = [c \in Phils |-> TRUE]
        /\ waiting = {}

goto(p, label) == pc' = [pc EXCEPT ![p] = label]

BothAvailable(p) == available[left_chop(p)] /\ available[right_chop(p)]

SetBoth(p, flag) ==
  [available EXCEPT ![left_chop(p)] = flag, ![right_chop(p)] = flag]

(***************************************************************************)
(* dp_thread().                                                            *)
(***************************************************************************)
TestStop(p) == /\ pc[p] = "loop"
               /\ goto(p, IF Stop THEN "done" ELSE "think")
               /\ UNCHANGED <<Stop, prog, monitor, waiter, available, waiting>>

\* The lock after thinking, and the one pthread_cond_wait takes when it returns.
LockToTake(p) == /\ \/ pc[p] = "think"
                    \/ pc[p] = "wait" /\ p \notin waiting
                 /\ waiter = Nobody
                 /\ waiter' = p
                 /\ goto(p, "test")
                 /\ UNCHANGED <<Stop, prog, monitor, available, waiting>>

Wait(p) == /\ pc[p] = "test"
           /\ ~BothAvailable(p)
           /\ waiter' = Nobody
           /\ waiting' = waiting \cup {p}
           /\ goto(p, "wait")
           /\ UNCHANGED <<Stop, prog, monitor, available>>

\* Fault: the first chopstick that is there is enough.
TakeEither(p) == /\ pc[p] = "test"
                 /\ available[left_chop(p)] \/ available[right_chop(p)]
                 /\ available' = SetBoth(p, FALSE)
                 /\ waiter' = Nobody
                 /\ goto(p, "eat")
                 /\ UNCHANGED <<Stop, prog, monitor, waiting>>

\* Take both chopsticks and let the waiter go.
Take(p) == /\ pc[p] = "test"
           /\ BothAvailable(p)
           /\ available' = SetBoth(p, FALSE)
           /\ waiter' = Nobody
           /\ goto(p, "eat")
           /\ UNCHANGED <<Stop, prog, monitor, waiting>>

\* POSIX lets pthread_cond_wait return without a signal.
SpuriousWake(p) == /\ p \in waiting
                   /\ waiting' = waiting \ {p}
                   /\ UNCHANGED <<Stop, prog, pc, monitor, waiter, available>>

LockToPut(p) == /\ pc[p] = "eat"
                /\ waiter = Nobody
                /\ waiter' = p
                /\ goto(p, "put")
                /\ UNCHANGED <<Stop, prog, monitor, available, waiting>>

Put(p) == /\ pc[p] = "put"
          /\ available' = SetBoth(p, TRUE)
          /\ goto(p, "signal_left")
          /\ UNCHANGED <<Stop, prog, monitor, waiter, waiting>>

\* can_eat has one waiter at most: a signal wakes it or is lost.
SignalLeft(p) == /\ pc[p] = "signal_left"
                 /\ waiting' = waiting \ {left_phil(p)}
                 /\ goto(p, "signal_right")
                 /\ UNCHANGED <<Stop, prog, monitor, waiter, available>>

\* Fault: the left neighbour is signalled twice, the right one never.
SignalLeftAgain(p) == /\ pc[p] = "signal_right"
                      /\ waiting' = waiting \ {left_phil(p)}
                      /\ goto(p, "leave")
                      /\ UNCHANGED <<Stop, prog, monitor, waiter, available>>

SignalRight(p) == /\ pc[p] = "signal_right"
                  /\ waiting' = waiting \ {right_phil(p)}
                  /\ goto(p, "leave")
                  /\ UNCHANGED <<Stop, prog, monitor, waiter, available>>

LetGo(p) == /\ pc[p] = "leave"
            /\ waiter' = Nobody
            /\ goto(p, "count")
            /\ UNCHANGED <<Stop, prog, monitor, available, waiting>>

CountProgress(p) == /\ pc[p] = "count"
                    /\ prog' = [prog EXCEPT ![p] = TRUE]
                    /\ goto(p, "loop")
                    /\ UNCHANGED <<Stop, monitor, waiter, available, waiting>>

PhilStep(p) == \/ TestStop(p) \/ LockToTake(p) \/ Wait(p) \/ Take(p)
               \/ LockToPut(p) \/ Put(p) \/ SignalLeft(p) \/ SignalRight(p)
               \/ LetGo(p) \/ CountProgress(p)

(***************************************************************************)
(* main().                                                                 *)
(***************************************************************************)
Stuck == \A p \in Phils : p \in waiting

\* Unlocking the chopstick mutexes, which are not in use.
UnlockUnused == /\ at = "unlock"
                /\ LoopTo("join")
                /\ UNCHANGED <<Stop, prog, pc, iter, deadlock>>

MainStep == /\ MonitorStep(Stuck) \/ UnlockUnused
            /\ UNCHANGED <<waiter, available, waiting>>

Terminated == at = "done" /\ UNCHANGED vars

Next == \/ MainStep
        \/ \E p \in Phils : PhilStep(p) \/ SpuriousWake(p)
        \/ Terminated

\* Every thread that can run runs; the waiter mutex goes to anybody.
Fairness == WF_vars(MainStep) /\ \A p \in Phils : WF_vars(PhilStep(p))

Spec == Init /\ [][Next]_vars

FairSpec == Spec /\ Fairness

(***************************************************************************)
(* Properties.                                                             *)
(***************************************************************************)
PhilLabels == {"new", "loop", "think", "test", "wait", "eat", "put", "signal_left",
               "signal_right", "leave", "count", "done"}

\* Types and ranges.
TypeOK == /\ MonitorTypeOK
          /\ pc \in [Phils -> PhilLabels]
          /\ waiter \in Phils \cup {Nobody}
          /\ available \in [Phils -> BOOLEAN]
          /\ waiting \subseteq Phils

Serving == {"test", "put", "signal_left", "signal_right", "leave"}
Eating(p) == pc[p] \in {"eat", "put"}

\* The waiter serves one philosopher at a time.
WaiterInv == /\ \A p \in Phils : pc[p] \in Serving <=> waiter = p
             /\ \A p \in waiting : pc[p] = "wait"

\* A chopstick is unavailable exactly while one of its two users eats, and
\* never do both.
ChopstickInv == \A c \in Phils :
                  /\ available[c] <=> ~Eating(c) /\ ~Eating(left_phil(c))
                  /\ ~(Eating(c) /\ Eating(left_phil(c)))

\* A neighbour of p has put its chopsticks down and not yet signalled p.
AboutToWake(p) == \/ pc[right_phil(p)] = "signal_left"
                  \/ pc[left_phil(p)] \in {"signal_left", "signal_right"}

\* A philosopher sleeps on can_eat only while it lacks a chopstick, or a
\* neighbour is about to wake it: signalling both neighbours behind every meal
\* is enough, though they may find the other chopstick gone.
NoLostWakeup == \A p \in waiting : ~BothAvailable(p) \/ AboutToWake(p)

\* Somebody can always go on: never do all sleep.
NeverStuck == ~Stuck

\* Waiting needs no main() to end: the program terminates, if spurious wakeups
\* do not go on for ever.
Termination ==
  <>[][\A p \in Phils : ~SpuriousWake(p)]_vars => <>(at = "done")
=============================================================================
