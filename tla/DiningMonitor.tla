--------------------------- MODULE DiningMonitor ---------------------------
(***************************************************************************)
(* main() of the pthreads_dp programs: it creates the philosopher threads, *)
(* watches their progress in accounting periods, sets Stop, unlocks every  *)
(* chopstick and joins the threads.  The three programs share it; what the *)
(* philosophers do is in DiningPhilosophers and DiningWaiter, which extend *)
(* this module.                                                            *)
(*                                                                         *)
(* A philosopher's prog is only ever compared with zero, so it is a        *)
(* Boolean here.  prog and Stop are read and written without a lock: each  *)
(* access is a step of its own.                                            *)
(***************************************************************************)
EXTENDS Integers

CONSTANTS NUM_PHILS,         \* philosophers, and chopsticks
          ITERATION_LIMIT,   \* accounting periods at most
          Patient            \* does sleep(ACCOUNTING_PERIOD) outlast a meal?

ASSUME NumPhilsAssumption == NUM_PHILS \in Nat /\ NUM_PHILS >= 2
ASSUME LimitAssumption == ITERATION_LIMIT \in Nat \ {0}
ASSUME PatientAssumption == Patient \in BOOLEAN

Phils == 0 .. NUM_PHILS - 1

VARIABLES Stop,     \* tells the philosophers to leave
          prog,     \* who made progress in this accounting period
          pc,       \* where each philosopher is
          at,       \* where main() is
          i,        \* the loop variable of main()
          iter,     \* accounting periods that ended
          deadlock  \* what main() concluded from the last period

monitor == <<at, i, iter, deadlock>>

left_chop(p) == p
right_chop(p) == IF p = 0 THEN NUM_PHILS - 1 ELSE p - 1
left_phil(p) == IF p = NUM_PHILS - 1 THEN 0 ELSE p + 1
right_phil(p) == IF p = 0 THEN NUM_PHILS - 1 ELSE p - 1

MonitorInit == /\ Stop = FALSE
               /\ prog = [p \in Phils |-> FALSE]
               /\ pc = [p \in Phils |-> "new"]
               /\ at = "create"
               /\ i = 0
               /\ iter = 0
               /\ deadlock = FALSE

\* Fault: the loop runs once more.
LoopToLate(label) == IF i < NUM_PHILS THEN i' = i + 1 /\ at' = at
                                      ELSE i' = 0 /\ at' = label

\* One round of a "for (i = 0; i < NUM_PHILS; i++)", then on to label.
LoopTo(label) == IF i + 1 < NUM_PHILS THEN i' = i + 1 /\ at' = at
                                      ELSE i' = 0 /\ at' = label

\* set_table(): a philosopher runs as soon as it is created.
CreatePhil == /\ at = "create"
              /\ pc' = [pc EXCEPT ![i] = "loop"]
              /\ LoopTo("reset")
              /\ UNCHANGED <<Stop, prog, iter, deadlock>>

ResetProg == /\ at = "reset"
             /\ prog' = [prog EXCEPT ![i] = FALSE]
             /\ LoopTo("sleep")
             /\ UNCHANGED <<Stop, pc, iter, deadlock>>

\* sleep(ACCOUNTING_PERIOD); deadlock = 1.  The period has some length, and if
\* Patient it is "a *long* time compared to the time-scale of a philosopher
\* thread": it ends after somebody ate, unless nobody can any more (stuck).
SleepPeriod(stuck) == /\ at = "sleep"
                      /\ Patient => stuck \/ \E p \in Phils : prog[p]
                      /\ at' = "check"
                      /\ deadlock' = TRUE
                      /\ UNCHANGED <<Stop, prog, pc, i, iter>>

CheckProg == /\ at = "check"
             /\ deadlock' = (deadlock /\ ~prog[i])
             /\ LoopTo("decide")
             /\ UNCHANGED <<Stop, prog, pc, iter>>

\* iter++, the loop condition and, behind the loop, Stop = 1.
Decide == /\ at = "decide"
          /\ iter' = iter + 1
          /\ IF ~deadlock /\ iter + 1 < ITERATION_LIMIT
             THEN at' = "reset" /\ Stop' = Stop
             ELSE at' = "unlock" /\ Stop' = TRUE
          /\ UNCHANGED <<prog, pc, i, deadlock>>

\* pthread_join returns for the threads in order.
JoinPhil == /\ at = "join"
            /\ pc[i] = "done"
            /\ LoopTo("done")
            /\ UNCHANGED <<Stop, prog, pc, iter, deadlock>>

MonitorStep(stuck) == \/ CreatePhil \/ ResetProg \/ SleepPeriod(stuck)
                      \/ CheckProg \/ Decide \/ JoinPhil

MonitorLabels == {"create", "reset", "sleep", "check", "decide", "unlock", "join", "done"}

MonitorTypeOK == /\ Stop \in BOOLEAN
                 /\ prog \in [Phils -> BOOLEAN]
                 /\ at \in MonitorLabels
                 /\ i \in Phils
                 /\ iter \in Nat
                 /\ deadlock \in BOOLEAN
=============================================================================
