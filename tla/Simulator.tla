----------------------------- MODULE Simulator -----------------------------
(***************************************************************************)
(* scheduler/src/simulator.c: main()'s loop over time units, calling the   *)
(* scheduler for jobs that finish, quanta that expire and jobs that        *)
(* arrive.  It keeps its own table of which job is on which core, by what  *)
(* the calls return.  A call of the scheduler is one step.                 *)
(***************************************************************************)
EXTENDS Scheduler, SequencesExt, FiniteSetsExt

CONSTANTS NumJobs,      \* jobs in the input file
          Lines,        \* lines it may consist of
          Quanta        \* quanta the option -s RR# can give

\* Nobody checks that running times are positive: a job without one never runs,
\* or is reported finished on core -1 when it has not arrived.
ASSUME InputAssumption ==
  /\ NumJobs \in Nat \ {0}
  /\ Jobs = 0 .. NumJobs - 1
  /\ Lines \subseteq [arrival_time : Nat, run_time : RunTimes, priority : Priorities]
  /\ Quanta \subseteq Nat \ {0}

VARIABLES jobs,          \* the jobs not finished yet
          jobs_alive,    \* how many of them arrived
          quantum,
          quantum_clock, \* time units left to each core
          at,            \* where in the loop main() is
          i,             \* its loop variable
          file,          \* the input file
          waited,        \* history: time units each job was there and did not run
          idled          \* history: the same, before it ran for the first time

table == <<jobs, jobs_alive, quantum, quantum_clock>>
history == <<file, waited, idled>>
vars == <<schedule, time, table, at, i, history>>

active_jobs == Len(jobs)

Init == /\ file \in [Jobs -> Lines]
        /\ jobs = [k \in 1 .. NumJobs |->
                     [job_id |-> k - 1, arrival_time |-> file[k - 1].arrival_time,
                      run_time |-> file[k - 1].run_time, priority |-> file[k - 1].priority,
                      core_id |-> -1, arrived |-> FALSE]]
        /\ SchedInit
        /\ time = 0
        /\ jobs_alive = 0
        /\ quantum \in IF g_scheme = "RR" THEN Quanta ELSE {0}
        /\ quantum_clock = [c \in Cores |-> -1]
        /\ at = "finish" /\ i = 1
        /\ waited = [id \in Jobs |-> 0]
        /\ idled = [id \in Jobs |-> 0]

goto(label) == at' = label /\ i' = 1

\* Fault: the job is found and not told.
set_active_job_not(list, id, core) == list

\* set_active_job() finds the job that the scheduler wants on the core.
set_active_job(list, id, core) ==
  [k \in DOMAIN list |-> IF list[k].job_id = id /\ list[k].arrived
                         THEN [list[k] EXCEPT !.core_id = core] ELSE list[k]]

Knows(list, id) == \E k \in DOMAIN list : list[k].job_id = id /\ list[k].arrived

\* The job table after a call returned id for core; "invalid job" ends main().
Assign(list, id, core, next) ==
  IF id # -1 /\ ~Knows(list, id)
  THEN jobs' = list /\ at' = "failed" /\ i' = i
  ELSE jobs' = set_active_job(list, id, core) /\ at' = at /\ i' = next

\* The first index from i on that the loop body is for.
IsNext(k, Body(_)) == Body(k) /\ \A l \in i .. k - 1 : ~Body(l)

(***************************************************************************)
(* 1. Jobs that finished: the last job of the table takes the place, which *)
(* is looked at again.                                                     *)
(***************************************************************************)
Finished(k) == jobs[k].run_time = 0

\* Fault: the job moved into the place is passed over.
FinishJobSkip ==
  /\ at = "finish"
  /\ \E k \in i .. active_jobs : IsNext(k, Finished) /\
       \E new \in Jobs \cup {-1} :
         /\ scheduler_job_finished(jobs[k].core_id, new)
         /\ quantum_clock' = IF g_scheme = "RR"
                             THEN [quantum_clock EXCEPT ![jobs[k].core_id] = quantum]
                             ELSE quantum_clock
         /\ Assign(Front([jobs EXCEPT ![k] = Last(jobs)]), new, jobs[k].core_id, k + 1)
  /\ jobs_alive' = jobs_alive - 1
  /\ UNCHANGED <<time, quantum, history>>

FinishJob ==
  /\ at = "finish"
  /\ \E k \in i .. active_jobs : IsNext(k, Finished) /\
       \E new \in Jobs \cup {-1} :
         /\ scheduler_job_finished(jobs[k].core_id, new)
         /\ quantum_clock' = IF g_scheme = "RR"
                             THEN [quantum_clock EXCEPT ![jobs[k].core_id] = quantum]
                             ELSE quantum_clock
         /\ Assign(Front([jobs EXCEPT ![k] = Last(jobs)]), new, jobs[k].core_id, k)
  /\ jobs_alive' = jobs_alive - 1
  /\ UNCHANGED <<time, quantum, history>>

FinishDone == /\ at = "finish"
              /\ \A k \in i .. active_jobs : ~Finished(k)
              /\ goto(IF active_jobs = 0 THEN "done"
                      ELSE IF g_scheme = "RR" THEN "quantum" ELSE "arrive")
              /\ UNCHANGED <<schedule, time, table, history>>

(***************************************************************************)
(* 2. Quanta that expired; i - 1 is the core.                              *)
(***************************************************************************)
Expired(k) == /\ quantum_clock[k - 1] = 0
              /\ \E l \in 1 .. active_jobs : jobs[l].core_id = k - 1

QuantumExpires ==
  /\ at = "quantum"
  /\ \E k \in i .. g_total_cores : IsNext(k, Expired) /\
       \E l \in 1 .. active_jobs, new \in Jobs \cup {-1} :
         /\ jobs[l].core_id = k - 1
         /\ scheduler_quantum_expired(k - 1, new)
         /\ quantum_clock' = [quantum_clock EXCEPT ![k - 1] = quantum]
         /\ Assign([jobs EXCEPT ![l].core_id = -1], new, k - 1, k + 1)
  /\ UNCHANGED <<time, jobs_alive, quantum, history>>

QuantaDone == /\ at = "quantum"
              /\ \A k \in i .. g_total_cores : ~Expired(k)
              /\ goto("arrive")
              /\ UNCHANGED <<schedule, time, table, history>>

(***************************************************************************)
(* 3. Jobs that arrive; who had the core of one loses it.                  *)
(***************************************************************************)
\* Fault: a job that has arrived arrives again.
ArrivesAgain(k) == jobs[k].arrival_time <= time

Arrives(k) == jobs[k].arrival_time = time

JobArrives ==
  /\ at = "arrive"
  /\ \E k \in i .. active_jobs : IsNext(k, Arrives) /\
       \E core \in Cores \cup {-1} :
         /\ scheduler_new_job(jobs[k].job_id, jobs[k].run_time, jobs[k].priority, core)
         /\ jobs' = [l \in 1 .. active_jobs |->
                       IF l = k THEN [jobs[k] EXCEPT !.arrived = TRUE, !.core_id = core]
                       ELSE IF core # -1 /\ jobs[l].core_id = core
                            THEN [jobs[l] EXCEPT !.core_id = -1] ELSE jobs[l]]
         /\ quantum_clock' = IF core # -1 /\ g_scheme = "RR"
                             THEN [quantum_clock EXCEPT ![core] = quantum]
                             ELSE quantum_clock
         /\ i' = k + 1
  /\ jobs_alive' = jobs_alive + 1
  /\ UNCHANGED <<time, quantum, at, history>>

ArrivalsDone == /\ at = "arrive"
                /\ \A k \in i .. active_jobs : ~Arrives(k)
                /\ goto("run")
                /\ UNCHANGED <<schedule, time, table, history>>

(***************************************************************************)
(* 4. The time unit; 6. the sanity check; 7. time++.                       *)
(***************************************************************************)
OnCore(c) == {k \in 1 .. active_jobs : jobs[k].core_id = c}

\* assert() and the sanity check.
Sane == /\ \A c \in Cores : Cardinality(OnCore(c)) <= 1
        /\ jobs_alive > 0 => \E c \in Cores : OnCore(c) # {}

Idle(id) == \E k \in 1 .. active_jobs : /\ jobs[k].job_id = id
                                        /\ jobs[k].arrived
                                        /\ jobs[k].core_id = -1

HasRun(id) == \A k \in 1 .. active_jobs :
                jobs[k].job_id = id => jobs[k].run_time < file[id].run_time

RunUnit ==
  /\ at = "run"
  /\ jobs' = [k \in 1 .. active_jobs |->
                [jobs[k] EXCEPT !.run_time = IF jobs[k].core_id # -1 THEN @ - 1 ELSE @]]
  /\ quantum_clock' = [c \in Cores |-> IF OnCore(c) # {} THEN quantum_clock[c] - 1
                                                          ELSE quantum_clock[c]]
  /\ waited' = [id \in Jobs |-> waited[id] + (IF Idle(id) THEN 1 ELSE 0)]
  /\ idled' = [id \in Jobs |-> idled[id] + (IF Idle(id) /\ ~HasRun(id) THEN 1 ELSE 0)]
  /\ IF Sane THEN time' = time + 1 /\ goto("finish")
             ELSE time' = time /\ at' = "failed" /\ i' = i
  /\ UNCHANGED <<schedule, jobs_alive, quantum, file>>

Terminated == at \in {"done", "failed"} /\ UNCHANGED vars

Step == \/ FinishJob \/ FinishDone \/ QuantumExpires \/ QuantaDone
        \/ JobArrives \/ ArrivalsDone \/ RunUnit

Next == Step \/ Terminated

Spec == Init /\ [][Next]_vars

\* One thread, which nothing stops.
FairSpec == Spec /\ WF_vars(Step)

(***************************************************************************)
(* Properties.                                                             *)
(***************************************************************************)
\* Types and ranges.
TypeOK == /\ SchedTypeOK
          /\ jobs_alive \in 0 .. NumJobs
          /\ \A k \in 1 .. active_jobs : /\ jobs[k].core_id \in Cores \cup {-1}
                                         /\ jobs[k].run_time \in Nat
          /\ quantum_clock \in [Cores -> Int]

\* The simulator's table, kept from return values, and the scheduler's array
\* say the same of every core after every call.
SameCores == at # "failed" =>
  \A c \in Cores, id \in Jobs :
    (\E k \in OnCore(c) : jobs[k].job_id = id)
      <=> (g_running_jobs[c] # NULL /\ g_running_jobs[c].job_id = id)

\* What the scheduler believes a job has left is what the simulator has left of
\* it, for jobs that wait or are compared under PSJF.
RemainingTime == g_scheme = "PSJF" =>
  \A k \in 1 .. active_jobs :
    /\ \A w \in Waiting : w.job_id = jobs[k].job_id => w.remaining_time = jobs[k].run_time
    /\ \A r \in Running : r.job_id = jobs[k].job_id
         => r.remaining_time - (time - r.latest_update_time) = jobs[k].run_time

FinishedJobs == {id \in Jobs : \A k \in 1 .. active_jobs : jobs[k].job_id # id}

\* The totals the averages are computed from are the sums of the time units the
\* finished jobs did wait, and did wait before they first ran.
Accounting ==
  /\ total.jobs = Cardinality(FinishedJobs)
  /\ total.waiting = MapThenSumSet(LAMBDA id : waited[id], FinishedJobs)
  /\ total.response = MapThenSumSet(LAMBDA id : idled[id], FinishedJobs)
  /\ total.turnaround = MapThenSumSet(LAMBDA id : waited[id] + file[id].run_time, FinishedJobs)

\* Every call the simulator makes keeps the scheduler's rules.
ImplementsScheduler == SchedSpec

\* All jobs finish, in whatever order and however often they are preempted: main()
\* never ends in one of its complaints, that the scheduler selected an invalid job
\* or that "All cores are idle and at least one job remains unscheduled".
Termination == <>(at = "done")
=============================================================================
