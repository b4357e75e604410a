----------------------------- MODULE Scheduler -----------------------------
(***************************************************************************)
(* scheduler/src/libscheduler/libscheduler.c: the queue of waiting jobs,   *)
(* the idle cores, the jobs on the cores and the accounting.  Each of the  *)
(* three calls the simulator makes is an action with what it returns as a  *)
(* parameter; the schedule's variables are its globals.  A job_t is in one *)
(* place at a time, so it is a record kept where the pointer to it is.     *)
(***************************************************************************)
EXTENDS Integers, Sequences

CONSTANTS Jobs,           \* job numbers
          g_total_cores,
          RunTimes,       \* running times a job may have
          Priorities,     \* priorities a job may have
          NULL            \* no job on a core

ASSUME CoresAssumption == g_total_cores \in Nat \ {0}
ASSUME JobsAssumption == Jobs \subseteq Nat
ASSUME RunTimesAssumption == RunTimes \subseteq Nat \ {0}
ASSUME PrioritiesAssumption == Priorities \subseteq Int

Cores == 0 .. g_total_cores - 1

Schemes == {"FCFS", "SJF", "PSJF", "PRI", "PPRI", "RR"}

VARIABLES g_scheme,
          g_job_queue,    \* waiting jobs, the next one first
          g_idle_cores,   \* the cores in that queue; its head is the least one
          g_running_jobs, \* the job on each core
          total,          \* jobs, waiting, turnaround and response time
          time            \* the simulator's clock, an argument of every call

schedule == <<g_scheme, g_job_queue, g_idle_cores, g_running_jobs, total>>

new_job(id, priority, running_time) ==
  [job_id             |-> id,
   priority           |-> priority,
   arrival_time       |-> time,
   start_time         |-> -1,
   latest_queue_time  |-> -1,
   latest_update_time |-> -1,
   running_time       |-> running_time,
   remaining_time     |-> running_time]

(***************************************************************************)
(* The comparison functions, and the order they give the waiting jobs.     *)
(***************************************************************************)
job_compare_fcfs(j1, j2) ==
  IF j1.latest_queue_time = j2.latest_queue_time
  THEN 1 ELSE j1.latest_queue_time - j2.latest_queue_time

job_compare_sjf(j1, j2) ==
  IF j1.remaining_time = j2.remaining_time
  THEN j1.arrival_time - j2.arrival_time
  ELSE j1.remaining_time - j2.remaining_time

job_compare_pri(j1, j2) ==
  IF j1.priority = j2.priority
  THEN j1.arrival_time - j2.arrival_time
  ELSE j1.priority - j2.priority

job_compare(j1, j2) ==
  IF g_scheme \in {"FCFS", "RR"} THEN job_compare_fcfs(j1, j2)
  ELSE IF g_scheme \in {"PRI", "PPRI"} THEN job_compare_pri(j1, j2)
       ELSE job_compare_sjf(j1, j2)

\* priqueue_offer() on g_job_queue is Order!Insert, priqueue_poll() takes the head.
Order == INSTANCE PriorityOrder WITH compare <- job_compare

(***************************************************************************)
(* scheduler_start_up()                                                    *)
(***************************************************************************)
SchedInit == /\ g_scheme \in Schemes
             /\ g_job_queue = <<>>
             /\ g_idle_cores = Cores
             /\ g_running_jobs = [c \in Cores |-> NULL]
             /\ total = [jobs |-> 0, waiting |-> 0, turnaround |-> 0, response |-> 0]

(***************************************************************************)
(* Steps several calls share.                                              *)
(***************************************************************************)
\* What schedule_job() sets in a job that gets a core.
Started(j) == [j EXCEPT !.start_time = IF j.start_time = -1 THEN time ELSE j.start_time,
                        !.latest_update_time = time]

\* Fault: the time since the last start is taken off every time.
UpdatedTwice(j) == [j EXCEPT !.remaining_time = @ - (time - j.latest_update_time)]

\* update_remaining_time()
Updated(j) == [j EXCEPT !.remaining_time = @ - (time - j.latest_update_time),
                        !.latest_update_time = time]

\* Fault: a job that got its core in this time unit keeps its start time.
QueuedAgainKeepStart(j) == [Updated(j) EXCEPT !.latest_queue_time = time]

\* What unschedule_job() sets in a job that loses its core.  One that got the
\* core in this same time unit has not run on it.
QueuedAgain(j) == [Updated(j) EXCEPT
                     !.start_time = IF j.start_time = time THEN -1 ELSE j.start_time,
                     !.latest_queue_time = time]

\* Fault: jobs are taken from the end of the queue.
schedule_last_job(queue, core, ret) ==
  IF queue = <<>>
  THEN /\ g_job_queue' = queue
       /\ g_running_jobs' = [g_running_jobs EXCEPT ![core] = NULL]
       /\ g_idle_cores' = g_idle_cores \cup {core}
       /\ ret = -1
  ELSE /\ g_job_queue' = SubSeq(queue, 1, Len(queue) - 1)
       /\ g_running_jobs' = [g_running_jobs EXCEPT ![core] = Started(queue[Len(queue)])]
       /\ UNCHANGED g_idle_cores
       /\ ret = queue[Len(queue)].job_id

\* schedule_next_job() for a core that was given up, with queue as the queue.
schedule_next_job(queue, core, ret) ==
  IF queue = <<>>
  THEN /\ g_job_queue' = queue
       /\ g_running_jobs' = [g_running_jobs EXCEPT ![core] = NULL]
       /\ g_idle_cores' = g_idle_cores \cup {core}
       /\ ret = -1
  ELSE /\ g_job_queue' = Tail(queue)
       /\ g_running_jobs' = [g_running_jobs EXCEPT ![core] = Started(Head(queue))]
       /\ UNCHANGED g_idle_cores
       /\ ret = Head(queue).job_id

(***************************************************************************)
(* scheduler_new_job(): the job gets the idle core with the lowest id, or  *)
(* under PSJF and PPRI the core of the least important job if that is less *)
(* important, or it waits.                                                 *)
(***************************************************************************)
\* Fault: priqueue_peek() where priqueue_poll() is meant.
NewJobStartsPeek(j, core) ==
  /\ core \in g_idle_cores
  /\ \A c \in g_idle_cores : core <= c
  /\ g_running_jobs' = [g_running_jobs EXCEPT ![core] = Started(j)]
  /\ UNCHANGED <<g_scheme, g_job_queue, g_idle_cores, total>>

NewJobStarts(j, core) ==
  /\ core \in g_idle_cores
  /\ \A c \in g_idle_cores : core <= c
  /\ g_idle_cores' = g_idle_cores \ {core}
  /\ g_running_jobs' = [g_running_jobs EXCEPT ![core] = Started(j)]
  /\ UNCHANGED <<g_scheme, g_job_queue, total>>

Preemptive == g_scheme \in {"PSJF", "PPRI"}

\* The running jobs as scheduler_new_job() brings them up to date.
UpToDate == IF Preemptive THEN [c \in Cores |-> Updated(g_running_jobs[c])]
                          ELSE g_running_jobs

\* The core the search for the least important job ends at: the first one of
\* those whose job nothing that runs is less important than.
LeastImportant(running, core) ==
  \A c \in Cores : /\ job_compare(running[c], running[core]) <= 0
                   /\ c < core => job_compare(running[c], running[core]) < 0

NewJobPreempts(j, core) ==
  /\ g_idle_cores = {}
  /\ Preemptive
  /\ core \in Cores
  /\ LeastImportant(UpToDate, core)
  /\ job_compare(j, UpToDate[core]) < 0
  /\ g_job_queue' = Order!Insert(g_job_queue, QueuedAgain(UpToDate[core]))
  /\ g_running_jobs' = [UpToDate EXCEPT ![core] = Started(j)]
  /\ UNCHANGED <<g_scheme, g_idle_cores, total>>

NewJobWaits(j, ret) ==
  /\ g_idle_cores = {}
  /\ Preemptive => \E core \in Cores : /\ LeastImportant(UpToDate, core)
                                       /\ job_compare(j, UpToDate[core]) >= 0
  /\ g_running_jobs' = UpToDate
  /\ g_job_queue' = Order!Insert(g_job_queue, [j EXCEPT !.latest_queue_time = time])
  /\ ret = -1
  /\ UNCHANGED <<g_scheme, g_idle_cores, total>>

scheduler_new_job(id, running_time, priority, ret) ==
  LET j == new_job(id, priority, running_time)
  IN \/ NewJobStarts(j, ret) \/ NewJobPreempts(j, ret) \/ NewJobWaits(j, ret)

(***************************************************************************)
(* The calls that take a job off its core.  Both assume that there is one. *)
(***************************************************************************)
Account(j) ==
  [jobs       |-> total.jobs + 1,
   turnaround |-> total.turnaround + (time - j.arrival_time),
   waiting    |-> total.waiting + (time - j.arrival_time - j.running_time),
   response   |-> total.response + (j.start_time - j.arrival_time)]

scheduler_job_finished(core, ret) ==
  /\ g_running_jobs[core] # NULL
  /\ total' = Account(g_running_jobs[core])
  /\ schedule_next_job(g_job_queue, core, ret)
  /\ UNCHANGED g_scheme

scheduler_quantum_expired(core, ret) ==
  /\ g_running_jobs[core] # NULL
  /\ LET j == [g_running_jobs[core] EXCEPT !.latest_queue_time = time]
     IN schedule_next_job(Order!Insert(g_job_queue, j), core, ret)
  /\ UNCHANGED <<g_scheme, total>>

(***************************************************************************)
(* The scheduler with any caller that keeps libscheduler.h's rules: job    *)
(* numbers are unique, only a running job finishes, quanta expire only     *)
(* under RR, and time never goes back.                                     *)
(***************************************************************************)
Waiting == {g_job_queue[k] : k \in 1 .. Len(g_job_queue)}

Running == {g_running_jobs[c] : c \in Cores} \ {NULL}

LiveIds == {j.job_id : j \in Waiting \cup Running}

Tick == time' = time + 1 /\ UNCHANGED schedule

Call == /\ \/ \E id \in Jobs \ LiveIds, r \in RunTimes, p \in Priorities,
                 ret \in Cores \cup {-1} : scheduler_new_job(id, r, p, ret)
           \/ \E core \in Cores, ret \in Jobs \cup {-1} : scheduler_job_finished(core, ret)
           \/ /\ g_scheme = "RR"
              /\ \E core \in Cores, ret \in Jobs \cup {-1} : scheduler_quantum_expired(core, ret)
        /\ UNCHANGED time

SchedSpec == SchedInit /\ time = 0 /\ [][Tick \/ Call]_<<schedule, time>>

(***************************************************************************)
(* Properties.                                                             *)
(***************************************************************************)
Job == [job_id : Jobs, priority : Priorities, arrival_time : Nat,
        start_time : Nat \cup {-1}, latest_queue_time : Nat \cup {-1},
        latest_update_time : Nat \cup {-1}, running_time : RunTimes,
        remaining_time : Int]

ASSUME NullAssumption == NULL \notin Job

\* Types and ranges.
SchedTypeOK == /\ g_scheme \in Schemes
               /\ g_job_queue \in Seq(Job)
               /\ g_idle_cores \subseteq Cores
               /\ g_running_jobs \in [Cores -> Job \cup {NULL}]
               /\ total \in [jobs : Nat, waiting : Int, turnaround : Int, response : Int]
               /\ time \in Nat

\* The queue of idle cores and the array of running jobs, which no call checks
\* against each other, agree; no core is idle while a job waits; and no job is
\* in two places, so none is scheduled or freed twice.
CoresInv ==
  /\ \A c \in Cores : c \in g_idle_cores <=> g_running_jobs[c] = NULL
  /\ g_idle_cores # {} => g_job_queue = <<>>
  /\ \A c, d \in Cores : g_running_jobs[c] # NULL /\ c # d
                           => /\ g_running_jobs[d] # NULL
                                   => g_running_jobs[c].job_id # g_running_jobs[d].job_id
  /\ \A k, l \in 1 .. Len(g_job_queue) :
        k # l => g_job_queue[k].job_id # g_job_queue[l].job_id
  /\ \A c \in Cores, k \in 1 .. Len(g_job_queue) :
        g_running_jobs[c] # NULL => g_running_jobs[c].job_id # g_job_queue[k].job_id

\* The waiting jobs stand in the order of the scheme although they were offered
\* at different times, some with a remaining time that changed since they came.
QueueInOrder == Order!Sorted(g_job_queue)

\* Preemption is complete: under PSJF and PPRI no waiting job is more important
\* than a running one, whatever their order of arrival and whichever finished.
ImportantFirst == Preemptive =>
  \A w \in Waiting, r \in Running : job_compare(r, w) <= 0

\* First come, first served: under FCFS and RR no job gets its first time unit
\* before one that arrived earlier does.
FirstComeFirst == g_scheme \in {"FCFS", "RR"} =>
  \A a, b \in Waiting \cup Running :
    a.arrival_time < b.arrival_time /\ b.start_time # -1
      => a.start_time # -1 /\ a.start_time <= b.start_time
=============================================================================
