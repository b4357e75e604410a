----------------------------- MODULE QuashJobs ------------------------------
(***************************************************************************)
(* Job control of the quash shell (quash/src/execute.c): run_script polls  *)
(* the background jobs, creates the processes of the script, and waits for *)
(* them or files them as a new background job; kill signals a job's pids.  *)
(*                                                                         *)
(* The kernel's process table is the environment: a process exits at any   *)
(* moment, stays a zombie until waited for, and then its pid is free for   *)
(* another process, of quash or of somebody else.  Every waitpid, fork and *)
(* kill is a step of its own.  Pid deques are sequences; the deque of jobs *)
(* is the ring of Deque, because quash rotates it.                         *)
(***************************************************************************)
EXTENDS Deque

CONSTANTS Pids,          \* the pids there are, positive numbers
          Scripts,       \* the scripts the user may enter, sequences of commands
          MaxScripts,    \* scripts entered at most (bounds the run)
          ForkMayFail    \* may fork() fail?

\* run_script() returns at once from a script without commands.
Commands == [kind : STRING, job : Int]
ASSUME ScriptsAssumption == \A s \in Scripts : s \in Seq(Commands) /\ s # <<>>
ASSUME PidsAssumption == Pids \subseteq Nat \ {0}
ASSUME BoundsAssumption == MaxScripts \in Nat /\ ForkMayFail \in BOOLEAN

VARIABLES proc,         \* pid -> its process, see Processes
          current_job,  \* pids of the script being run
          bg_jobs,      \* the background jobs
          script,       \* commands still to be created
          background,   \* does the script end in "&"?
          count,        \* scripts entered so far; names the script being run
          at,           \* where run_script is
          k,            \* jobs left in the loop over bg_jobs
          job,          \* the job popped by that loop
          pids          \* its pids still to be polled or signalled

shell == <<current_job, bg_jobs, script, background, count, at, k, job, pids>>
vars == <<proc, shell>>

FAILED == -1     \* what fork() returns when it fails

Job == [job_id : Nat, pid_list : Seq(Pids \cup {FAILED}), owner : Nat]

\* No job, and what a cell of bg_jobs without one holds.
NoJob == Garbage
ASSUME NoJobAssumption == NoJob \notin Job

\* A process: owner is the script it was forked for, 0 for one that is not quash's.
Free == [state |-> "free", owner |-> 0]
Process(state, owner) == [state |-> state, owner |-> owner]

Init == /\ proc = [p \in Pids |-> Free]
        /\ current_job = <<>>
        /\ bg_jobs = new(1)
        /\ script = <<>>
        /\ background = FALSE
        /\ count = 0
        /\ at = "prompt"
        /\ k = 0
        /\ job = NoJob
        /\ pids = <<>>

(***************************************************************************)
(* The kernel.                                                             *)
(***************************************************************************)
Children == {p \in Pids : proc[p].state # "free" /\ proc[p].owner # 0}

\* The children waitpid(pid) is about; -1 stands for all of them.
WaitedFor(pid) == IF pid = -1 THEN Children ELSE Children \cap {pid}

\* waitpid(pid, &status, WNOHANG) returns 0; without WNOHANG it blocks.
StillRunning(pid) == /\ WaitedFor(pid) # {}
                     /\ \A p \in WaitedFor(pid) : proc[p].state = "running"

\* waitpid(pid) returns a child it reaped, or -1 when there is none to wait for.
Waitpid(pid) == \/ \E p \in WaitedFor(pid) : /\ proc[p].state = "zombie"
                                             /\ proc' = [proc EXCEPT ![p] = Free]
                \/ WaitedFor(pid) = {} /\ UNCHANGED proc

\* A process ends; only a child of a living quash becomes a zombie.
Exits(p) == /\ proc[p].state = "running"
            /\ proc' = [proc EXCEPT ![p] = IF @.owner = 0 \/ at = "done" THEN Free
                                           ELSE Process("zombie", @.owner)]
            /\ UNCHANGED shell

\* A process that is not quash's gets a free pid.
Starts(p) == /\ proc[p].state = "free"
             /\ proc' = [proc EXCEPT ![p] = Process("running", 0)]
             /\ UNCHANGED shell

\* Who receives kill(pid): every process for -1.
Receivers(pid) == {p \in Pids : (pid = -1 \/ p = pid) /\ proc[p].state # "free"}

\* kill(pid, sig): the signal ends its receivers, or they ignore it.
Kill(pid) == \E ended \in {{}, {p \in Receivers(pid) : proc[p].state = "running"}} :
               proc' = [p \in Pids |-> IF p \notin ended THEN proc[p]
                                       ELSE IF proc[p].owner = 0 THEN Free
                                       ELSE Process("zombie", proc[p].owner)]

(***************************************************************************)
(* check_jobs_bg_status                                                    *)
(***************************************************************************)
\* main() reads a line; run_script starts with check_jobs_bg_status().
EnterScript(s, bg) == /\ at = "prompt"
                      /\ count < MaxScripts
                      /\ count' = count + 1
                      /\ script' = s
                      /\ background' = bg
                      /\ k' = length(bg_jobs)
                      /\ at' = "check"
                      /\ UNCHANGED <<proc, current_job, bg_jobs, job, pids>>

CheckJob == /\ at = "check" /\ k > 0
            /\ job' = peek_front(bg_jobs)
            /\ pids' = job'.pid_list
            /\ bg_jobs' = pop_front(bg_jobs)
            /\ at' = "poll"
            /\ UNCHANGED <<proc, current_job, script, background, count, k>>

\* The loop over the jobs goes on without the job, or with it at the end.
Forget(back_to) == bg_jobs' = bg_jobs /\ job' = NoJob /\ k' = k - 1 /\ at' = back_to
Keep(back_to) == /\ bg_jobs' = push_back(bg_jobs, job)
                 /\ job' = NoJob /\ k' = k - 1 /\ at' = back_to

PollRunning == /\ at = "poll"
               /\ StillRunning(Head(pids))
               /\ Keep("check")
               /\ pids' = <<>>
               /\ UNCHANGED <<proc, current_job, script, background, count>>

\* Fault: one process that has ended makes the job complete.
PollEndedAny == /\ at = "poll"
                /\ Waitpid(Head(pids))
                /\ pids' = <<>>
                /\ Forget("check")
                /\ UNCHANGED <<current_job, script, background, count>>

\* After the last pid the job is complete: it is printed and destroyed.
PollEnded == /\ at = "poll"
             /\ Waitpid(Head(pids))
             /\ pids' = Tail(pids)
             /\ IF Len(pids) = 1 THEN Forget("check") ELSE UNCHANGED <<bg_jobs, job, k, at>>
             /\ UNCHANGED <<current_job, script, background, count>>

IsExit == Len(script) = 1 /\ script[1].kind = "exit"

\* "exit" alone ends the main loop: quash exits, the atexit handler destroys
\* the deques and the system adopts and reaps the children.
Exit == /\ at = "check" /\ k = 0
        /\ IsExit
        /\ bg_jobs' = new(1)
        /\ proc' = [p \in Pids |-> IF proc[p].state = "zombie" THEN Free ELSE proc[p]]
        /\ at' = "done"
        /\ UNCHANGED <<current_job, script, background, count, k, job, pids>>

Checked == /\ at = "check" /\ k = 0
           /\ ~IsExit
           /\ at' = "create"
           /\ UNCHANGED <<proc, current_job, bg_jobs, script, background, count, k, job, pids>>

(***************************************************************************)
(* create_process and run_kill                                             *)
(***************************************************************************)
Fork == /\ at = "create" /\ script # <<>>
        /\ \/ \E p \in Pids : /\ proc[p].state = "free"
                              /\ proc' = [proc EXCEPT ![p] = Process("running", count)]
                              /\ current_job' = Append(current_job, p)
           \/ /\ ForkMayFail
              /\ current_job' = Append(current_job, FAILED)
              /\ UNCHANGED proc
        /\ at' = "parent"
        /\ UNCHANGED <<bg_jobs, script, background, count, k, job, pids>>

\* parent_run_command: of these commands only kill does anything in quash.
ParentRuns == /\ at = "parent"
              /\ IF Head(script).kind = "kill"
                 THEN at' = "kill" /\ k' = length(bg_jobs) /\ script' = script
                 ELSE at' = "create" /\ k' = k /\ script' = Tail(script)
              /\ UNCHANGED <<proc, current_job, bg_jobs, background, count, job, pids>>

\* A job with another id goes straight back.
KillSkipsJob == /\ at = "kill" /\ k > 0
                /\ peek_front(bg_jobs).job_id # Head(script).job
                /\ bg_jobs' = push_back(pop_front(bg_jobs), peek_front(bg_jobs))
                /\ k' = k - 1
                /\ UNCHANGED <<proc, current_job, script, background, count, at, job, pids>>

KillJob == /\ at = "kill" /\ k > 0
           /\ peek_front(bg_jobs).job_id = Head(script).job
           /\ job' = peek_front(bg_jobs)
           /\ pids' = job'.pid_list
           /\ bg_jobs' = pop_front(bg_jobs)
           /\ at' = "signal"
           /\ UNCHANGED <<proc, current_job, script, background, count, k>>

\* Fault: the loop ends with the job it looked for.
SignalAndBreak == /\ at = "signal"
                  /\ Kill(Head(pids))
                  /\ pids' = Tail(pids)
                  /\ IF Len(pids) = 1
                     THEN /\ bg_jobs' = push_back(bg_jobs, job)
                          /\ job' = NoJob /\ k' = 0 /\ at' = "kill"
                     ELSE UNCHANGED <<bg_jobs, job, k, at>>
                  /\ UNCHANGED <<current_job, script, background, count>>

\* One kill(); after the last the job goes back to the queue.
Signal == /\ at = "signal"
          /\ Kill(Head(pids))
          /\ pids' = Tail(pids)
          /\ IF Len(pids) = 1 THEN Keep("kill") ELSE UNCHANGED <<bg_jobs, job, k, at>>
          /\ UNCHANGED <<current_job, script, background, count>>

KillReturns == /\ at = "kill" /\ k = 0
               /\ script' = Tail(script)
               /\ at' = "create"
               /\ UNCHANGED <<proc, current_job, bg_jobs, background, count, k, job, pids>>

(***************************************************************************)
(* The end of run_script                                                   *)
(***************************************************************************)
get_next_job_number == IF is_empty(bg_jobs) THEN 1 ELSE peek_back(bg_jobs).job_id + 1

\* owner is not in the code: it names the script, to tell processes apart.
create_job(job_id, list) == [job_id |-> job_id, pid_list |-> list, owner |-> count]

FileJob == /\ at = "create" /\ script = <<>> /\ background
           /\ bg_jobs' = push_back(bg_jobs, create_job(get_next_job_number, current_job))
           /\ current_job' = <<>>
           /\ at' = "prompt"
           /\ UNCHANGED <<proc, script, background, count, k, job, pids>>

StartWaiting == /\ at = "create" /\ script = <<>> /\ ~background
                /\ at' = "wait"
                /\ UNCHANGED <<proc, current_job, bg_jobs, script, background, count, k, job, pids>>

\* Fault: a waitpid() that fails is tried again.
WaitRetry == /\ at = "wait" /\ current_job # <<>>
             /\ WaitedFor(Head(current_job)) # {}
             /\ Waitpid(Head(current_job))
             /\ current_job' = Tail(current_job)
             /\ UNCHANGED <<bg_jobs, script, background, count, at, k, job, pids>>

\* waitpid(pid, &status, 0) returns for the next pid of the foreground job.
Wait == /\ at = "wait" /\ current_job # <<>>
        /\ Waitpid(Head(current_job))
        /\ current_job' = Tail(current_job)
        /\ UNCHANGED <<bg_jobs, script, background, count, at, k, job, pids>>

Waited == /\ at = "wait" /\ current_job = <<>>
          /\ at' = "prompt"
          /\ UNCHANGED <<proc, current_job, bg_jobs, script, background, count, k, job, pids>>

RunScript == \/ CheckJob \/ PollRunning \/ PollEnded \/ Exit \/ Checked
             \/ Fork \/ ParentRuns
             \/ KillSkipsJob \/ KillJob \/ Signal \/ KillReturns
             \/ FileJob \/ StartWaiting \/ Wait \/ Waited

\* No more input: the user has left the shell or reached the bound.
Finished == /\ at = "done" \/ (at = "prompt" /\ count = MaxScripts)
            /\ UNCHANGED vars

Next == \/ \E s \in Scripts, bg \in BOOLEAN : EnterScript(s, bg)
        \/ RunScript
        \/ \E p \in Pids : Exits(p) \/ Starts(p)
        \/ Finished

Spec == Init /\ [][Next]_vars

Foreground == {p \in Children : proc[p].owner = count /\ ~background}

\* quash is scheduled, and the processes of a script in the foreground end one
\* day.  Those of a background job may run for ever.
FairSpec == /\ Spec
            /\ WF_vars(RunScript)
            /\ \A p \in Pids : WF_vars(p \in Foreground /\ Exits(p))

(***************************************************************************)
(* Properties.                                                             *)
(***************************************************************************)
Labels == {"prompt", "check", "poll", "create", "parent", "kill", "signal", "wait", "done"}

PidOrFailed == Pids \cup {FAILED}

IsJob(j) == /\ j.job_id \in 1 .. MaxScripts
            /\ j.pid_list \in Seq(PidOrFailed) /\ j.pid_list # <<>>
            /\ j.owner \in 1 .. count

Listed == Elements(bg_jobs)

\* Types and ranges; the ring never exposes an unused cell.
TypeOK == /\ \A p \in Pids : /\ proc[p].state \in {"free", "running", "zombie"}
                             /\ proc[p].owner \in 0 .. count
          /\ current_job \in Seq(PidOrFailed)
          /\ \A n \in DOMAIN Listed : Listed[n] # NoJob /\ IsJob(Listed[n])
          /\ job # NoJob => IsJob(job)
          /\ job # NoJob <=> at \in {"poll", "signal"}
          /\ pids # <<>> <=> at \in {"poll", "signal"}
          /\ at \in Labels
          /\ k \in 0 .. MaxScripts

\* README.md of quash, lines 316-320: ids are unique in the list and a new id
\* is greater than every other.  The code takes the last job's id plus one,
\* so the list must be in order of ids whenever the loops that rotate it are
\* not under way.
JobsInOrder == at \in {"prompt", "create", "parent", "wait"} =>
                 \A m, n \in DOMAIN Listed : m < n => Listed[m].job_id < Listed[n].job_id

\* Every child that still has to be reaped is known: its pid is listed with
\* the job it was forked for, or it belongs to the script being run.  So no
\* job is reported complete while a process of it lives, and none is left a
\* zombie for good, although pids are used again and waitpid(-1) may reap any.
NoChildLost ==
  at # "done" =>
    \A p \in Children :
      \/ proc[p].owner = count /\ \E n \in DOMAIN current_job : current_job[n] = p
      \/ \E j \in {Listed[n] : n \in DOMAIN Listed} \cup {job} :
            /\ j # NoJob
            /\ j.owner = proc[p].owner
            /\ \E n \in DOMAIN j.pid_list : j.pid_list[n] = p

\* "kill all the processes in the job" (execute.c:358), and no others.
KillReachesOnlyTheJob ==
  at = "signal" => \A p \in Receivers(Head(pids)) : proc[p].owner = job.owner

\* waitpid(-1) after a failed fork() has no process left to wait for but those of
\* background jobs, and none of them has ended.
WaitsForOthers == /\ current_job # <<>> /\ Head(current_job) = FAILED
                  /\ StillRunning(FAILED)
                  /\ \A p \in Children : proc[p].owner # count

\* Lines 637 to 643: when the processes of a foreground script have ended, quash gives
\* the prompt back, whatever pids were reaped out of turn, are used again or were
\* never there.  One thing can hold it up: after a failed fork() it may wait for a
\* background job, for as long as that runs.
ForegroundReturns == at = "wait" ~> (at = "prompt" \/ WaitsForOthers)
=============================================================================
