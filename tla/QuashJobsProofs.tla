-------------------------- MODULE QuashJobsProofs ---------------------------
(***************************************************************************)
(* The jobs of quash stay in order and know every child that has to be     *)
(* reaped, for any number of scripts, processes and jobs, whatever pids    *)
(* the system gives again and whichever fork() fails.                      *)
(*                                                                         *)
(* The argument: while a loop rotates the deque, the jobs it has put back  *)
(* stand behind the ones it has not seen yet and are older, each part in   *)
(* order; and a job is only forgotten when none of the pids polled so far  *)
(* belongs to a child of it any more.                                      *)
(***************************************************************************)
EXTENDS QuashJobs, DequeProofs

Older(a, b) == a.job_id < b.job_id /\ a.owner < b.owner

\* The first n of the jobs s have not been seen, the others are put back.
Rotated(s, n) ==
  /\ n \in 0 .. Len(s)
  /\ \A l, m \in 1 .. Len(s) :
       l < m => IF l <= n /\ n < m THEN Older(s[m], s[l]) ELSE Older(s[l], s[m])

\* The same while j has been taken off.
Taken(s, n, j) ==
  /\ Rotated(s, n)
  /\ \A l \in 1 .. Len(s) : IF l <= n THEN Older(j, s[l]) ELSE Older(s[l], j)

InLoop == at \in {"poll", "signal"}

Rotation == /\ k \in Nat
            /\ InLoop => k > 0 /\ Taken(Listed, k - 1, job)
            /\ ~InLoop => Rotated(Listed, k)
            /\ at \notin {"check", "poll", "kill", "signal", "done"} => k = 0

\* A job has an id no greater than the number of its script, which is over.
Known(j) == /\ j \in Job /\ j.pid_list # <<>>
            /\ 1 <= j.job_id /\ j.job_id <= j.owner /\ j.owner <= count
            /\ at # "prompt" => j.owner < count

Shapes == /\ proc \in [Pids -> [state : {"free", "running", "zombie"}, owner : Nat]]
          /\ at \in Labels /\ count \in Nat
          /\ current_job \in Seq(PidOrFailed) /\ pids \in Seq(PidOrFailed)
          /\ script \in Seq(Commands)
          /\ Holds(bg_jobs, Listed, Job)
          /\ \A n \in 1 .. Len(Listed) : Known(Listed[n])
          /\ IF InLoop THEN Known(job) /\ pids # <<>> ELSE job = NoJob

\* What is left of the script, and what was created of it.
Progress == /\ at = "prompt" => current_job = <<>>
            /\ at \in {"check", "poll"} => current_job = <<>> /\ script # <<>>
            /\ at \in {"parent", "kill", "signal"} => current_job # <<>> /\ script # <<>>
            /\ at = "create" => current_job # <<>> \/ script # <<>>
            /\ at # "prompt" => count > 0

In(p, list) == \E n \in DOMAIN list : list[n] = p

\* A pid that was polled is no child of the job any more.
Polled == at = "poll" =>
            \A p \in Children : proc[p].owner = job.owner => In(p, pids)

JobsIInv == Shapes /\ Rotation /\ Progress /\ NoChildLost /\ Polled

-----------------------------------------------------------------------------
(***************************************************************************)
(* Jobs that go round.                                                     *)
(***************************************************************************)
LEMMA TakeFirst ==
  ASSUME NEW s \in Seq(Job), NEW n \in Nat, n > 0, Rotated(s, n)
  PROVE  /\ s # <<>> /\ s[1] \in Job /\ Tail(s) \in Seq(Job)
         /\ Taken(Tail(s), n - 1, s[1])
<1> DEFINE t == Tail(s)
<1>1. Len(s) \in Nat /\ n <= Len(s) /\ s # <<>> /\ s[1] \in Job
  BY DEF Rotated
<1>2. /\ t \in Seq(Job) /\ Len(t) = Len(s) - 1
      /\ \A l \in 1 .. Len(t) : t[l] = s[l + 1]
  BY <1>1
<1> HIDE DEF t
<1>3. n - 1 \in 0 .. Len(t)
  BY <1>1, <1>2
<1>4. ASSUME NEW l \in 1 .. Len(t), NEW m \in 1 .. Len(t), l < m
      PROVE  IF l <= n - 1 /\ n - 1 < m THEN Older(t[m], t[l]) ELSE Older(t[l], t[m])
  <2>1. l + 1 \in 1 .. Len(s) /\ m + 1 \in 1 .. Len(s) /\ l + 1 < m + 1
    BY <1>1, <1>2, <1>4
  <2>2. IF l + 1 <= n /\ n < m + 1 THEN Older(s[m + 1], s[l + 1]) ELSE Older(s[l + 1], s[m + 1])
    BY <2>1 DEF Rotated
  <2>3. /\ t[l] = s[l + 1] /\ t[m] = s[m + 1]
        /\ l <= n - 1 <=> l + 1 <= n
        /\ n - 1 < m <=> n < m + 1
    BY <1>1, <1>2
  <2> QED BY <2>2, <2>3
<1>5. ASSUME NEW l \in 1 .. Len(t)
      PROVE  IF l <= n - 1 THEN Older(s[1], t[l]) ELSE Older(t[l], s[1])
  <2>1. l + 1 \in 1 .. Len(s) /\ 1 \in 1 .. Len(s) /\ 1 < l + 1 /\ 1 <= n
    BY <1>1, <1>2
  <2>2. IF n < l + 1 THEN Older(s[l + 1], s[1]) ELSE Older(s[1], s[l + 1])
    BY <2>1 DEF Rotated
  <2>3. t[l] = s[l + 1] /\ (l <= n - 1 <=> ~(n < l + 1))
    BY <1>1, <1>2
  <2> QED BY <2>2, <2>3
<1>6. Taken(t, n - 1, s[1])
  BY <1>3, <1>4, <1>5 DEF Taken, Rotated
<1> QED BY <1>1, <1>2, <1>6 DEF t

LEMMA PutBack ==
  ASSUME NEW s \in Seq(Job), NEW n \in Nat, NEW j \in Job, Taken(s, n, j)
  PROVE  Rotated(Append(s, j), n)
<1> DEFINE t == Append(s, j)
<1>1. /\ Len(s) \in Nat /\ n <= Len(s) /\ Len(t) = Len(s) + 1 /\ t[Len(s) + 1] = j
      /\ \A l \in 1 .. Len(s) : t[l] = s[l]
  BY DEF Taken, Rotated
<1> HIDE DEF t
<1>2. ASSUME NEW l \in 1 .. Len(t), NEW m \in 1 .. Len(t), l < m
      PROVE  IF l <= n /\ n < m THEN Older(t[m], t[l]) ELSE Older(t[l], t[m])
  <2>1. l \in 1 .. Len(s)
    BY <1>1, <1>2
  <2>2. CASE m \in 1 .. Len(s)
    BY <1>1, <1>2, <2>1, <2>2 DEF Taken, Rotated
  <2>3. CASE m = Len(s) + 1
    <3>1. IF l <= n THEN Older(j, s[l]) ELSE Older(s[l], j)
      BY <2>1 DEF Taken
    <3>2. t[l] = s[l] /\ t[m] = j /\ n < m
      BY <1>1, <2>1, <2>3
    <3> QED BY <3>1, <3>2
  <2> QED BY <1>1, <2>2, <2>3
<1>3. n \in 0 .. Len(t)
  BY <1>1
<1> QED BY <1>2, <1>3 DEF Rotated, t

LEMMA AllUnseen ==
  ASSUME NEW s \in Seq(Job), Rotated(s, 0)
  PROVE  Rotated(s, Len(s))
<1>1. Len(s) \in Nat
  OBVIOUS
<1>2. ASSUME NEW l \in 1 .. Len(s), NEW m \in 1 .. Len(s), l < m
      PROVE  Older(s[l], s[m])
  BY <1>1, <1>2 DEF Rotated
<1> QED BY <1>1, <1>2 DEF Rotated

\* A ring that changes holds the jobs it should.
LEMMA JobsPopped ==
  ASSUME Holds(bg_jobs, Listed, Job), Listed # <<>>, bg_jobs' = pop_front(bg_jobs)
  PROVE  /\ Listed' = Tail(Listed) /\ Holds(bg_jobs', Listed', Job)
         /\ peek_front(bg_jobs) = Listed[1]
<1>1. Holds(bg_jobs', Tail(Listed), Job)
  BY PopFront
<1>2. Listed' = Tail(Listed)
  BY <1>1, ElementsHeld DEF Listed
<1> QED BY <1>1, <1>2, Peek

LEMMA JobsPushed ==
  ASSUME Holds(bg_jobs, Listed, Job), NEW j \in Job, bg_jobs' = push_back(bg_jobs, j)
  PROVE  /\ Listed' = Append(Listed, j) /\ Holds(bg_jobs', Listed', Job)
<1>1. Holds(bg_jobs', Append(Listed, j), Job)
  BY PushBack
<1>2. Listed' = Append(Listed, j)
  BY <1>1, ElementsHeld DEF Listed
<1> QED BY <1>1, <1>2

LEMMA JobsLeft ==
  ASSUME Holds(bg_jobs, Listed, Job), bg_jobs' = bg_jobs
  PROVE  /\ Listed' = Listed /\ Holds(bg_jobs', Listed', Job)
<1>1. Listed' = Listed
  BY DEF Listed, Elements, length
<1> QED BY <1>1

LEMMA ListedFacts ==
  ASSUME Shapes
  PROVE  /\ Listed \in Seq(Job) /\ Len(Listed) \in Nat
         /\ DOMAIN Listed = 1 .. Len(Listed)
         /\ length(bg_jobs) = Len(Listed)
         /\ is_empty(bg_jobs) <=> Listed = <<>>
<1>1. Holds(bg_jobs, Listed, Job)
  BY DEF Shapes
<1>2. Listed \in Seq(Job) /\ length(bg_jobs) = Len(Listed) /\ (is_empty(bg_jobs) <=> Listed = <<>>)
  BY <1>1, Fields
<1> QED BY <1>2

-----------------------------------------------------------------------------
(***************************************************************************)
(* The kernel.                                                             *)
(***************************************************************************)
ProcessTable == [Pids -> [state : {"free", "running", "zombie"}, owner : Nat]]

\* No process becomes a child.
Fewer == /\ proc' \in ProcessTable
         /\ \A p \in Children' : p \in Children /\ proc'[p].owner = proc[p].owner

LEMMA WaitpidFacts ==
  ASSUME Shapes, NEW pid \in PidOrFailed, Waitpid(pid)
  PROVE  Fewer /\ pid \notin Children'
<1>1. proc \in ProcessTable
  BY DEF Shapes, ProcessTable
<1>2. Free \in [state : {"free", "running", "zombie"}, owner : Nat] /\ Free.state = "free"
  BY DEF Free
<1>3. pid \in Children' => pid \in Pids /\ pid # -1
  BY PidsAssumption DEF Children
<1>4. CASE WaitedFor(pid) = {} /\ UNCHANGED proc
  <2>1. Children' = Children
    BY <1>4 DEF Children
  <2>2. pid \notin Children'
    BY <1>3, <1>4, <2>1 DEF WaitedFor
  <2> QED BY <1>1, <1>4, <2>1, <2>2 DEF Fewer
<1>5. ASSUME NEW p \in WaitedFor(pid), proc' = [proc EXCEPT ![p] = Free]
      PROVE  Fewer /\ pid \notin Children'
  <2>1. p \in Pids /\ (pid # -1 => p = pid)
    BY DEF WaitedFor, Children
  <2>2. proc' \in ProcessTable
    BY <1>1, <1>2, <1>5 DEF ProcessTable
  <2>3. ASSUME NEW q \in Children'
        PROVE  q # p /\ q \in Children /\ proc'[q].owner = proc[q].owner
    BY <1>1, <1>2, <1>5, <2>1 DEF Children, ProcessTable
  <2> QED BY <1>3, <2>1, <2>2, <2>3 DEF Fewer
<1> QED BY <1>4, <1>5 DEF Waitpid

LEMMA KillFacts ==
  ASSUME Shapes, NEW pid, Kill(pid)
  PROVE  Fewer
<1>1. proc \in ProcessTable
  BY DEF Shapes, ProcessTable
<1>2. PICK ended \in {{}, {p \in Receivers(pid) : proc[p].state = "running"}} :
        proc' = [p \in Pids |-> IF p \notin ended THEN proc[p]
                                ELSE IF proc[p].owner = 0 THEN Free
                                ELSE Process("zombie", proc[p].owner)]
  BY DEF Kill
<1>3. \A p \in ended : p \in Pids /\ proc[p].state = "running"
  BY <1>2 DEF Receivers
<1>4. ASSUME NEW p \in Pids
      PROVE  /\ proc'[p] \in [state : {"free", "running", "zombie"}, owner : Nat]
             /\ proc'[p].state # "free" /\ proc'[p].owner # 0
                  => proc[p].state # "free" /\ proc'[p].owner = proc[p].owner
  <2>1. proc[p] \in [state : {"free", "running", "zombie"}, owner : Nat]
    BY <1>1 DEF ProcessTable
  <2>2. CASE p \notin ended
    BY <1>2, <2>1, <2>2
  <2>3. CASE p \in ended
    BY <1>2, <1>3, <2>1, <2>3 DEF Free, Process
  <2> QED BY <2>2, <2>3
<1>5. proc' \in ProcessTable
  BY <1>2, <1>4 DEF ProcessTable
<1> QED BY <1>4, <1>5 DEF Fewer, Children

LEMMA EnvironmentFacts ==
  ASSUME Shapes, NEW p \in Pids, Exits(p) \/ Starts(p)
  PROVE  Fewer /\ UNCHANGED shell
<1>1. proc \in ProcessTable /\ proc[p] \in [state : {"free", "running", "zombie"}, owner : Nat]
  BY DEF Shapes, ProcessTable
<1>2. CASE Exits(p)
  <2> DEFINE new_p == IF proc[p].owner = 0 \/ at = "done" THEN Free
                      ELSE Process("zombie", proc[p].owner)
  <2>1. /\ proc' = [proc EXCEPT ![p] = new_p] /\ proc[p].state = "running" /\ UNCHANGED shell
    BY <1>2 DEF Exits
  <2>2. /\ new_p \in [state : {"free", "running", "zombie"}, owner : Nat]
        /\ new_p.state # "free" => new_p.owner = proc[p].owner
    BY <1>1 DEF Free, Process
  <2> HIDE DEF new_p
  <2>3. proc' \in ProcessTable
    BY <1>1, <2>1, <2>2 DEF ProcessTable
  <2>4. ASSUME NEW q \in Children'
        PROVE  q \in Children /\ proc'[q].owner = proc[q].owner
    BY <1>1, <2>1, <2>2 DEF Children, ProcessTable
  <2> QED BY <2>1, <2>3, <2>4 DEF Fewer
<1>3. CASE Starts(p)
  <2> DEFINE new_p == Process("running", 0)
  <2>1. proc' = [proc EXCEPT ![p] = new_p] /\ UNCHANGED shell
    BY <1>3 DEF Starts
  <2>2. /\ new_p \in [state : {"free", "running", "zombie"}, owner : Nat] /\ new_p.owner = 0
    BY DEF Process
  <2> HIDE DEF new_p
  <2>3. proc' \in ProcessTable
    BY <1>1, <2>1, <2>2 DEF ProcessTable
  <2>4. ASSUME NEW q \in Children'
        PROVE  q \in Children /\ proc'[q].owner = proc[q].owner
    BY <1>1, <2>1, <2>2 DEF Children, ProcessTable
  <2> QED BY <2>1, <2>3, <2>4 DEF Fewer
<1> QED BY <1>2, <1>3

LEMMA NoneMore ==
  ASSUME Shapes, UNCHANGED proc
  PROVE  Fewer
BY DEF Shapes, Fewer, ProcessTable, Children

-----------------------------------------------------------------------------
(***************************************************************************)
(* Every child is known.                                                   *)
(***************************************************************************)
\* The jobs that know pids: the listed ones and the one that was taken off.
Holders == {j \in {Listed[n] : n \in DOMAIN Listed} \cup {job} : j # NoJob}

KnownChild(p) == \/ proc[p].owner = count /\ In(p, current_job)
                 \/ \E j \in Holders : j.owner = proc[p].owner /\ In(p, j.pid_list)

LEMMA ChildrenKnown == NoChildLost <=> (at # "done" => \A p \in Children : KnownChild(p))
BY DEF NoChildLost, KnownChild, Holders, In

LEMMA StillKnown ==
  ASSUME NoChildLost, at # "done", Fewer, UNCHANGED <<current_job, count>>,
         Holders \subseteq Holders'
  PROVE  NoChildLost'
<1>1. ASSUME NEW p \in Children'
      PROVE  KnownChild(p)'
  <2>1. p \in Children /\ proc'[p].owner = proc[p].owner
    BY DEF Fewer
  <2>2. KnownChild(p)
    BY <2>1, ChildrenKnown
  <2> QED BY <2>1, <2>2 DEF KnownChild, In
<1>2. NoChildLost' <=> (at' # "done" => \A p \in Children' : KnownChild(p)')
  BY DEF NoChildLost, KnownChild, Holders, In
<1> QED BY <1>1, <1>2

\* Who holds what, when the deque and the job taken off change.
LEMMA HoldersMembers ==
  ASSUME Shapes
  PROVE  /\ \A n \in 1 .. Len(Listed) : Listed[n] \in Holders /\ Listed[n] # NoJob
         /\ InLoop => job \in Holders
         /\ ~InLoop => Holders = {Listed[n] : n \in 1 .. Len(Listed)}
         /\ \A j \in Holders : j = job \/ \E n \in 1 .. Len(Listed) : j = Listed[n]
<1>1. \A n \in 1 .. Len(Listed) : Listed[n] \in Job
  BY DEF Shapes, Known
<1>2. InLoop => job \in Job
  BY DEF Shapes, Known
<1>3. NoJob \notin Job
  BY NoJobAssumption
<1>4. DOMAIN Listed = 1 .. Len(Listed)
  BY ListedFacts
<1>5. \A n \in 1 .. Len(Listed) : Listed[n] # NoJob
  BY <1>1, <1>3
<1>6. InLoop => job # NoJob
  BY <1>2, <1>3
<1>7. ~InLoop => job = NoJob
  BY DEF Shapes
<1> QED BY <1>4, <1>5, <1>6, <1>7 DEF Holders

-----------------------------------------------------------------------------
(***************************************************************************)
(* The loops over the jobs.                                                *)
(***************************************************************************)
\* A job comes off the front: nobody but this job knows the children of its script.
LEMMA TakeOffStep ==
  ASSUME JobsIInv, k > 0,
         \/ at = "check" /\ at' = "poll"
         \/ at = "kill" /\ at' = "signal",
         job' = peek_front(bg_jobs), pids' = job'.pid_list, bg_jobs' = pop_front(bg_jobs),
         UNCHANGED <<proc, current_job, script, count, k>>
  PROVE  JobsIInv'
<1>1. Shapes /\ ~InLoop /\ InLoop' /\ k \in Nat /\ Rotated(Listed, k) /\ at # "done" /\ at # "prompt"
  BY DEF JobsIInv, Rotation, InLoop
<1>2. /\ Listed \in Seq(Job) /\ Len(Listed) \in Nat /\ Holds(bg_jobs, Listed, Job)
      /\ \A n \in 1 .. Len(Listed) : Known(Listed[n])
  BY <1>1, ListedFacts DEF Shapes
<1>3. /\ Listed # <<>> /\ Listed[1] \in Job /\ Tail(Listed) \in Seq(Job)
      /\ Taken(Tail(Listed), k - 1, Listed[1])
  BY <1>1, <1>2, TakeFirst
<1>4. /\ Listed' = Tail(Listed) /\ Holds(bg_jobs', Listed', Job) /\ job' = Listed[1]
  BY <1>2, <1>3, JobsPopped
<1>5. /\ Len(Listed) > 0 /\ Len(Listed') = Len(Listed) - 1
      /\ \A n \in 1 .. Len(Listed') : n + 1 \in 1 .. Len(Listed) /\ Listed'[n] = Listed[n + 1]
  BY <1>2, <1>3, <1>4
<1>6. Known(job)' /\ \A n \in 1 .. Len(Listed') : Known(Listed[n])'
  <2>1. ASSUME NEW j, Known(j)
        PROVE  /\ j \in Job /\ j.pid_list # <<>> /\ 1 <= j.job_id /\ j.job_id <= j.owner
               /\ j.owner <= count' /\ j.owner < count'
    BY <1>1, <2>1 DEF Known
  <2>2. 1 \in 1 .. Len(Listed)
    BY <1>2, <1>5
  <2>3. Known(Listed[1]) /\ \A n \in 1 .. Len(Listed') : Known(Listed[n + 1])
    BY <1>2, <1>5, <2>2
  <2> QED BY <1>4, <1>5, <2>1, <2>3 DEF Known
<1>7. Shapes'
  <2>1. pids' \in Seq(PidOrFailed) /\ pids' # <<>>
    BY <1>6 DEF Known, Job, PidOrFailed
  <2>2. at' \in Labels
    BY DEF Labels
  <2> QED BY <1>1, <1>4, <1>6, <2>1, <2>2 DEF Shapes
<1>8. Rotation'
  BY <1>1, <1>3, <1>4 DEF Rotation, InLoop
<1>9. Progress'
  BY DEF JobsIInv, Progress
<1>10. Holders \subseteq Holders'
  <2> SUFFICES ASSUME NEW j \in Holders PROVE j \in Holders'
    OBVIOUS
  <2>1. PICK n \in 1 .. Len(Listed) : j = Listed[n]
    BY <1>1, HoldersMembers
  <2>2. j # NoJob
    BY DEF Holders
  <2>3. CASE n = 1
    BY <1>4, <2>1, <2>2, <2>3 DEF Holders
  <2>4. CASE n # 1
    <3>1. n - 1 \in 1 .. Len(Listed') /\ n - 1 + 1 = n
      BY <1>2, <1>5, <2>4
    <3>2. Listed'[n - 1] = j /\ n - 1 \in DOMAIN Listed'
      BY <1>2, <1>3, <1>4, <1>5, <2>1, <3>1
    <3> QED BY <2>2, <3>2 DEF Holders
  <2> QED BY <2>3, <2>4
<1>11. Fewer /\ NoChildLost
  BY <1>1, NoneMore DEF JobsIInv
<1>12. NoChildLost'
  BY <1>1, <1>10, <1>11, StillKnown
<1>13. Polled'
  <2> SUFFICES ASSUME NEW p \in Children', proc'[p].owner = job'.owner
               PROVE  In(p, pids')
    BY DEF Polled, In
  <2>1. p \in Children /\ proc[p].owner = Listed[1].owner
    BY <1>4 DEF Children
  <2>2. KnownChild(p)
    BY <1>1, <1>11, <2>1, ChildrenKnown
  <2>3. Known(Listed[1]) /\ 1 \in 1 .. Len(Listed)
    BY <1>2, <1>5
  <2>4. proc[p].owner # count
    BY <1>1, <2>1, <2>3 DEF Known, Job, Shapes
  <2>5. PICK j \in Holders : j.owner = proc[p].owner /\ In(p, j.pid_list)
    BY <2>2, <2>4 DEF KnownChild
  <2>6. PICK n \in 1 .. Len(Listed) : j = Listed[n]
    BY <1>1, HoldersMembers
  <2>7. n = 1
    <3> SUFFICES ASSUME 1 < n PROVE FALSE
      BY <1>2
    <3>1. Older(Listed[1], Listed[n]) \/ Older(Listed[n], Listed[1])
      BY <1>1, <2>3 DEF Rotated
    <3>2. Listed[1].owner \in Nat /\ Listed[n].owner \in Nat
      BY <1>2 DEF Known, Job
    <3> QED BY <2>1, <2>5, <2>6, <3>1, <3>2 DEF Older
  <2> QED BY <1>4, <2>5, <2>6, <2>7
<1> QED BY <1>7, <1>8, <1>9, <1>12, <1>13 DEF JobsIInv

\* The job taken off goes to the back.
LEMMA KeepStep ==
  ASSUME JobsIInv, InLoop, Fewer,
         \/ at = "poll" /\ Keep("check")
         \/ at = "signal" /\ Keep("kill"),
         pids' \in Seq(PidOrFailed),
         UNCHANGED <<current_job, script, count>>
  PROVE  JobsIInv'
<1>1. /\ Shapes /\ k \in Nat /\ k > 0 /\ Taken(Listed, k - 1, job) /\ Known(job)
      /\ at # "done" /\ at # "prompt" /\ at' \in {"check", "kill"} /\ ~InLoop'
      /\ bg_jobs' = push_back(bg_jobs, job) /\ job' = NoJob /\ k' = k - 1
  BY DEF JobsIInv, Shapes, Rotation, InLoop, Keep
<1>2. /\ Listed \in Seq(Job) /\ Len(Listed) \in Nat /\ Holds(bg_jobs, Listed, Job)
      /\ \A n \in 1 .. Len(Listed) : Known(Listed[n])
      /\ job \in Job /\ DOMAIN Listed = 1 .. Len(Listed)
  BY <1>1, ListedFacts DEF Shapes, Known
<1>3. Listed' = Append(Listed, job) /\ Holds(bg_jobs', Listed', Job)
  BY <1>1, <1>2, JobsPushed
<1>4. /\ Len(Listed') = Len(Listed) + 1 /\ Listed'[Len(Listed) + 1] = job
      /\ \A n \in 1 .. Len(Listed) : Listed'[n] = Listed[n]
      /\ DOMAIN Listed' = 1 .. Len(Listed) + 1
  BY <1>2, <1>3
<1>5. \A n \in 1 .. Len(Listed') : Known(Listed[n])'
  <2>1. ASSUME NEW n \in 1 .. Len(Listed')
        PROVE  Known(Listed'[n])
    <3>1. CASE n = Len(Listed) + 1
      BY <1>1, <1>4, <3>1
    <3>2. CASE n # Len(Listed) + 1
      <4>1. n \in 1 .. Len(Listed)
        BY <1>2, <1>4, <3>2
      <4> QED BY <1>2, <1>4, <4>1
    <3> QED BY <3>1, <3>2
  <2> QED BY <1>1, <2>1 DEF Known
<1>6. Shapes'
  <2>1. at' \in Labels
    BY <1>1 DEF Labels
  <2> QED BY <1>1, <1>3, <1>5, <2>1 DEF Shapes, Fewer, ProcessTable
<1>7. Rotation'
  <2>1. k - 1 \in Nat
    BY <1>1
  <2>2. Rotated(Listed', k - 1)
    BY <1>1, <1>2, <1>3, <2>1, PutBack
  <2> QED BY <1>1, <2>1, <2>2 DEF Rotation
<1>8. Progress'
  BY <1>1 DEF JobsIInv, Progress, Keep
<1>9. Holders \subseteq Holders'
  <2> SUFFICES ASSUME NEW j \in Holders PROVE j \in Holders'
    OBVIOUS
  <2>1. j # NoJob /\ (j = job \/ \E n \in 1 .. Len(Listed) : j = Listed[n])
    BY <1>1, HoldersMembers DEF Holders
  <2>2. \E n \in DOMAIN Listed' : j = Listed'[n]
    <3>1. CASE j = job
      <4>1. Len(Listed) + 1 \in DOMAIN Listed'
        BY <1>2, <1>4
      <4> QED BY <1>4, <3>1, <4>1
    <3>2. CASE \E n \in 1 .. Len(Listed) : j = Listed[n]
      <4>1. PICK n \in 1 .. Len(Listed) : j = Listed[n]
        BY <3>2
      <4>2. n \in DOMAIN Listed'
        BY <1>2, <1>4
      <4> QED BY <1>4, <4>1, <4>2
    <3> QED BY <2>1, <3>1, <3>2
  <2> QED BY <2>1, <2>2 DEF Holders
<1>10. NoChildLost'
  BY <1>1, <1>9, StillKnown DEF JobsIInv
<1>11. Polled'
  BY <1>1 DEF Polled
<1> QED BY <1>6, <1>7, <1>8, <1>10, <1>11 DEF JobsIInv

\* The job is complete: no process of it is left.
LEMMA ForgetStep ==
  ASSUME JobsIInv, at = "poll", Fewer, Forget("check"),
         \A p \in Children' : proc'[p].owner # job.owner,
         pids' \in Seq(PidOrFailed),
         UNCHANGED <<current_job, script, count>>
  PROVE  JobsIInv'
<1>1. /\ Shapes /\ k \in Nat /\ k > 0 /\ Taken(Listed, k - 1, job) /\ Known(job)
      /\ at' = "check" /\ ~InLoop' /\ bg_jobs' = bg_jobs /\ job' = NoJob /\ k' = k - 1
  BY DEF JobsIInv, Shapes, Rotation, InLoop, Forget
<1>2. Listed' = Listed /\ Holds(bg_jobs', Listed', Job)
  BY <1>1, JobsLeft DEF Shapes
<1>3. Shapes'
  <2>1. \A n \in 1 .. Len(Listed) : Known(Listed[n])
    BY <1>1 DEF Shapes
  <2>2. \A n \in 1 .. Len(Listed') : Known(Listed[n])'
    BY <1>1, <1>2, <2>1 DEF Known
  <2> QED BY <1>1, <1>2, <2>2 DEF Shapes, Fewer, ProcessTable, Labels
<1>4. Rotation'
  BY <1>1, <1>2 DEF Rotation, Taken
<1>5. Progress'
  BY <1>1 DEF JobsIInv, Progress
<1>6. NoChildLost'
  <2>1. ASSUME NEW p \in Children'
        PROVE  KnownChild(p)'
    <3>1. p \in Children /\ proc'[p].owner = proc[p].owner /\ proc[p].owner # job.owner
      BY DEF Fewer
    <3>2. KnownChild(p)
      BY <3>1, ChildrenKnown DEF JobsIInv
    <3>3. \A j \in Holders : j.owner # job.owner => j \in Holders'
      BY <1>2 DEF Holders
    <3> QED BY <3>1, <3>2, <3>3 DEF KnownChild, In
  <2>2. NoChildLost' <=> (at' # "done" => \A p \in Children' : KnownChild(p)')
    BY DEF NoChildLost, KnownChild, Holders, In
  <2> QED BY <2>1, <2>2
<1>7. Polled'
  BY <1>1 DEF Polled
<1> QED BY <1>3, <1>4, <1>5, <1>6, <1>7 DEF JobsIInv

-----------------------------------------------------------------------------
(***************************************************************************)
(* Steps that leave the deque and the job taken off alone.                 *)
(***************************************************************************)
LEMMA JobsStay ==
  ASSUME Shapes, UNCHANGED <<bg_jobs, job, count>>, proc' \in ProcessTable,
         at' \in Labels, at' # "prompt" => at # "prompt", InLoop' <=> InLoop,
         current_job' \in Seq(PidOrFailed), script' \in Seq(Commands),
         pids' \in Seq(PidOrFailed), InLoop => pids' # <<>>
  PROVE  Shapes' /\ Listed' = Listed /\ Holders' = Holders
<1>1. Listed' = Listed /\ Holds(bg_jobs', Listed', Job)
  BY JobsLeft DEF Shapes
<1>2. ASSUME NEW j, Known(j)
      PROVE  /\ j \in Job /\ j.pid_list # <<>> /\ 1 <= j.job_id /\ j.job_id <= j.owner
             /\ j.owner <= count' /\ (at' # "prompt" => j.owner < count')
  BY <1>2 DEF Known
<1>3. \A n \in 1 .. Len(Listed') : Known(Listed[n])'
  BY <1>1, <1>2 DEF Shapes, Known
<1>4. InLoop => Known(job)'
  BY <1>2 DEF Shapes, Known
<1>5. Shapes'
  BY <1>1, <1>3, <1>4 DEF Shapes, ProcessTable
<1>6. Holders' = Holders
  BY <1>1 DEF Holders
<1> QED BY <1>1, <1>5, <1>6

\* The pid was polled or signalled, and it was not the last.
LEMMA GoOnStep ==
  ASSUME JobsIInv, InLoop, Fewer, Len(pids) # 1, pids' = Tail(pids),
         at = "poll" => Head(pids) \notin Children',
         UNCHANGED <<current_job, bg_jobs, script, count, at, k, job>>
  PROVE  JobsIInv'
<1>1. /\ Shapes /\ at # "done" /\ pids \in Seq(PidOrFailed) /\ pids # <<>> /\ InLoop'
  BY DEF JobsIInv, Shapes, InLoop
<1>2. /\ pids' \in Seq(PidOrFailed) /\ pids' # <<>> /\ Len(pids') = Len(pids) - 1
      /\ \A n \in 1 .. Len(pids) : n = 1 \/ (n - 1 \in 1 .. Len(pids') /\ pids'[n - 1] = pids[n])
  <2>1. Len(pids) \in Nat /\ Len(pids) > 1
    <3>1. pids \in Seq(PidOrFailed) /\ pids # <<>>
      BY <1>1
    <3>2. Len(pids) \in Nat /\ Len(pids) # 0
      BY <3>1
    <3>3. \A n \in Nat : n # 0 /\ n # 1 => n > 1
      OBVIOUS
    <3> QED BY <3>2, <3>3
  <2>2. pids' \in Seq(PidOrFailed) /\ Len(pids') = Len(pids) - 1
    BY <1>1
  <2>3. \A n \in 1 .. Len(pids') : pids'[n] = pids[n + 1]
    BY <1>1, <2>2
  <2>4. ASSUME NEW n \in 1 .. Len(pids), n # 1
        PROVE  n - 1 \in 1 .. Len(pids') /\ pids'[n - 1] = pids[n]
    <3>1. n - 1 \in 1 .. Len(pids') /\ n - 1 + 1 = n
      BY <2>1, <2>2, <2>4
    <3> QED BY <2>3, <3>1
  <2>5. pids' # <<>>
    BY <2>1, <2>2
  <2> QED BY <2>2, <2>4, <2>5
<1>3. Shapes' /\ Listed' = Listed /\ Holders' = Holders
  BY <1>1, <1>2, JobsStay DEF Shapes, Fewer
<1>4. Rotation' /\ Progress'
  BY <1>1, <1>3 DEF JobsIInv, Rotation, Progress, InLoop
<1>5. NoChildLost'
  BY <1>1, <1>3, StillKnown DEF JobsIInv
<1>6. Polled'
  <2> SUFFICES ASSUME at = "poll", NEW p \in Children', proc'[p].owner = job.owner
               PROVE  In(p, pids')
    BY DEF Polled, In
  <2>1. p \in Children /\ proc[p].owner = job.owner
    BY DEF Fewer
  <2>2. PICK n \in 1 .. Len(pids) : pids[n] = p
    BY <1>1, <2>1 DEF JobsIInv, Polled, In
  <2>3. n # 1
    BY <1>1, <2>2
  <2>4. n - 1 \in DOMAIN pids' /\ pids'[n - 1] = p
    BY <1>2, <2>2, <2>3
  <2> QED BY <2>4 DEF In
<1> QED BY <1>3, <1>4, <1>5, <1>6 DEF JobsIInv

LEMMA PollStep ==
  ASSUME JobsIInv, PollRunning \/ PollEnded
  PROVE  JobsIInv'
<1>1. /\ Shapes /\ at = "poll" /\ InLoop /\ pids \in Seq(PidOrFailed) /\ pids # <<>>
      /\ UNCHANGED <<current_job, script, count>>
  BY DEF JobsIInv, Shapes, InLoop, PollRunning, PollEnded
<1>2. CASE PollRunning
  <2>1. Fewer
    BY <1>1, <1>2, NoneMore DEF PollRunning
  <2>2. pids' \in Seq(PidOrFailed) /\ Keep("check")
    BY <1>2 DEF PollRunning
  <2> QED BY <1>1, <2>1, <2>2, KeepStep
<1>3. CASE PollEnded
  <2>1. Fewer /\ Head(pids) \notin Children'
    BY <1>1, <1>3, WaitpidFacts DEF PollEnded
  <2>2. pids' = Tail(pids) /\ pids' \in Seq(PidOrFailed)
    BY <1>1, <1>3 DEF PollEnded
  <2>3. CASE Len(pids) = 1
    <3>1. ASSUME NEW p \in Children', proc'[p].owner = job.owner
          PROVE  FALSE
      <4>1. p \in Children /\ proc[p].owner = job.owner
        BY <2>1, <3>1 DEF Fewer
      <4>2. PICK n \in 1 .. Len(pids) : pids[n] = p
        BY <1>1, <4>1 DEF JobsIInv, Polled, In
      <4>3. p = Head(pids)
        BY <1>1, <2>3, <4>2
      <4> QED BY <2>1, <4>3
    <3>2. Forget("check")
      BY <1>3, <2>3 DEF PollEnded
    <3> QED BY <1>1, <2>1, <2>2, <3>1, <3>2, ForgetStep
  <2>4. CASE Len(pids) # 1
    <3>1. UNCHANGED <<bg_jobs, job, k, at>>
      BY <1>3, <2>4 DEF PollEnded
    <3> QED BY <1>1, <2>1, <2>2, <2>4, <3>1, GoOnStep
  <2> QED BY <2>3, <2>4
<1> QED BY <1>2, <1>3

LEMMA SignalStep ==
  ASSUME JobsIInv, Signal
  PROVE  JobsIInv'
<1>1. /\ Shapes /\ at = "signal" /\ InLoop /\ pids \in Seq(PidOrFailed) /\ pids # <<>>
      /\ UNCHANGED <<current_job, script, count>>
  BY DEF JobsIInv, Shapes, InLoop, Signal
<1>2. Fewer
  BY <1>1, KillFacts DEF Signal
<1>3. pids' = Tail(pids) /\ pids' \in Seq(PidOrFailed)
  BY <1>1 DEF Signal
<1>4. CASE Len(pids) = 1
  <2>1. Keep("kill")
    BY <1>4 DEF Signal
  <2> QED BY <1>1, <1>2, <1>3, <2>1, KeepStep
<1>5. CASE Len(pids) # 1
  <2>1. UNCHANGED <<bg_jobs, job, k, at>>
    BY <1>5 DEF Signal
  <2> QED BY <1>1, <1>2, <1>3, <1>5, <2>1, GoOnStep
<1> QED BY <1>4, <1>5

\* The loops and the script are entered and left.
LEMMA ControlStep ==
  ASSUME JobsIInv, Checked \/ ParentRuns \/ KillReturns \/ StartWaiting \/ Waited
  PROVE  JobsIInv'
<1>1. /\ UNCHANGED <<proc, current_job, bg_jobs, count, job, pids>>
      /\ at \in {"check", "parent", "kill", "create", "wait"} /\ ~InLoop
      /\ at' \in {"create", "kill", "wait", "prompt"} /\ ~InLoop'
  BY DEF Checked, ParentRuns, KillReturns, StartWaiting, Waited, InLoop
<1>2. Shapes /\ Fewer
  BY <1>1, NoneMore DEF JobsIInv
<1>3. script \in Seq(Commands) /\ Listed \in Seq(Job)
  BY <1>2, ListedFacts DEF Shapes
<1>4. script' \in Seq(Commands)
  <2>1. script' = script \/ (script # <<>> /\ script' = Tail(script))
    BY DEF JobsIInv, Progress, Checked, ParentRuns, KillReturns, StartWaiting, Waited
  <2> QED BY <1>3, <2>1
<1>5. at' \in Labels
  BY <1>1 DEF Labels
<1>6. Shapes' /\ Listed' = Listed /\ Holders' = Holders
  BY <1>1, <1>2, <1>4, <1>5, JobsStay DEF Shapes, Fewer
<1>7. Rotation'
  <2>1. Rotated(Listed, k) /\ k \in Nat
    BY <1>1 DEF JobsIInv, Rotation
  <2>2. CASE at' = "kill"
    <3>1. k = 0 /\ k' = Len(Listed)
      BY <1>2, <2>2, ListedFacts DEF JobsIInv, Rotation, Checked, ParentRuns, KillReturns,
                                     StartWaiting, Waited
    <3>2. Rotated(Listed, Len(Listed)) /\ Len(Listed) \in Nat
      BY <1>3, <2>1, <3>1, AllUnseen
    <3> QED BY <1>1, <1>6, <2>2, <3>1, <3>2 DEF Rotation
  <2>3. CASE at' # "kill"
    <3>1. k' = k /\ k = 0
      BY <2>3 DEF JobsIInv, Rotation, Checked, ParentRuns, KillReturns, StartWaiting, Waited
    <3> QED BY <1>1, <1>6, <2>1, <3>1 DEF Rotation
  <2> QED BY <2>2, <2>3
<1>8. Progress'
  BY <1>1 DEF JobsIInv, Progress, Checked, ParentRuns, KillReturns, StartWaiting, Waited
<1>9. NoChildLost'
  BY <1>1, <1>2, <1>6, StillKnown DEF JobsIInv
<1>10. Polled'
  BY <1>1 DEF Polled
<1> QED BY <1>6, <1>7, <1>8, <1>9, <1>10 DEF JobsIInv

\* Processes end and others begin; nothing happens.
LEMMA EnvironmentStep ==
  ASSUME JobsIInv,
         (\E p \in Pids : Exits(p) \/ Starts(p)) \/ UNCHANGED vars
  PROVE  JobsIInv'
<1>1. Fewer /\ UNCHANGED shell
  BY EnvironmentFacts, NoneMore DEF JobsIInv, vars
<1>2. UNCHANGED <<current_job, bg_jobs, script, background, count, at, k, job, pids>>
  BY <1>1 DEF shell
<1>3. Shapes' /\ Listed' = Listed /\ Holders' = Holders
  BY <1>1, <1>2, JobsStay DEF JobsIInv, Shapes, InLoop, Fewer
<1>4. Rotation' /\ Progress'
  BY <1>2, <1>3 DEF JobsIInv, Rotation, Progress, InLoop
<1>5. NoChildLost'
  <2>1. CASE at = "done"
    BY <1>2, <2>1 DEF NoChildLost
  <2>2. CASE at # "done"
    BY <1>1, <1>2, <1>3, <2>2, StillKnown DEF JobsIInv
  <2> QED BY <2>1, <2>2
<1>6. Polled'
  BY <1>1, <1>2 DEF JobsIInv, Polled, Fewer, In
<1> QED BY <1>3, <1>4, <1>5, <1>6 DEF JobsIInv

-----------------------------------------------------------------------------
(***************************************************************************)
(* Steps of the script.                                                    *)
(***************************************************************************)
LEMMA EnterScriptStep ==
  ASSUME JobsIInv, NEW s \in Scripts, NEW bg \in BOOLEAN, EnterScript(s, bg)
  PROVE  JobsIInv'
<1>1. /\ at = "prompt" /\ at' = "check" /\ count' = count + 1 /\ script' = s
      /\ k' = length(bg_jobs) /\ ~InLoop /\ ~InLoop'
      /\ UNCHANGED <<proc, current_job, bg_jobs, job, pids>>
  BY DEF EnterScript, InLoop
<1>2. /\ Shapes /\ count \in Nat /\ current_job = <<>> /\ Rotated(Listed, 0) /\ Fewer
      /\ s \in Seq(Commands) /\ s # <<>>
  BY <1>1, NoneMore, ScriptsAssumption DEF JobsIInv, Shapes, Progress, Rotation
<1>3. /\ Listed \in Seq(Job) /\ Len(Listed) \in Nat /\ k' = Len(Listed)
      /\ Listed' = Listed /\ Holds(bg_jobs', Listed', Job)
  BY <1>1, <1>2, ListedFacts, JobsLeft DEF Shapes
<1>4. Shapes'
  <2>1. ASSUME NEW n \in 1 .. Len(Listed)
        PROVE  Known(Listed[n])'
    <3>1. Known(Listed[n])
      BY <1>2 DEF Shapes
    <3>2. Listed[n].owner \in Nat
      BY <3>1 DEF Known, Job
    <3> QED BY <1>1, <1>2, <1>3, <3>1, <3>2 DEF Known
  <2> QED BY <1>1, <1>2, <1>3, <2>1 DEF Shapes, Labels
<1>5. Rotation'
  BY <1>1, <1>2, <1>3, AllUnseen DEF Rotation
<1>6. Progress'
  BY <1>1, <1>2 DEF Progress
<1>7. NoChildLost'
  <2>1. ASSUME NEW p \in Children'
        PROVE  KnownChild(p)'
    <3>1. p \in Children /\ proc' = proc
      BY <1>1, <1>2 DEF Fewer
    <3>2. KnownChild(p)
      BY <1>1, <3>1, ChildrenKnown DEF JobsIInv
    <3>3. ~In(p, current_job)
      BY <1>2 DEF In
    <3>4. Holders' = Holders
      BY <1>1, <1>3 DEF Holders
    <3> QED BY <3>1, <3>2, <3>3, <3>4 DEF KnownChild, In
  <2>2. NoChildLost' <=> (at' # "done" => \A p \in Children' : KnownChild(p)')
    BY DEF NoChildLost, KnownChild, Holders, In
  <2> QED BY <2>1, <2>2
<1>8. Polled'
  BY <1>1 DEF Polled
<1> QED BY <1>4, <1>5, <1>6, <1>7, <1>8 DEF JobsIInv

LEMMA ExitStep ==
  ASSUME JobsIInv, Exit
  PROVE  JobsIInv'
<1>1. /\ at = "check" /\ at' = "done" /\ k = 0 /\ bg_jobs' = new(1) /\ ~InLoop /\ ~InLoop'
      /\ proc' = [p \in Pids |-> IF proc[p].state = "zombie" THEN Free ELSE proc[p]]
      /\ UNCHANGED <<current_job, script, count, k, job, pids>>
  BY DEF Exit, InLoop
<1>2. Holds(bg_jobs', <<>>, Job)
  BY <1>1, NewRing
<1>3. Listed' = <<>>
  BY <1>2, ElementsHeld DEF Listed
<1>4. Shapes'
  <2>1. proc' \in ProcessTable
    BY <1>1 DEF JobsIInv, Shapes, ProcessTable, Free
  <2> QED BY <1>1, <1>2, <1>3, <2>1 DEF JobsIInv, Shapes, ProcessTable, Labels
<1>5. Rotation'
  BY <1>1, <1>3 DEF Rotation, Rotated
<1>6. Progress'
  BY <1>1 DEF JobsIInv, Progress
<1>7. NoChildLost' /\ Polled'
  BY <1>1 DEF NoChildLost, Polled
<1> QED BY <1>4, <1>5, <1>6, <1>7 DEF JobsIInv

LEMMA ForkStep ==
  ASSUME JobsIInv, Fork
  PROVE  JobsIInv'
<1>1. /\ at = "create" /\ script # <<>> /\ at' = "parent" /\ ~InLoop /\ ~InLoop'
      /\ UNCHANGED <<bg_jobs, script, count, k, job, pids>>
  BY DEF Fork, InLoop
<1>2. Shapes /\ proc \in ProcessTable /\ current_job \in Seq(PidOrFailed) /\ count \in Nat /\ count > 0
  BY <1>1 DEF JobsIInv, Shapes, ProcessTable, Progress
<1>3. ASSUME NEW p \in PidOrFailed, current_job' = Append(current_job, p), proc' \in ProcessTable,
             \A q \in Children' : \/ q = p /\ proc'[q].owner = count
                                  \/ q \in Children /\ proc'[q].owner = proc[q].owner
      PROVE  JobsIInv'
  <2>1. /\ current_job' \in Seq(PidOrFailed) /\ current_job' # <<>>
        /\ \A q : In(q, current_job) \/ q = p => In(q, current_job')
    <3>1. /\ Len(current_job') = Len(current_job) + 1 /\ Len(current_job) \in Nat
          /\ current_job'[Len(current_job) + 1] = p
          /\ \A n \in 1 .. Len(current_job) : current_job'[n] = current_job[n]
          /\ current_job' \in Seq(PidOrFailed)
      BY <1>2, <1>3
    <3>2. /\ DOMAIN current_job' = 1 .. Len(current_job) + 1
          /\ DOMAIN current_job = 1 .. Len(current_job)
          /\ Len(current_job) + 1 \in DOMAIN current_job'
          /\ \A n \in DOMAIN current_job : n \in DOMAIN current_job'
      BY <1>2, <3>1
    <3> QED BY <3>1, <3>2 DEF In
  <2>2. Shapes' /\ Listed' = Listed /\ Holders' = Holders
    BY <1>1, <1>2, <1>3, <2>1, JobsStay DEF Shapes, Labels
  <2>3. Rotation' /\ Progress'
    BY <1>1, <2>1, <2>2 DEF JobsIInv, Rotation, Progress
  <2>4. ASSUME NEW q \in Children'
        PROVE  KnownChild(q)'
    <3>1. CASE q = p /\ proc'[q].owner = count
      BY <1>1, <2>1, <3>1 DEF KnownChild, In
    <3>2. CASE q \in Children /\ proc'[q].owner = proc[q].owner
      <4>1. KnownChild(q)
        BY <1>1, <3>2, ChildrenKnown DEF JobsIInv
      <4>2. CASE proc[q].owner = count /\ In(q, current_job)
        BY <1>1, <2>1, <3>2, <4>2 DEF KnownChild, In
      <4>3. CASE \E j \in Holders : j.owner = proc[q].owner /\ In(q, j.pid_list)
        BY <2>2, <3>2, <4>3 DEF KnownChild, In
      <4> QED BY <4>1, <4>2, <4>3 DEF KnownChild
    <3> QED BY <1>3, <3>1, <3>2
  <2>5. NoChildLost'
    <3>1. NoChildLost' <=> (at' # "done" => \A q \in Children' : KnownChild(q)')
      BY DEF NoChildLost, KnownChild, Holders, In
    <3> QED BY <2>4, <3>1
  <2>6. Polled'
    BY <1>1 DEF Polled
  <2> QED BY <2>2, <2>3, <2>5, <2>6 DEF JobsIInv
<1>4. ASSUME NEW p \in Pids, proc[p].state = "free",
             proc' = [proc EXCEPT ![p] = Process("running", count)],
             current_job' = Append(current_job, p)
      PROVE  JobsIInv'
  <2> DEFINE new_p == Process("running", count)
  <2>1. /\ new_p \in [state : {"free", "running", "zombie"}, owner : Nat] /\ new_p.owner = count
    BY <1>2 DEF Process
  <2> HIDE DEF new_p
  <2>2. proc' = [proc EXCEPT ![p] = new_p]
    BY <1>4 DEF new_p
  <2>3. proc' \in ProcessTable /\ p \in PidOrFailed
    BY <1>2, <2>1, <2>2 DEF ProcessTable, PidOrFailed
  <2>4. ASSUME NEW q \in Children'
        PROVE  \/ q = p /\ proc'[q].owner = count
               \/ q \in Children /\ proc'[q].owner = proc[q].owner
    BY <1>2, <2>1, <2>2 DEF Children, ProcessTable
  <2> QED BY <1>3, <1>4, <2>3, <2>4
<1>5. CASE current_job' = Append(current_job, FAILED) /\ UNCHANGED proc
  <2>1. FAILED \in PidOrFailed /\ proc' \in ProcessTable /\ Children' = Children
    BY <1>2, <1>5 DEF PidOrFailed, Children
  <2> QED BY <1>3, <1>5, <2>1
<1> QED BY <1>4, <1>5 DEF Fork

\* The script becomes a job, with an id greater than every other.
LEMMA FileJobStep ==
  ASSUME JobsIInv, FileJob
  PROVE  JobsIInv'
<1> DEFINE j == create_job(get_next_job_number, current_job)
<1>1. /\ at = "create" /\ script = <<>> /\ at' = "prompt" /\ current_job' = <<>>
      /\ bg_jobs' = push_back(bg_jobs, j) /\ ~InLoop /\ ~InLoop'
      /\ UNCHANGED <<proc, script, count, k, job, pids>>
  BY DEF FileJob, InLoop
<1>2. /\ Shapes /\ Fewer /\ count \in Nat /\ count > 0 /\ k = 0 /\ Rotated(Listed, 0)
      /\ current_job \in Seq(PidOrFailed) /\ current_job # <<>>
  BY <1>1, NoneMore DEF JobsIInv, Shapes, Progress, Rotation
<1>3. /\ Listed \in Seq(Job) /\ Len(Listed) \in Nat /\ Holds(bg_jobs, Listed, Job)
      /\ DOMAIN Listed = 1 .. Len(Listed)
      /\ is_empty(bg_jobs) <=> Listed = <<>>
      /\ \A n \in 1 .. Len(Listed) : Known(Listed[n])
  BY <1>2, ListedFacts DEF Shapes
<1>4. ASSUME NEW n \in 1 .. Len(Listed)
      PROVE  /\ Listed[n].job_id \in Nat /\ Listed[n].owner \in Nat /\ Listed[n].owner < count
             /\ Listed[n].job_id <= Listed[n].owner
  BY <1>1, <1>3 DEF Known, Job
<1>5. /\ get_next_job_number \in Nat /\ 1 <= get_next_job_number /\ get_next_job_number <= count
      /\ \A n \in 1 .. Len(Listed) : Listed[n].job_id < get_next_job_number
  <2>1. CASE Listed = <<>>
    BY <1>2, <1>3, <2>1 DEF get_next_job_number
  <2>2. CASE Listed # <<>>
    <3> DEFINE last == Len(Listed)
    <3>1. last \in 1 .. Len(Listed)
      BY <1>3, <2>2
    <3>2. get_next_job_number = Listed[last].job_id + 1
      BY <1>3, <2>2, Peek DEF get_next_job_number
    <3>3. ASSUME NEW n \in 1 .. Len(Listed), n # last
          PROVE  Listed[n].job_id < Listed[last].job_id
      <4>1. \A a, b \in Nat : a <= b /\ a # b => a < b
        OBVIOUS
      <4>2. Len(Listed) \in Nat /\ n \in Nat /\ n <= Len(Listed)
        BY <1>3
      <4>3. n < last
        BY <3>3, <4>1, <4>2
      <4> QED BY <1>2, <1>3, <3>1, <4>3 DEF Rotated, Older
    <3> HIDE DEF last
    <3>4. /\ Listed[last].job_id \in Nat /\ Listed[last].owner \in Nat
          /\ Listed[last].owner < count /\ Listed[last].job_id <= Listed[last].owner
      BY <1>4, <3>1
    <3>5. ASSUME NEW n \in 1 .. Len(Listed)
          PROVE  Listed[n].job_id < Listed[last].job_id + 1
      <4>1. Listed[n].job_id \in Nat
        BY <1>4
      <4>2. CASE n = last
        BY <3>4, <4>2
      <4>3. CASE n # last
        <5>1. Listed[n].job_id < Listed[last].job_id
          BY <3>3, <4>3
        <5> QED BY <3>4, <4>1, <5>1
      <4> QED BY <4>2, <4>3
    <3> QED BY <1>2, <3>2, <3>4, <3>5
  <2> QED BY <2>1, <2>2
<1>6. /\ j \in Job /\ j.job_id = get_next_job_number /\ j.pid_list = current_job /\ j.owner = count
  BY <1>2, <1>5 DEF create_job, Job, PidOrFailed
<1> HIDE DEF j
<1>7. Listed' = Append(Listed, j) /\ Holds(bg_jobs', Listed', Job)
  BY <1>1, <1>3, <1>6, JobsPushed
<1>8. /\ Len(Listed') = Len(Listed) + 1 /\ Listed'[Len(Listed) + 1] = j
      /\ \A n \in 1 .. Len(Listed) : Listed'[n] = Listed[n] /\ n \in DOMAIN Listed'
      /\ Len(Listed) + 1 \in DOMAIN Listed'
  BY <1>3, <1>6, <1>7
<1>9. Shapes'
  <2>1. ASSUME NEW n \in 1 .. Len(Listed')
        PROVE  Known(Listed[n])'
    <3>1. CASE n = Len(Listed) + 1
      BY <1>1, <1>2, <1>5, <1>6, <1>8, <3>1 DEF Known
    <3>2. CASE n # Len(Listed) + 1
      <4>1. n \in 1 .. Len(Listed)
        BY <1>3, <1>8, <3>2
      <4> QED BY <1>1, <1>3, <1>8, <4>1 DEF Known
    <3> QED BY <3>1, <3>2
  <2>2. current_job' \in Seq(PidOrFailed) /\ at' \in Labels
    BY <1>1 DEF Labels
  <2> QED BY <1>1, <1>2, <1>7, <2>1, <2>2 DEF Shapes
<1>10. Rotation'
  <2>1. Taken(Listed, 0, j)
    BY <1>2, <1>4, <1>5, <1>6 DEF Taken, Older
  <2>2. Rotated(Listed', 0)
    BY <1>3, <1>6, <1>7, <2>1, PutBack
  <2> QED BY <1>1, <1>2, <2>2 DEF Rotation
<1>11. Progress'
  BY <1>1, <1>2 DEF Progress
<1>12. NoChildLost'
  <2>1. j # NoJob
    BY <1>6, NoJobAssumption
  <2>2. j \in Holders'
    BY <1>8, <2>1 DEF Holders
  <2>3. Holders \subseteq Holders'
    <3> SUFFICES ASSUME NEW h \in Holders PROVE h \in Holders'
      OBVIOUS
    <3>1. PICK n \in 1 .. Len(Listed) : h = Listed[n]
      BY <1>1, <1>2, HoldersMembers
    <3>2. h # NoJob
      BY DEF Holders
    <3> QED BY <1>8, <3>1, <3>2 DEF Holders
  <2>4. ASSUME NEW p \in Children'
        PROVE  KnownChild(p)'
    <3>1. p \in Children /\ proc' = proc
      BY <1>1, <1>2 DEF Fewer
    <3>2. KnownChild(p)
      BY <1>1, <3>1, ChildrenKnown DEF JobsIInv
    <3> QED BY <1>6, <2>2, <2>3, <3>1, <3>2 DEF KnownChild, In
  <2>5. NoChildLost' <=> (at' # "done" => \A p \in Children' : KnownChild(p)')
    BY DEF NoChildLost, KnownChild, Holders, In
  <2> QED BY <2>4, <2>5
<1>13. Polled'
  BY <1>1 DEF Polled
<1> QED BY <1>9, <1>10, <1>11, <1>12, <1>13 DEF JobsIInv

\* A job that is not to be killed goes straight to the back.
LEMMA KillSkipsStep ==
  ASSUME JobsIInv, KillSkipsJob
  PROVE  JobsIInv'
<1> DEFINE first == peek_front(bg_jobs)
           rest == pop_front(bg_jobs)
<1>1. /\ at = "kill" /\ at' = at /\ k > 0 /\ k' = k - 1 /\ ~InLoop /\ ~InLoop'
      /\ bg_jobs' = push_back(rest, first)
      /\ UNCHANGED <<proc, current_job, script, count, job, pids>>
  BY DEF KillSkipsJob, InLoop
<1>2. Shapes /\ Fewer /\ k \in Nat /\ k - 1 \in Nat /\ Rotated(Listed, k)
  BY <1>1, NoneMore DEF JobsIInv, Rotation
<1>3. /\ Listed \in Seq(Job) /\ Len(Listed) \in Nat /\ Holds(bg_jobs, Listed, Job)
      /\ \A n \in 1 .. Len(Listed) : Known(Listed[n])
  BY <1>2, ListedFacts DEF Shapes
<1>4. /\ Listed # <<>> /\ Listed[1] \in Job /\ Tail(Listed) \in Seq(Job)
      /\ Taken(Tail(Listed), k - 1, Listed[1])
  BY <1>1, <1>2, <1>3, TakeFirst
<1>5. first = Listed[1] /\ Holds(rest, Tail(Listed), Job)
  BY <1>3, <1>4, Peek, PopFront
<1> HIDE DEF first, rest
<1>6. Holds(bg_jobs', Append(Tail(Listed), Listed[1]), Job)
  BY <1>1, <1>4, <1>5, PushBack
<1>7. Listed' = Append(Tail(Listed), Listed[1])
  BY <1>6, ElementsHeld DEF Listed
<1>8. /\ Len(Listed') = Len(Listed) /\ Listed'[Len(Listed)] = Listed[1]
      /\ Len(Listed) >= 1
      /\ \A n \in 1 .. Len(Listed) :
           n < Len(Listed) => n + 1 \in 1 .. Len(Listed) /\ Listed'[n] = Listed[n + 1]
  <2> DEFINE t == Tail(Listed)
  <2>1. /\ t \in Seq(Job) /\ Len(t) = Len(Listed) - 1 /\ Len(Listed) >= 1
        /\ \A n \in 1 .. Len(t) : t[n] = Listed[n + 1]
    BY <1>3, <1>4
  <2>2. Listed' = Append(t, Listed[1])
    BY <1>7
  <2> HIDE DEF t
  <2>3. /\ Len(Listed') = Len(t) + 1 /\ Listed'[Len(t) + 1] = Listed[1]
        /\ \A n \in 1 .. Len(t) : Listed'[n] = t[n]
    BY <1>4, <2>1, <2>2
  <2>4. Len(t) + 1 = Len(Listed)
    BY <1>3, <2>1
  <2>5. ASSUME NEW n \in 1 .. Len(Listed), n < Len(Listed)
        PROVE  n \in 1 .. Len(t) /\ n + 1 \in 1 .. Len(Listed)
    BY <1>3, <2>1, <2>5
  <2> QED BY <2>1, <2>3, <2>4, <2>5
<1>9. ASSUME NEW n \in 1 .. Len(Listed)
      PROVE  \E m \in 1 .. Len(Listed) : Listed'[n] = Listed[m]
  <2>1. CASE n < Len(Listed)
    BY <1>8, <2>1
  <2>2. CASE n = Len(Listed)
    <3>1. 1 \in 1 .. Len(Listed)
      BY <1>3, <1>8
    <3> QED BY <1>8, <2>2, <3>1
  <2>3. n < Len(Listed) \/ n = Len(Listed)
    BY <1>3
  <2> QED BY <2>1, <2>2, <2>3
<1>10. Shapes'
  <2>1. \A n \in 1 .. Len(Listed') : Known(Listed'[n])
    BY <1>3, <1>8, <1>9
  <2>2. \A n \in 1 .. Len(Listed') : Known(Listed[n])'
    BY <1>1, <2>1 DEF Known
  <2>3. Holds(bg_jobs', Listed', Job)
    BY <1>6, <1>7
  <2> QED BY <1>1, <1>2, <2>2, <2>3 DEF Shapes
<1>11. Rotation'
  <2>1. Rotated(Listed', k - 1)
    BY <1>2, <1>4, <1>7, PutBack
  <2> QED BY <1>1, <1>2, <2>1 DEF Rotation
<1>12. Progress'
  BY <1>1 DEF JobsIInv, Progress
<1>13. Holders \subseteq Holders'
  <2> SUFFICES ASSUME NEW j \in Holders PROVE j \in Holders'
    OBVIOUS
  <2>1. PICK n \in 1 .. Len(Listed) : j = Listed[n]
    BY <1>1, <1>2, HoldersMembers
  <2>2. j # NoJob
    BY DEF Holders
  <2>3. DOMAIN Listed' = 1 .. Len(Listed)
    <3>1. Listed' \in Seq(Job)
      BY <1>4, <1>7
    <3> QED BY <1>8, <3>1
  <2>4. \E m \in 1 .. Len(Listed) : j = Listed'[m]
    <3>1. CASE n = 1
      <4>1. Len(Listed) \in 1 .. Len(Listed)
        BY <1>3, <1>8
      <4> QED BY <1>8, <2>1, <3>1, <4>1
    <3>2. CASE n # 1
      <4> DEFINE m == n - 1
      <4>1. m \in 1 .. Len(Listed) /\ m < Len(Listed) /\ m + 1 = n
        BY <1>3, <3>2
      <4> HIDE DEF m
      <4> QED BY <1>8, <2>1, <4>1
    <3> QED BY <3>1, <3>2
  <2> QED BY <2>2, <2>3, <2>4 DEF Holders
<1>14. NoChildLost'
  BY <1>1, <1>2, <1>13, StillKnown DEF JobsIInv
<1>15. Polled'
  BY <1>1 DEF Polled
<1> QED BY <1>10, <1>11, <1>12, <1>14, <1>15 DEF JobsIInv

\* A process of the foreground job was waited for.
LEMMA WaitStep ==
  ASSUME JobsIInv, Wait
  PROVE  JobsIInv'
<1>1. /\ at = "wait" /\ at' = at /\ current_job # <<>> /\ current_job' = Tail(current_job)
      /\ Waitpid(Head(current_job)) /\ ~InLoop /\ ~InLoop'
      /\ UNCHANGED <<bg_jobs, script, count, k, job, pids>>
  BY DEF Wait, InLoop
<1>2. Shapes /\ current_job \in Seq(PidOrFailed) /\ current_job' \in Seq(PidOrFailed)
  BY <1>1 DEF JobsIInv, Shapes
<1>3. Fewer /\ Head(current_job) \notin Children'
  BY <1>1, <1>2, WaitpidFacts
<1>4. Shapes' /\ Listed' = Listed /\ Holders' = Holders
  BY <1>1, <1>2, <1>3, JobsStay DEF Shapes, Fewer
<1>5. Rotation' /\ Progress'
  BY <1>1, <1>4 DEF JobsIInv, Rotation, Progress
<1>6. ASSUME NEW p, p # Head(current_job), In(p, current_job)
      PROVE  In(p, current_job')
  <2>1. PICK n \in 1 .. Len(current_job) : current_job[n] = p
    BY <1>2, <1>6 DEF In
  <2> DEFINE m == n - 1
  <2>2. Len(current_job) \in Nat /\ n # 1
    BY <1>1, <1>2, <1>6, <2>1
  <2>3. Len(current_job') = Len(current_job) - 1
    BY <1>1, <1>2
  <2>4. m \in 1 .. Len(current_job') /\ m + 1 = n
    BY <2>2, <2>3
  <2> HIDE DEF m
  <2>5. current_job'[m] = p /\ m \in DOMAIN current_job'
    BY <1>1, <1>2, <2>1, <2>4
  <2> QED BY <2>5 DEF In
<1>7. ASSUME NEW p \in Children'
      PROVE  KnownChild(p)'
  <2>1. p \in Children /\ proc'[p].owner = proc[p].owner /\ p # Head(current_job)
    BY <1>3 DEF Fewer
  <2>2. KnownChild(p)
    BY <1>1, <2>1, ChildrenKnown DEF JobsIInv
  <2> QED BY <1>1, <1>4, <1>6, <2>1, <2>2 DEF KnownChild, In
<1>8. NoChildLost'
  <2>1. NoChildLost' <=> (at' # "done" => \A p \in Children' : KnownChild(p)')
    BY DEF NoChildLost, KnownChild, Holders, In
  <2> QED BY <1>7, <2>1
<1>9. Polled'
  BY <1>1 DEF Polled
<1> QED BY <1>4, <1>5, <1>8, <1>9 DEF JobsIInv

-----------------------------------------------------------------------------
(***************************************************************************)
(* The invariant and what follows from it.                                 *)
(***************************************************************************)
LEMMA JobsStart == Init => JobsIInv
<1> SUFFICES ASSUME Init PROVE JobsIInv
  OBVIOUS
<1>1. Holds(bg_jobs, <<>>, Job)
  BY NewRing DEF Init
<1>2. Listed = <<>>
  BY <1>1, ElementsHeld DEF Listed
<1>3. Shapes
  <2>1. proc \in ProcessTable
    BY DEF Init, Free, ProcessTable
  <2> QED BY <1>1, <1>2, <2>1 DEF Init, Shapes, ProcessTable, Labels, InLoop
<1>4. Rotation
  BY <1>2 DEF Init, Rotation, Rotated, InLoop
<1>5. Progress /\ Polled
  BY DEF Init, Progress, Polled
<1>6. NoChildLost
  <2>1. Children = {}
    BY DEF Init, Children, Free
  <2> QED BY <2>1 DEF NoChildLost
<1> QED BY <1>3, <1>4, <1>5, <1>6 DEF JobsIInv

LEMMA JobsNext == JobsIInv /\ [Next]_vars => JobsIInv'
<1> SUFFICES ASSUME JobsIInv, [Next]_vars PROVE JobsIInv'
  OBVIOUS
<1>1. CASE \E s \in Scripts, bg \in BOOLEAN : EnterScript(s, bg)
  BY <1>1, EnterScriptStep
<1>2. CASE CheckJob \/ KillJob
  BY <1>2, TakeOffStep DEF CheckJob, KillJob
<1>3. CASE PollRunning \/ PollEnded
  BY <1>3, PollStep
<1>4. CASE Exit
  BY <1>4, ExitStep
<1>5. CASE Checked \/ ParentRuns \/ KillReturns \/ StartWaiting \/ Waited
  BY <1>5, ControlStep
<1>6. CASE Fork
  BY <1>6, ForkStep
<1>7. CASE KillSkipsJob
  BY <1>7, KillSkipsStep
<1>8. CASE Signal
  BY <1>8, SignalStep
<1>9. CASE FileJob
  BY <1>9, FileJobStep
<1>10. CASE Wait
  BY <1>10, WaitStep
<1>11. CASE (\E p \in Pids : Exits(p) \/ Starts(p)) \/ UNCHANGED vars
  BY <1>11, EnvironmentStep
<1> QED BY <1>1, <1>2, <1>3, <1>4, <1>5, <1>6, <1>7, <1>8, <1>9, <1>10, <1>11
        DEF Next, RunScript, Finished

LEMMA JobsInductive == Spec => []JobsIInv
BY JobsStart, JobsNext, PTL DEF Spec

\* Whenever no loop over the deque is under way, the jobs are listed in the
\* order of their ids, so get_next_job_number() (execute.c), which looks at
\* the last job only, gives an id greater than every other.
THEOREM IdsInOrder == Spec => []JobsInOrder
<1>1. JobsIInv => JobsInOrder
  <2> SUFFICES ASSUME JobsIInv, at \in {"prompt", "create", "parent", "wait"},
                      NEW m \in DOMAIN Listed, NEW n \in DOMAIN Listed, m < n
               PROVE  Listed[m].job_id < Listed[n].job_id
    BY DEF JobsInOrder
  <2>1. Shapes /\ k = 0 /\ Rotated(Listed, 0)
    BY DEF JobsIInv, Rotation, InLoop
  <2>2. m \in 1 .. Len(Listed) /\ n \in 1 .. Len(Listed) /\ Len(Listed) \in Nat
    BY <2>1, ListedFacts
  <2>3. Older(Listed[m], Listed[n])
    BY <2>1, <2>2 DEF Rotated
  <2> QED BY <2>3 DEF Older
<1> QED BY <1>1, JobsInductive, PTL

\* Every child that still has to be reaped is known by its pid to the script
\* being run or to a job, whatever waitpid(-1) of check_jobs_bg_status()
\* reaps and whichever pid fork() is given again.
THEOREM ChildrenAccountedFor == Spec => []NoChildLost
<1>1. JobsIInv => NoChildLost
  BY DEF JobsIInv
<1> QED BY <1>1, JobsInductive, PTL
=============================================================================
