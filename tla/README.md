# A verification development for 678labs

The repository holds the programs of an operating systems course: threads that
share a buffer, dining philosophers, a job scheduler with its simulator, a buddy
allocator, a shell, and smaller exercises. They share no state with each other;
what makes each of them worth modelling is inside it. This directory holds TLA+
modules that model them from their source, configurations that model-check them,
and theorems about them with proofs.

Run a check with `tlc -config X.cfg M` for the pairs listed under *Runs*, and a
proof with `tlapm M.tla` for the modules whose names end in `Proofs`.

## Inventory

| Part | State | Operations | What is hard | What makes it correct |
|---|---|---|---|---|
| `pthreads_pc/producer_consumer.c` | ring with flags `full` and `empty`, two counters, one mutex, two condition variables | `queueAdd`, `queueRemove`, the two thread functions, `main` | interleavings; wake-ups; how the last item ends everybody | items come out once and in order; nobody sleeps who could go on; everybody ends |
| `pthreads_dp/*.c` (three programs) | a mutex per chopstick, or flags under a waiter's mutex; `Stop`; `prog` | `dp_thread`, `main` as monitor | lock order; unlocked flags; a monitor that guesses, and unlocks what others hold | neighbours do not eat together; no circle of waiting; the program ends |
| `scheduler/src/libpriqueue` | growing ring of pointers | offer, poll, at, remove, remove_at | wrap-around, growing in the middle of a wrap, ties | behaves as a stable sorted list |
| `scheduler/src/libscheduler` | queue of jobs, queue of idle cores, array of running jobs, totals | start up, new job, job finished, quantum expired | remaining times brought up to date only sometimes; jobs preempted in the unit they start in | order and preemption of each scheme; true averages |
| `scheduler/src/simulator.c` | table of jobs with cores, quantum clocks | its loop over time units | a second record of who runs where; a table that is edited while it is walked | agrees with the scheduler; every job finishes |
| `buddy/buddy.c`, `list.h` | free list per order, page table | alloc (splits), free (combines) | long sequences; sizes known only to first pages | memory is partitioned; buddies always combine; no needless refusal |
| `buddy/simulator.c` | variables with blocks | alloc, free, error status | variables assigned over | only blocks in use are freed |
| `quash/src/execute.c`, jobs | deque of jobs with pids, pids of the current script | run script, poll, fork, kill, wait, exit | processes that end at any moment, pids that are used again, failing forks | ids in order, no child forgotten, the prompt returns |
| `quash/src/execute.c`, pipes, with the flags from `parse.y` | two pipe entries used in turn, flags of each command | grammar's rules for redirections and pipes, create process, close, open files | descriptors inherited by every fork; commands redirected and piped at once; files that cannot be opened | only neighbours are connected, readers see the end of input |
| `quash/src/deque.h` | growing ring | push, pop and peek on both sides, update, as an array | as for the priority queue | (through the jobs and the parser's list) |
| `quash/src/parsing/memory_pool.c`, `.h`, main loop of `quash.c` | deque of ever larger pools | initialize, alloc, strdup, destroy; lists with arrays in the pool | pools that are too small, `malloc` failing anywhere, lists that move while they wrap | nothing is handed out twice, everything is freed, every request ends |
| the rest of `quash/src/parsing`, `command.c` | token stream | lexer, constructors, text | little: text | not modelled |
| `procfs/dine.c`, `procstat.c` | as the philosophers; counters read from `/proc` | as above | as above | the locking is that of the philosophers |
| `ipc/fork.c`, `ipc/finder.c` | two pipes in turn; three pipes at once | fixed pipelines | every child inherits what is open; order of closes | as quash |
| `signals/signals.c` | a counter, an alarm | three handlers | a handler that waits for input while an alarm runs | not modelled |
| `sockets`, `mmio`, `eecs678-*`, `debuggers`, `scheduler/src/queuetest.c`, `ipc/bash-4.2` | little or none | | sequential, external or vendored | not modelled |

Interaction exists in four places: the scheduler is called by its simulator and
uses the priority queue; the buddy allocator is called by its simulator; quash
works against the kernel's process table and pipes, as do the programs of the IPC
lab; its parser takes memory from the pool, which is itself kept in a deque. The
models compose the same parts.

## Modules

| Module | Models | State and actions |
|---|---|---|
| `ProducerConsumer` | `producer_consumer.c` | `fifo` is the ring with its fields; `procount`, `concount`; `mutex`, `notFull`, `notEmpty` (the sets of waiting threads); `pc`, `main`. One action per code section between two thread switches: taking the lock, the wait loop, the break, the critical section, the broadcast, the unlock, the exit; spurious wake-ups; creation and joins in `main`. |
| `BoundedBuffer` | what that program promises | a FIFO of at most `QUEUESIZE` items, each number once |
| `ProducerConsumerProofs` | | proofs about the former two |
| `DiningMonitor` | `main()` of the three philosopher programs | accounting periods, `Stop`, joins |
| `DiningPhilosophers` | `dp_thread` of `dining_philosophers.c` and `dp_asymmetric.c` | `chopstick` names the owner of each mutex; every lock and unlock is an action |
| `DiningWaiter` | `dp_thread` of `dp_waiter.c` | the flags, the waiter's mutex, who waits on its condition variable |
| `DiningProofs` | | proofs about `DiningPhilosophers` and, as its instance `W`, `DiningWaiter` |
| `PriorityOrder` | the place `priqueue_offer` looks for | the operators `Position`, `Insert`, `Sorted` for any comparison |
| `SortedQueue` | what `libpriqueue.h` promises | a sorted sequence |
| `PriQueue` | `libpriqueue.c` | `data`, `size`, `start`, `count` as in memory |
| `Scheduler` | `libscheduler.c` | its globals; a call relates its arguments and its return value to the next state |
| `Simulator` | `scheduler/src/simulator.c` | extends `Scheduler`; `jobs` is the table, `at` and `i` the place in the loop; `waited` and `idled` are history |
| `SimulatorProofs` | | proofs about `Scheduler` with any caller, and with this one, and about `PriQueue` as its instance `Q` |
| `BuddyAllocator` | `buddy.c` | `free_area` as sequences, `is_free` and `block_size` of each page; every split and every level of combining is a step |
| `BlockAllocator` | what `buddy.h` promises | a request is answered with an aligned, disjoint block of the smallest size that holds the bytes asked for, or refused if no block that large has a place |
| `BuddySimulator` | `buddy/simulator.c` | extends `BuddyAllocator` with variables and status |
| `BuddyProofs` | | proofs about `BuddyAllocator` and the program that calls it |
| `Deque` | `deque.h` and its copy in `memory_pool.h` | operators on the ring |
| `DequeProofs` | | what each operator does to the sequence a ring holds |
| `QuashJobs` | `execute.c`, jobs | `proc` is the process table (external), `bg_jobs` the ring of jobs; every `fork`, `waitpid` and `kill` is a step |
| `Pipeline` | the kernel's side of a pipeline (external) | which ends every process has open, what is in each pipe and file; commands as filters that read, write, end, or end early |
| `QuashPipes` | `execute.c`, pipes; the rules of `parse.y` for redirections, pipes and `&` | extends `Pipeline`; `holders` are the flags, computed from a script by the grammar's rules; one action for every `pipe`, `fork`, pair of closes; a child connects, closes, opens its files |
| `IpcPipes` | `ipc/fork.c`, `ipc/finder.c` | extends `QuashPipes` with `program`: `fork.c` has quash's parent and other children, `finder.c` its own |
| `QuashMemory` | `memory_pool.c`, `memory_pool.h`, the main loop | `pool_deq` is the deque of pools, `call` the request that is being served (every round of the loop and every `malloc` is a step), `list` a list of the parser |
| `Arena` | what `memory_pool.h` promises | disjoint pieces of memory the program has, given back at once |
| `QuashJobsProofs`, `QuashMemoryProofs`, `PipesProofs` | | proofs about `QuashJobs`, `QuashMemory` and `IpcPipes` (with quash as one of its programs) |

`MC*` modules and `.cfg` files instantiate them. Operators marked *Fault* are
plausible bugs next to the definition they would replace; no specification uses
them. Replacing the definition by the fault violates the property it belongs
to, which shows that the property depends on the code.

## Runs

| Configuration | Bounds | Shows |
|---|---|---|
| `MCProducerConsumer` | 2 producers, 2 consumers, 2 slots, 4 items | types, ring, wake-ups, stalls, all work done at the end, refinement of the FIFO, termination. Two threads of each kind are the least for which waking the wrong one matters, four items wrap the ring twice. |
| `MCDiningAsymmetric` | 3 philosophers, 2 periods, any judgement by the monitor | exclusion, no circle, termination |
| `MCDiningNaive` | the same with one order for all | *violated*: releasing the locks does not always let the philosophers exit |
| `MCDiningWaiter` | 4 philosophers, 1 period | flags, wake-ups, termination. With four, two eat at once, and a philosopher is signalled who cannot eat because of the other neighbour. |
| `MCPriQueue` | 3 elements of which 2 tie, at most 4 stored, initial size 2, `start` up to 6 | refinement of the sorted list; the ring grows once with every wrap |
| `MCSimulator` | 2 cores, files of 4 of 7 lines, 6 schemes, quanta 1 and 2 | scheduler and simulator, see below |
| `MCBuddySimulator` | 8 pages, 3 variables, sizes around the orders | partition, combining, lists, refinement of the block allocator: each request with its size is answered or refused as it may be |
| `MCBuddyWhole` | the same | *violated*: the buddy of the whole memory |
| `MCQuashJobs` | 3 pids, 3 scripts, forks that may fail, foreign processes | ids, no child forgotten, the prompt returns or waits for a background job after a failed fork |
| `MCQuashKill` | the same, forks succeed | *violated*: kill reaches processes that are not the job's |
| `MCQuashPipes` | quash, `fork.c`, `finder.c`; 4 commands, each with no redirection, `<`, `>>`, or `>` and `>>`, an ampersand or none, pipes of one item, an old output file of one item | wiring, delivery to terminal or file, end of input |
| `MCQuashMemory` | first pool of 2 bytes, strings of 1, 3 and 9 bytes, list of up to 4 elements of 2 bytes, 4 requests per script | refinement of the arena, the list's content, end of every request |

Four jobs on two cores are enough for a job to be preempted, wait behind another,
and be compared after its remaining time changed; the lines were chosen so that
jobs arrive in the unit others start or finish in. Eight pages have four orders, so
combining recurses three times. Three pids let one be reaped, used again and
signalled while a job of two processes lives. Four commands use each of the two
pipe entries again after its pipe was closed, and two of them lie between pipes, where
both redirections must go; a redirection twice on one command shows which one wins.
With pools of 2, 4, 8 and 16 bytes a string of 9 needs one or two pools without memory
before one is large enough; the deque of pools and the list both grow more than once.

### Fairness

Threads and processes are assumed to be scheduled: weak fairness of every
thread's steps and of `main`. Nothing is assumed of who gets a contended mutex, of
spurious wake-ups, of the monitor's judgement, or of commands that end early.
`QuashMemory` assumes that `memory_pool_alloc` goes on, nothing of `malloc`.
`QuashJobs` assumes that the processes of a script in the foreground end one day, for
these are what the script waits for; background jobs may run for ever. So after a failed
`fork()`, whose -1 `waitpid` takes for any child, quash may be held up by a job that
does not end: `ForegroundReturns` names that state (`WaitsForOthers`), says that
nothing else keeps the prompt away, and without this exception would be violated. In `DiningPhilosophers`, `Patient` says that a period
is long enough for somebody to eat unless all are stuck, which the code's comment
says of it; the passing runs do not use it.

## Proofs

Each theorem holds for every value of the constants that satisfies the assumptions its
modules name. Those are: what is asked of the input files (`InputAssumption` and its
neighbours), that there is at least one core, philosopher or slot, that a comparison function
returns an integer (`CompareAssumption`), that there are as many
scripts and pids as one likes but a script has a command (`run_script` returns at once
from an empty one), and that `NULL`, an unused cell or no job is not a value a job can
have (`NullAssumption`, `NoJobAssumption`).

**The bounded buffer** (`ProducerConsumerProofs`), for every set of producers and
consumers, every queue size and every amount of work, if memory is zeroed
(`ZeroedHeap`: nothing sets the two counters, and with another value in them threads
stop too early or too late, which violates `WorkDone`):

- types and the mutex (`TypeCorrect`, `MutexCorrect`),
- the ring (`RingCorrect`): `head`, `tail` and the flags are functions of the two
  counters, and the used slots hold consecutive numbers,
- `WakeupsCorrect`, `StallFree` and `AllWorkDone`,
- `Refinement`: the program implements `BoundedBuffer`.

The inductive invariant `IInv` adds to the types the mutex invariant, that the
content of the slots is what the counters say, and that threads leave only when
the work is done. Each is needed for the others: the ring is changed only by the
holder of the mutex, full and empty are told from the counters, and a broadcast is
owed by whoever holds the mutex. `StallFree` follows from wake-ups without
induction: a blocked consumer means an empty ring with work left, hence producers
that have not left and, the ring not being full, are not blocked; and the other way
round.

**The philosophers.** `DiningProofs` proves for every number of philosophers that mutex
owners are who the code believes (`OwnerInv`, with where `main` is in its loops), from it
exclusion, and for the asymmetric order that not all philosophers are blocked: if
all were, philosopher 0 or 1 would hold chopstick 0, which both take first, and wait
for its second one; whoever has that has it as a first chopstick, and following the
chain around the end of the table gives a philosopher with both. Its second half, about
the instance `W` of `DiningWaiter`, proves that the flags are those of the chopsticks in
use (`ChopsticksCorrect`, for `ChopstickInv`), that no wake-up is lost (`WakeupsCorrect`,
for `NoLostWakeup`), and from the two that never all philosophers wait: if nobody eats,
all chopsticks are there, so whoever waits is about to be signalled by somebody who does
not.

**The scheduler** (first part of `SimulatorProofs`), for any number of cores and jobs, any running
times and priorities, and any caller: the queue and the array agree, the queue is
sorted, preemption is complete, nobody is served out of turn. A call changes queue and
array several times; the proof follows it through its small steps (vacate a core, bring
a job up to date, enqueue, start the head), each a lemma over a pair of queue and array.
`Position` exists by the least-number principle, and inserting there keeps a sequence
sorted because the comparisons are strict weak orders, though for jobs that tie the code
calls neither the first. `ImportantFirst` needs that a job is only enqueued when every
running one is at least as important, *after* all were brought up to date.

**The simulator** (second part of `SimulatorProofs`): every step is a call of the scheduler that
`SchedSpec` allows, or a tick of its clock, so that what was proved of the scheduler
carries over (`SimulatorImplementsScheduler`, `SchedulerInSimulator`). The relation `Table`
between the table that `main()` keeps and the scheduler's queue and array says that a
job is on a core, waiting, finished or not arrived in both, and has the same time left.
It must be kept while the loop walks a table that a finished job has just been deleted
from, by moving the last entry into its place: hence the conjuncts that say which
entries the loop has passed (`InTime`, `Work`). From it `TablesAgree`, `TimesAgree` and
`NeverFails`, which says that `main()` ends in none of its complaints.

**The averages** (third part of `SimulatorProofs`): `AccountsRight` compares the totals, which
the scheduler computes from the times it notes in a job, with what happened: the time
units in which a job was there and did not run (`waited`), and those before it first ran
(`idled`). The invariant `AccInv` says of every job in the scheduler's hands (`Recorded`)
that it was idle from its arrival to its start, and has run exactly if it started before
this time unit: a start in this unit may still be taken back, and is as good as none
(`RecordKept`). Nothing but `QueuedAgain` takes it back, so a quantum must not expire in
the unit the job starts in (`Fresh`, from `quantum > 0`). Every entry of the table has
waited or run since it came (`Booked`), and the totals are the sums over the jobs that
left the table (`Totals`). `MapThenSumSet` adds up a set in an unknown order; that every
order gives the same sum is proved by the least-number principle from the existence of a
function that gives all the sums (`SumsExist`, `AnyOrder`).

**The priority queue** (last part of `SimulatorProofs`, where `Q` is `PriQueue` with any
comparison function that returns an integer, `CompareAssumption`; it need not be an order):
`RingKeepsOrder` says that `PriQueue` implements `SortedQueue`. `Keeps(r, s)` says that a
ring holds the sequence `s`, in slots that go around the end of the array; indexes below
`size` have different slots wherever `start` is (`Slots`). Each loop is a recursive
function, for which a solution must first exist: it is the course of a loop of so many
rounds (`Course`). Going along it, the new element is swapped down to the place the
search stopped at (`OfferedInto`, `OfferedAt`), a removed one is swapped up behind the
others, which close up in their order and leave it in the slot that is read as the return
value (`RemovedAt`), and `priqueue_remove()` has, after n rounds, looked at exactly the
first n elements the queue had and kept those that are not `ptr` (`LookedAt`,
`RoundLooks`). With `Resized` and the step of `poll` this gives every call (`QueueStep`).
The bounds `MaxCount` and `MaxStart` play no part in it. `SortedQueue` says of a removal
which elements stay and in which order (`Without`), not how to compute them. The
scheduler's proofs use the same `Insert` for its queue.

**The deque** (`DequeProofs`): `Holds(d, s, S)` says that a ring `d` holds the sequence
`s`; every operation of `deque.h` does to `s` what its name says, also when the ring is
wrapped, grows or is realigned. The two following proofs work with `s` only.

**The jobs of quash** (`QuashJobsProofs`), for any number of scripts, processes and jobs,
any reuse of pids and any failing `fork()`. Two loops rotate the deque of jobs; while one
is under way, the jobs it has put back are older than those it has not seen, and each
part is in order (`Rotated`, `Taken`), so that the deque is in order when the loop is
over (`IdsInOrder`). `ChildrenAccountedFor` needs that a job is forgotten only when no
process of it is a child any more: a pid that was polled is no child of the job (`Polled`),
because `waitpid` has reaped it or found that there is none. That another process of
quash might have been given the pid in the meantime is excluded since quash forks
nothing inside the loop; a foreign process that gets it is no child. Ids are at most the
number of the script, scripts of listed jobs differ, and a script's pids are owned by
its job alone.

**The memory pool** (`QuashMemoryProofs`), for any sizes, any number of requests and any
refusals of `malloc`: only the last pool gives memory and has given nothing beyond its
`next`, every block quash owns is a pool of the deque, and a pool without memory has size
zero. So `PoolImplementsArena`: what is given is apart from all that was given, and all is
freed after a script. `ListsIntact` follows from the lemmas about the deque: a list that
is moved while it wraps is copied in two parts.

**The buddy allocator** (`BuddyProofs`), for memory and pages of any size, any variables
and any requests up to `SizesAssumption`. Powers of two get their arithmetic from the
finite cardinalities of power sets. Of two aligned blocks with a page in common one lies
in the other (`BlocksNest`), and buddies make up the aligned block of the next order
(`BuddyFacts`). The inductive invariant `BuddyInv` says, also for the states between two
steps of a split or of combining:

- `MemoryDivided`: the blocks in lists, in use and in the hand of `buddy_free` (`Starts`)
  are aligned, disjoint and cover memory; `Listed` and `AllSorted` say which list a free
  block is in, and in which order the lists are,
- `NoPairs`: two buddies are never both in a list, except the two the last split left,
- `Splitting` and `Combining`: how far the call has come. All lists between the order that is
  needed and the one that is split are empty.

Combining reads the page table at the buddy's first page, whose entry is stale if that
page lies inside a block. It never does: where the buddy begins, a block begins that is no greater
(`BuddyBegins`), hence `CombineReadsBlock`, the counterpart of what `MCBuddyWhole` finds for
the whole memory, which has no buddy. From the invariant `EveryPageOnce`, `BuddiesCombined`,
`ListsStaySorted`, `SplitsIntoEmptyList`, with `Held` for the simulator's variables
`VarsKeepBlocks`, and `BuddyImplementsBlockAllocator`. There `asked` ties the two: it is the
parameter of `buddy_alloc()`, the abstract allocator sees it as the request, and must answer
with the smallest level that holds it. While blocks are split, `needed` stays the order
of `asked` (`Splitting`), and the levels that hold a request are those from the needed order
on (`NeededFits`). The hardest step is a refusal: if memory had an aligned place of such a
level that meets no block in use, the smallest free block in it would have a free buddy,
which `NoPairs` excludes (`NoRoom`).

**The pipelines** (`PipesProofs`), for quash, `fork.c` and `finder.c`, pipelines of any
length, any redirections of each command, pipes of any size, and commands that end early.
quash's flags come from the grammar, which `QuashPipes` writes as a fold over the script
from the right: `FlagsFit` says that behind the first command each one reads a pipe and
no file, and before the last one each writes a pipe and no file, by induction over the
places of the script. `IpcWired` rests on `WiringInv`: which pipe the shell's two entries
hold and which ends it has open at each step of making, forking and closing
(`ParentInv`), and which ends a child has inherited, connected and closed at each step of
its own (`ChildInv`). `IpcDelivers` adds `DeliveryInv`: as long as no command
ends early, they end from left to right, each after passing on all that was in front of
it (`InOrder`), only the last one writes to the terminal or the file (`Sinks`), and the
items in front of, inside and behind the commands add up to what there was (`Conserved`,
with a function that gives the sums, as above).

Model-checked only:

- all liveness (`Termination`, `ForegroundReturns`, `AllocEnds`), which the provers cannot do;
- what the three violated runs state, which is false.

Every invariant, action property and refinement of the passing runs is thus a theorem.
Induction over data, for the flags, the sums and the loops of the priority queue, is done
over sets of numbers: the set of lengths for which the claim fails has no least element.

## Not modelled, and why

- Input that the programs do not check: running times below one, sizes above
  2^30, absurd numbers of cores. The models assume what the example files satisfy
  and name the assumption (`InputAssumption`, `SizesAssumption`).
- Parsing, printing and the timing diagram of the scheduling simulator.
- 32-bit overflow of `start` in the priority queue, which takes 2^31 polls.
- `cd` and `export` in quash, the contents of strings and commands, and which calls of
  the pool the generated parser makes in which order (`QuashMemory` allows any order,
  with one list at a time; more lists would only be more requests). Addresses have no
  alignment. The array of the deque of pools comes from `malloc` too and is not counted
  in `owned`.
- In pipelines, a command is a filter or ends early; builtins that run in a child behave
  like commands that end. Input and output files are different files. `pipe()` and, in
  `QuashPipes`, `fork()` succeed; failing forks are in `QuashJobs`.
- `signals.c`: one counter and one alarm; the race between the answer and `alarm(0)` is
  listed as a hazard.
- `procfs/dine.c`'s way to judge progress, sockets, the counting and function pointer
  labs, file copies: little state, or almost all of it the operating system's.
- `ipc/bash-4.2` is the source of a shell that the IPC lab searches as test data. It is
  most of the repository's code and none of this project's programs.
- The deliberately buggy exercises and generated code.

## Plan

The order was: the buffer and its proofs, the philosophers, the priority queue and
the scheduler with its simulator, the buddy allocator, quash with its jobs and pipes,
then redirections and background pipelines, the IPC lab and the memory pool, and last the
proofs about the pipelines, the averages and the priority queue. Next:

1. Extend: the signal handlers with their alarm, the monitor of `procfs/dine.c`.
