# PingPongOS in TLA+

A verification development for PingPongOS, a teaching kernel in C: tasks are
`ucontext` coroutines on one CPU, a UNIX timer signal is the clock, and a
binary virtual disk raises SIGUSR1 when an operation ends. Two files are the
project's own work, `ppos-core-aux.c` (scheduler, clock, hooks of the kernel)
and `ppos_disk.c` (disk manager). The rest of the kernel is linked as objects
(`ppos-all.o`, `queue.o`, `disk-driver.o`) whose behaviour is modelled from the
way the two files and the test programs use it and is marked external in
`PROJECT.json`. The test programs (`pingpong-*.c`) are modelled too: they say
what the operations are for.

## 1. Inventory

| component | state | operations | interacts with |
|---|---|---|---|
| CPU scheduler (`ppos-core-aux.c` 65-150) | `prio_static`, `prio_dynamic` of each task; `readyQueue` | `scheduler`, `task_setprio`, `task_getprio` | called by the dispatcher; reads the queue the kernel fills |
| tick and quantum (170-214) | `quantum`, `_systemTime`, preemption flag | `interrupt_handler`, `timer_init` | interrupts any task; `task_yield` |
| life-cycle hooks (231-435) | task state, `freeTask`, wait queues, preemption flag | before/after hooks of create, exit, switch, yield, suspend, resume, join, sleep | called by the bodies in `ppos-all.o` |
| accounting (263-350) | `exec_start`, `proc_time`, `last_proc`, `activations` | `after_task_create`, `before_task_switch`, `after_task_switch`, `after_task_exit` | the clock |
| synchronisation (446-700, empty hooks) | semaphores, mutexes, barriers, message queues | bodies in `ppos-all.o` | ready queue, preemption flag |
| disk interface (`ppos_disk.c` 175-245) | the caller's request and buffer, `stats` | `disk_block_read`, `disk_block_write` | appends to `requestQueue` under `semaforo_queue`, suspends on `diskQueue` |
| disk manager task (262-331, 488-587) | `livre`, `sinal`, `perf_tracker`, shutdown flag | `bodyDiskManager`, `processCompletionEvents`, `processNewRequests`, `executeRequest`, `disk_mgr_shutdown` | takes requests, commands the driver, resumes suspended tasks |
| disk policies (348-442) | head position | `fcfs_scheduler`, `sstf_scheduler`, `cscan_scheduler` | scan `requestQueue` without the semaphore |
| driver (external) | operation in progress, disk contents | `disk_cmd`, completion timer | SIGUSR1 to `diskSignalHandler` |
| queue library (external) | links of the elements | `queue_append`, `queue_remove` | every list |
| test programs (`pingpong-*.c`) | their shared variables and buffers | what they call | every operation above |

What is hard here: a tick can end the quantum of a task between any two
instructions outside a critical region, in particular inside
`disk_block_read/write`; two flags (`livre`, `sinal`) stand for one device; the
request is chosen before the semaphore is taken; a completion wakes the head of
a queue of tasks, not the owner of the request; fairness comes from aging and,
for the disk, from the policy; the preemption flag is a flag, not a counter, so an
operation called inside another ends the critical region of both; and main is
never preempted but suspends, joins and destroys under tasks that are.

What makes each part correct: the CPU goes to the best task and no ready task waits for
ever (scheduler); one task on the CPU, and one whose quantum is over loses it as soon as
a tick finds the flag on (tick, hooks); every request is served once, in the order the
policy says, and the flags agree with the device (manager); a call returns after its own
transfer (interface); nothing is left undone at the end (shutdown); a thread is in one
place, semaphores agree with their queues, no thread loses its stack and runs on, a join
waits for the end, and whoever waits is woken (kernel); and each program shows what it
was written to show.

## 2. Modules

    Scheduler ── Overtaking ── MCScheduler
                     └──────── SchedulerProofs
    Accounting ─┬─ MCAccounting
                └─ AccountingProofs
    Kernel ─┬─ TestPrograms ─┬─ MCPrograms
            └─ KernelProofs ─┴─ TestProgramsProofs
    DiskPolicy ── DiskQueues ── DiskPrograms ── DiskProgramsProofs
    DiskPolicy ── DiskArm ─┬─ DiskPolicyLoops ─┬─ MCCscanSweep
                           └─ CscanSweep ──────┴─ DiskArmProofs
    DiskPolicy ── DiskManager ─┬─ MCDiskManager
                               └─ DiskManagerProofs
    DiskManager!Arm == DiskArm,  DiskManager!Queues == DiskQueues,
                  DiskManager!Svc == DiskService
    ListsAndSums, used by AccountingProofs, DiskArmProofs, DiskManagerProofs
                  and TestProgramsProofs

**Scheduler** has one action per kernel operation, each taken whole:
`Dispatch` is the dispatcher's turn (`scheduler()` with aging and reset, then
`task_switch`, whose hook refills the quantum), `Tick` is `interrupt_handler`
on a user task, `TaskYield`, `TaskSuspend`, `TaskResume`, `TaskCreate`,
`TaskExit` and `TaskSetprio` are the operations of that name with their hooks.
The ready queue is a set: `scheduler()` reads all of it and breaks ties by id.
Main (id 0) is a task of the queue but not a user task; the dispatcher (id 1)
stands for "nobody runs". The handler yields only if the quantum is over *and* the
preemption flag is on (l.185), so the flag is a variable here too: `CriticalBegin` is
the first hook of an operation, which turns it off, ticks may come then and shorten the
quantum to 0 and below with the task still on the CPU, and the effect of the operation
or `CriticalEnd` turns it on again. The bound `Overrun` says how far below 0.

**Overtaking** adds history variables to Scheduler that constrain nothing: how often
each user task has been chosen over each waiting task (`overtaken`), and how many ticks
that found the flag on the executing user task has had since it was chosen
(`openTicks`). A choice of a task that has itself aged to PRIORITY_MAX is not counted.

**Accounting** is the same CPU seen by the clock. A switch is two steps, as its
two hooks are: `LeaveCPU` and `Dispatch` end with `before_task_switch`, which adds
`systime() - last_proc` to the task that leaves, and `AfterTaskSwitch` is
`after_task_switch`, which starts the next slice. `Tick` may come at any point,
between the two as well. `TaskExit` is `task_exit` up to the report of
`after_task_exit`; the switch away follows. `System` is main or the dispatcher,
which are not charged. Which ready task is next and why a task leaves are left
open. `spent` is a history variable: the ticks a task has really had.

**Kernel** is the kernel at the grain of its preemption flag, and the composition
of scheduler, life cycle and synchronisation. A program gives each thread a script
of instructions (`create`, `join`, `down`, `up`, ... and, for its own computation,
`load`, `store`, `again`, `goto`); each operation is one action per stretch between
two points where the end of a quantum can show, with a step name for the points
inside it: `region` in `sem_down` between the test of the semaphore and the
critical region, `yield` and `back` in an operation that suspends, before and after
the switch, `freeing` and `release` in the loops of `sem_destroy` and `barrier_join`,
`exiting` and `drain` in `task_exit`. `Preempt` is `interrupt_handler` at the end of
a quantum: it needs the flag on and a user task that has run since it was
dispatched, and a step not in `Quiet`, which is empty when nothing is assumed. The
hooks in `ppos-core-aux.c` say where the flag goes off and on; the bodies are in
`ppos-all.o`, and the order of their steps is that of the object code. The hooks of
the semaphores, barriers and message queues (l.446-700) are empty, and that is modelled
too: no hook turns the flag off before `sem_down` looks at its semaphore, so a quantum
may end between that look and the critical region of the body, and `sem_up` of a
destroyed semaphore returns with the flag off, since no hook turns it on. The map names
these hooks beside the object file. The
dispatcher takes any ready thread, so what holds here holds for any priorities; it
frees the stack left in `freeTask` when it gets the CPU and stops the system when
`countTasks` is 0. What happens on a freed stack is undefined: the model stops that
thread. That it comes to this the run `exit_window` shows (`NoFreedStack`);
`FreedOnlyInExit` says that it does so nowhere else, which holds with every window open.

What a program may expect of its semaphores is said there too, of every program whose
main makes them before it creates a task and leaves their use to the tasks
(`Prepared`). A *ring* is a set of semaphores, perhaps with a cell, between which units
go round: the one of a lock, the two of a turn, the two of a buffer, or one of these
with the number of items. A script holds a unit of the ring between an instruction
that takes it and the next that gives it back (`Held`), and is `Closed` when it takes
one only while it holds none, gives back only what it holds and jumps with what it
holds. `Rings` finds them in the scripts: in the programs as they are, `s1` with `s2`
in `pingpong-semaphore`, the lock of `pingpong-racecond`, and in `pingpong-prodcons`
and `pingpong-mqueue` the lock of each buffer and its places and items.
`UnitsGoRound` says that what is free, held and stored in a ring is always what main
put into it; `NoUpdateLost` that a task about to store into a cell that a lock guards
has read what is in it. Both are about semaphores in use (`InUse`: none has been
destroyed). `sem_destroy` lets through whoever waits, and what a task then holds depends
on whether it looks at the -1 that `sem_down` returns. A ring is `firm` when no script
gets one of its units by a `sem_down` that fails (`Honest`), nor stores into its cell
without a lock of that kind (`Safe`); of those rings the two properties also say that no
unit is made and no update lost after semaphores are destroyed. The rings of
`pingpong-mqueue` are firm, since `mqueue_send` and `mqueue_recv` return when a
`sem_down` in them fails.

**TestPrograms** has the scripts of the programs, one definition each, and the
properties they were written to show. The numbers of tasks, rounds and places are
constants: small in the runs, any in the proofs. `ThePrograms` are all of them, and
`Programs` is the set of those a run or a theorem is about. What `pingpong-barrier`
shows is said in Kernel, of every program that uses a barrier for one meeting
(`OneMeeting`, `BarrierHolds`).

**DiskPolicy** defines the three policies as a relation between a request list,
a head position and the position chosen. **DiskPolicyLoops** has the loops of
the code, iteration by iteration, which `LoopsAgree` compares with DiskPolicy on
every list that occurs. `diskrequest_t` declares `next` and `prev` in the other
order than `queue_t`, so the loops run from the head to the newest request and
backwards; the order decides ties.

**DiskArm** is the abstract disk: a list of requests, the head, the request in
progress. **CscanSweep** adds a history variable that counts, for each pending
request, how often the arm has gone back since it came in.

**DiskService** is the abstract service each task is promised by the comments before
`disk_block_read` and `disk_block_write`: a call returns after the block has been
transferred, once, between call and return. The code keeps this promise only under FCFS
and when no quantum ends between `sem_up` and `task_suspend`; CSCAN is its default.

**DiskQueues** is what the code gives under any policy, at the grain a program can tell:
a line of requests, a line of sleeping tasks, the request in hand. The policy takes a
request out of the one line, the disk transfers it, and the completion resumes the first
of the other, whoever has asked for what is done. `semaforo_queue` is there as the time
between `Ask` and `Up` in which nobody else edits the list.

**DiskPrograms** runs `pingpong-disco1.c` and `pingpong-disco2.c` over DiskQueues and
not over the promise: a call returns when its task is resumed, its transfer done or not,
and the transfer reads or writes the task's buffer as it then is. What the programs mean
(`NothingLost`, `DiskAtTheEnd`) needs the two conditions above, which the run and the
theorems name; section 5 says what happens without them.

**DiskManager** is `ppos_disk.c` in detail. Each client has a control point in
`disk_block_read/write` (`down`, `append`, `link`, `up`, `suspend`, `blocked`,
`load`, `store`), the manager one in its loop (`top`, `complete`, `new`, `down`,
`remove`, `cmd`, `busy`); a step is what runs between two points where a
preemption shows. `append` and `link` are the two writes of `queue_append` on an
empty list, `load` and `store` the two halves of `stats.*_operations++`,
`semwait` a wait on `semaforo_queue`. `disk.semaforo` is left out: the manager
alone uses it and never waits on it. Which task runs next is left open, so what
holds here holds for any priorities and quanta. Control points in
`NonPreemptible` are points where the quantum does not run out: the empty set
assumes nothing, and the others say under which assumption a property holds.

## 3. Runs

| run | question | bounds |
|---|---|---|
| `scheduler` | safety and no starvation of the CPU scheduler; is a task whose quantum is over taken off, and how often is one passed? | main and 3 user tasks, scale -2..2, quantum 2, 1 tick of overrun, 1 `task_setprio`, 1 yield of main |
| `accounting` | is every tick charged once, to the task that had it? | 3 tasks, 4 ticks, 2 activations each |
| `programs` | safety of the kernel's operations under eleven programs, and what the programs show, quanta ending everywhere | main and 4 tasks, 1 repetition, buffers of 1 place |
| `programs_live` | does every wait end, and every program, and with nothing left? | main and 3 tasks, no repetition, no quantum ends at `exiting`, `drain`, `region` |
| `exit_window` (violation) | see section 5 | `pingpong-join` with 3 tasks |
| `disk_cscan` | the policies' loops; sweeps of CSCAN | 4 blocks, 4 pending requests |
| `disk_programs` | do the movers keep every block, and is the disk as meant at the end, over DiskQueues? | 3 tasks, 13 blocks, FCFS, no quantum ends at `suspend` |
| `manager_any` | flags, list, semaphore, counters, and refinement of DiskArm and of DiskQueues under every preemption, SSTF | 2 clients with 2 calls each, 2 blocks |
| `manager_fcfs` | the service each task is promised, its liveness, the end of the system, FCFS; refinement of DiskService with its fairness | the same, no quantum ends at `suspend`, main waits for the tasks |
| `own_request`, `lost_wakeup`, `half_linked` (violations) | see section 5 | 2 clients |

Bounds. The scheduler's arithmetic is by steps of one between two limits, so a
shrunk scale has the same corners: aging that reaches the limit, static
priorities at both ends, arguments of `task_setprio` inside and outside. Three
user tasks are the least for a third to lose ties to two others, and with the
default priority 0 and the limit -2 they sit exactly at the distance
`NoStarvation` asks for. On the code's scale that reads: up to 21 user tasks at
the default priority cannot starve one another, 22 can, and two at the best
priority -20 can starve a third. `SetprioBudget` and `MainYieldBudget` cap how
often a behaviour changes a priority and how often main yields. `Overrun` is how many
ticks may find a spent quantum and the flag off; with quantum 2 and one of them a task
reaches -1 with the flag off and the next tick finds it on below 0, which is all the
test `quantum <= 0` can tell apart. Four requests
over four blocks give every relative order of requests and head, ties included.
Two clients with two calls give a request pending while another is in progress,
and a client that comes back while the other waits; with one call fewer clients
never meet the manager's second turn. Four tasks give the programs with two kinds of
bodies two of each, so that tasks of one kind compete; one repetition brings each
loop back to its beginning with the others anywhere; a buffer of one place is full
and empty in turn. The liveness run has one task of one kind less and no
repetition, for the size of its graph: `pingpong-mqueue` still has the adder receive
three values, send one and end, with producer and consumer anywhere when the queues
are destroyed. Thirteen blocks and three movers make two rounds each with one block
left over in the middle. `MaxQueue` caps pending requests, `MaxOps`
the calls. `MaxTime` and `MaxActivations` cap the clock and the dispatches: the
accounts only ever subtract two readings of the clock, so four ticks give a slice
that starts at 0, empty slices, and a tick inside each of the switches of two
slices of one task. `CHECK_DEADLOCK FALSE` where the system ends (all tasks gone, the
manager gone, the clock at its bound) and where a violation leaves it stuck; the
runs of the programs check it, since there the end of the process is a step.

Symmetry is used in `manager_any` and `accounting`, which have no liveness property.

Fairness. Scheduler: the dispatcher's loop goes on; a user task that turned the
preemption flag off turns it on again, which is true of the programs and no promise of
the code (`task_join` of a task that has ended returns with the flag off); the timer,
whose clock is not the tasks', does not for ever miss the times when the flag is on
(strong, since the flag goes off in between); and main,
which no tick preempts, sooner or later joins a task or exits (every test
program does; a main that computes for ever starves everybody). DiskManager: a
task that can run is run, which `NoStarvation` gives for the number of tasks the
programs have; the driver's timer fires; main reaches its end. Weak fairness is
enough for the rest, since nothing but the step itself disables these steps for
good, but for Kernel: the running thread goes on (weak), and each thread that is
ready or asleep again and again is dispatched or woken (strong), since a thread is
taken out of the ready set by every dispatch of its own only; that the scheduler
passes nobody over for ever is `Scheduler!NoStarvation`, for the numbers of tasks it
states, and the clock reaches every sleeper's time. The strong form is needed
because other threads take the CPU, which disables `Dispatch`, in between.

Quiet. `programs` assumes nothing of where quanta end: `Quiet` is empty there.
`programs_live` lets none end at `exiting`, `drain` and `region`. The first two are the
window of `exit_window`: once a stack in use has been freed nothing can be said of what
is left at the end. The third is a `sem_down` that has seen the semaphore active and is
overtaken by its whole destruction, after which the task queues on a semaphore nobody
will release. Both windows are a few instructions wide and both are
open: `EverySuspensionEnds`, `ProgramEnds` and `NothingLeftAtTheEnd` hold of the programs
as far as no quantum ends in them, and not of hazards that bite inside. Likewise the
disk: `suspend` in `NonPreemptible` is an assumption about timing that the code does
nothing to secure.

Each property of a passing run has a mutant in `PROJECT.json`: a definition of the model
changed the way a slip in the code would change it, under which TLC finds the property
violated. The mutated definitions are marked `Mutant` in the modules and are used by
nothing else.

## 4. Proofs

`SchedulerProofs` proves, for every set of user tasks, scale, quantum and
`PrioArgs`, from the module's assumptions alone:

* `TypeCorrect`, `SingleCPU`, `AgingHelps`: the inductive invariant is their
  conjunction `SchedInv`. They need one another: that the reset of a chosen task does
  not touch one on the CPU needs `OneExecuting`; that aging only helps needs
  priorities in the scale. `OneExecuting` is proved here and
  in no run; that the thread on the CPU is in no queue, `OnePlaceEach` checks in Kernel,
  inside the operations too.
* `OvertakingBounded`. The bound is not inductive: it says nothing of how far
  the two dynamic priorities are apart. `CatchingUp` does: each time c passes t,
  t comes one step closer, unless t is already at the limit, where c is only
  counted if it has not aged there too. The two together with `SchedInv` are
  inductive.
* `TimerTakesCPU` (`LosesCPUInTime`), for every quantum and overrun. Inductive is
  `TicksFromQuantum`: each tick that found the flag on was taken from the quantum, and
  so were those that found it off; a tick that finds the flag on leaves the task on the
  CPU only with quantum above 0.

`KernelProofs`, for every set of tasks, every program that has the shape
`ProgramShape` asks for, and every `Quiet` but where a theorem says otherwise:

* `KernelTypes` and `OnePlace` (`OnePlaceEach`), from `PlacesInv`. That nobody is in
  two places is not inductive: a thread that is about to switch is suspended, queued
  and still on the CPU, so the invariant says of every step inside an operation what
  state its thread is in (`StepsFit`), whose CPU it is (`OnCpu`) and that a task not
  yet created is nowhere (`NotYet`).
* `ExactSemaphores` (`SemaphoresExact`): with `Freeing`, that a semaphore whose
  waiters are being released is no longer active.
* `StackFreedInExit` (`FreedOnlyInExit`), under no condition on `Quiet`: `freeTask` names
  a thread that is in `task_exit` or gone, and so does every stack that was freed, only
  such a thread is marked as ended, and who is gone never runs (`EndsInv`). Each step
  of a thread is one of six in its life (`LifeKinds`).
* `JoinWaits` (`JoinedHasEnded`), under none either, so with joins that come between the
  mark of the exiting task and the end of its loop: every waiter of a joinQueue is in a
  join of its owner (`Waiting`), and a thread inside `task_join` is suspended or the
  code of what it joins is over (`Joined`).
* `LastTask` (`NothingLeftAtTheEnd`), if `exiting` and `drain` are quiet: `countTasks`
  is the number of tasks created and not past `task_exit`, plus 1 until main has exited
  (`CountExact`), so at 0 nobody is left who could be in a queue (`EndsAtZero`).
* `BarrierMeets` (`BarrierHolds`), under no condition on `Quiet`. The count of the
  barrier is the number of threads that have come to it, and each of them is suspended
  in its queue, until the last one comes (`MeetInv`); from then on everybody has come
  and nothing is left to show. So it does not matter how the release loop is
  interrupted, nor who is dispatched in it.
* `UnitsConserved` (`UnitsGoRound`), under no condition on `Quiet`, and with it
  `MutualExclusion`, for every ring of semaphores with one unit, and `UpdatesKept`
  (`NoUpdateLost`). They are proved for every ring a program has and not only for the
  smallest, which `Rings` picks for the run (`AllRings`, `UnitsKept`). The invariant
  `UnitsInv` joins the two properties with `Waiting`, `Freeing` and `SemaphoresExact`,
  so that whom `sem_up` resumes is in a `sem_down` of the same semaphore and has the
  unit from then on, though it runs much later (`Has`), and with `NewInv`: until main
  has made all semaphores no task has begun, and one not yet created is at its first
  instruction, where it holds nothing. Each step is then one of five kinds for a ring: a
  unit taken or given with nobody waiting, a unit handed to who waits, a task that
  begins to wait, a store into the ring's cell, or none of these. In a ring in use the
  sum stays. In a firm ring it does not grow, whatever is destroyed: a task that
  `sem_destroy` resumes had no unit, and its `sem_down` fails to a place where the
  script holds none (`FirmCells` for the cells).

`TestProgramsProofs`, about the scripts themselves, for any numbers of tasks, rounds and
places:

* `SumExact` (`SumRight`), under no condition on `Quiet`. Inductive is `RaceInv`: the
  sum is what the tasks have added so far, told by the rounds each has left and its
  place in the loop (`Added`), one that has ended is at its last instruction, and those
  main has joined have ended. That main's join means an end is `JoinWaits`, and that a
  task's `+=` adds to what the sum still is, is `UpdatesKept`, once `RaceGuarded` has
  found the lock in the script. The sum over the tasks is an area again (`SumIsArea`).
* `BuffersHold` (`BufferInBounds`), under no condition on `Quiet`. A buffer is in two
  rings, of its places and of its items, and both are firm: that neither has more units
  than main made bounds the number of items from above and from below
  (`BufferBounded`), before and after `mqueue_destroy`. That the rings are closed and
  firm is about scripts with up to 31 instructions: `Held` is defined by what was last
  taken or given, and `Follows` compares it, one instruction at a time, with the set of
  places named for each script (`FollowsHeld`). `Unused` covers the programs that never
  store into a buffer.

`DiskProgramsProofs`, for every number of tasks and blocks: `MoversLoseNothing`
(`NothingLost`) and `DiskAsMeant` (`DiskAtTheEnd`), both under `Policy = "FCFS"` and
`"suspend" \in NonPreemptible`, the two conditions without which they fail
(section 5). First the lines of DiskQueues (`LinesInv`): the tasks
asleep, then the one on its way there, are the owners of the request in hand and of
those queued, in that order (`InOrder`), so that a completion resumes the task whose
transfer it was. Then the programs. `SharesFit`, `ShareRange`,
`SameShare` and `Apart` are the arithmetic: the shares of the movers fit twice into
the disk and no two meet, whatever the division leaves over. The invariant then follows
each block by itself: exchanged, not yet, or on its way, according to round and
step of the one task it belongs to (`Moving`), and what the calls in progress and
the buffers hold (`CallsFit`, `Carries`, `Exchange`).

`ListsAndSums` has what the other proofs need of data. The library's induction
theorems cannot be used here, and these do without: a set of numbers that has 0 and
with each number the next has them all (`AfterEach`), which gives what a loop ends on
(`LoopExists`, `FirstMinimum`: the first of the least keys); and the sum of a function
over a finite set is the number of unit squares under its graph (`SumIsArea`, by a
smallest set that would contradict it), so that a step that changes one summand
changes the sum by as much (`ChangeColumn`).

`DiskArmProofs`, for every set of clients and blocks, policy and queue bound:

* `ArmTypeCorrect`; `ServedOnTheWay` (`NothingPassedOver`), from what each policy
  chooses (`SstfChoice`: a nearest request; `CscanChoice`: the lowest block ahead,
  or with none ahead the lowest of all).
* `OneWrap` (`OneWrapPerWait`), inductive with the types (`SweepInv`): the arm goes
  back only when no request is ahead, and then to the lowest of them, so a request
  that has seen one wrap is at or ahead of the head from then on, and the next
  wrap needs that it be gone.
* `LoopsFindTheChoice` (`LoopsAgree`): the loops of the code, for queues of any length,
  end on the request DiskPolicy's definitions describe. The hypothesis is `BlocksFit`:
  a request at the distance `INT_MAX` the loops start from would never be taken.

`DiskManagerProofs`, for every number of clients, blocks and calls. First, for every
policy and every `NonPreemptible`, the empty set included, so that none of these facts
rests on where a quantum ends:

* `ManagerTypeCorrect` and `ChoiceStays` (`PickStays`), from the invariant
  `Structure`: types, requests filled in before they are queued, and `Lines`: the
  waiters of the semaphore are exactly at `semwait`, those of `diskQueue` at
  `blocked`, none of them twice. Without `Lines` a wake-up could send a task that
  is not waiting into the critical section, and types alone are not inductive:
  `queue_remove` needs a position in the list, which is `PickStays`.
* `OneEditor` (`QueueMutex`), from `Structure` and `Exclusive`: two holders are
  equal, nobody waits while nobody holds, the value counts both. The cardinalities
  of `QueueMutex` follow at the end.
* `LivreFollows` and `CommandsAccepted`, from `Flags`: the signal comes when the
  driver is done, a request is taken only on a free disk, and between `disk_cmd`
  and `livre = 0` the disk works or has signalled.
* `EveryRequestCounted` (`NoRequestLost`): what the tasks have submitted, as a sum over
  them, is what is queued, in the manager's hands or processed.

Then, on top of these, what DiskManager implements:

* `ManagerIsArm` (`ImplementsArm`): DiskArm, for every policy and every
  `NonPreemptible`. A request leaves the abstract queue when it is chosen, and requests
  may be appended before it is removed; the work is that the two lists agree all the
  same (`AbsRemove`, `RemoveAppended`) and that the manager holds a request from its
  choice to `disk_cmd` and at no other time (`Handed`).
* `ManagerIsQueues` (`ImplementsQueues`): DiskQueues, for every policy and every
  `NonPreemptible`, so that what holds of the disk programs holds over the manager. The
  list is free there when no task is between `queue_append` and `sem_up`, and here when
  the semaphore says so (`ListIsFree`, from `Exclusive`); a request leaves the line when
  it is chosen, as in DiskArm. `RunsInLines` carries the places where a quantum may
  end from one to the other.
* `WakeupsMatch` (`WakeupsBalance`), if no quantum ends at `suspend`, under every policy:
  the tasks asleep, and the one on its way there, are as many as the requests queued
  or in hand. Inductive is that at most one is on its way and that its request cannot
  overtake it (`Wakeups`). This is what keeps a completion from finding nobody.
* `ResumedWhenDone` (`OwnRequestDone`), under the same and FCFS: the two queues, of
  requests and of tasks, are in one order (`Ordered`), so the task resumed is the one
  whose name the completed request carries (`Own`).
* `ReportBounded` (`ReportNeverExceeds`), for every policy and every `NonPreemptible`,
  the increments of the counters preempted like everything else: whichever value of a
  counter is written next, the one in memory or one a task has read before (`Seen`),
  together with the requests that are processed and not yet counted it does not exceed
  those processed (`Counted`). A write of a stale value loses counts, so the sum stays
  below.
* `ManagerIsService`: under FCFS and the same assumption on `suspend`, the initial
  states and the steps of DiskService. A pending request is the one its task has filled
  in (`Pending`), so the driver's transfer is that of the call, and by `Ordered` the
  task that is resumed is the one to return.

`AccountingProofs`, for every set of user tasks and every bound: `AccountTypes`,
`LifetimeBounds` (`WithinLifetime`) and `OneTaskLoses` (`LostToOne`). The
invariant `AccInv` joins three parts. `Books` has the types and what the states
mean: `last_proc` and `exec_start` are not in the future, and a task not yet
created has no account and no CPU, so that creation can set its dates.
`WithinLifetime` is then inductive. `LostToOne` is not: it counts the tasks whose
account is short and says nothing of when that comes about. `OneLoser` does: at
time 0 nobody has lost a tick, two tasks never have, and while a task runs on a
slice begun at time 0, nobody else has, which is what the next tick needs.
`NoTickChargedTwice` (`NoTickTwice`) is the sum over the tasks: accounts and open slice
together grow with the clock or not at all, since only the task on the CPU has an
open slice and a switch closes it before the next begins.

The assumptions are those of the modules: `AccountingParameters`; `ThreadsDiffer`,
`QueuesDiffer`, `NoneIsNoCell` and `ProgramShape` of Kernel; `DiskParameters`,
`NobodyFree`, `DiskShape`, `QueueBound`, `NobodyIsNoClient` and `BlocksFit` of the disk;
`QueuesShape` and `IdleIsNoRequest` of DiskQueues; `MoversShape`; those of Scheduler;
and of TestPrograms `CrewShape`, `ProgramsAre`, that the programs are among the eleven,
and `BuffersCounted`, that each buffer has its cell and that it is not the sum. The runs
evaluate them.

Only model-checked: every liveness property (`NoStarvation`, `EveryCallReturns`,
`ManagerExits`, `EverySuspensionEnds`, `ProgramEnds`) and the fairness of
`ImplementsService`, which are out of the prover's reach. Every invariant of a passing
run has its theorem.

## 5. Where the code and its documents disagree

Shown by a run that finds the violation:

1. *Exit window* (`exit_window`). `before_task_exit` opens a critical region, and
   README.md:313-314 says that structures of the system are modified in one; it
   ends inside `task_exit` as soon as `freeTask` and the count are set, before the
   task is marked, its joiners are resumed and the switch is made. A quantum that
   ends there lets the dispatcher free the stack and dispatch its owner again.
2. *Wrong task woken* (`own_request`). The completion resumes the task that has
   waited longest, whatever request completed: under SSTF and CSCAN a call
   returns with its transfer still to come (`ppos_disk.c`:168-169 says otherwise).
   Under FCFS it cannot happen if no quantum ends between `sem_up` and
   `task_suspend`, which is what `manager_fcfs` shows.
3. *Lost wake-up* (`lost_wakeup`). If a quantum does end there, the completion
   may find `diskQueue` empty and the task then suspends for ever.
4. *Half-linked list* (`half_linked`). `disk_scheduler` scans the list before
   `processNewRequests` takes `semaforo_queue`; a preempted `queue_append` on the
   empty list has set the head and not the links.

Seen when a run is given other constants, none of them kept as a run:

5. *Blocks lost.* The consequence of 2 for `pingpong-disco2`, whose comment l.39 says that
   it moves blocks: `disk_programs` with `Policy = "CSCAN"` violates `NothingLost`. A mover
   resumed too early writes a buffer it has not read yet, and the contents of a block
   are nowhere any more.
6. *Destroyed under a waiter.* `programs_live` with `region` out of `Quiet` ends in a
   deadlock, and `NobodyLeftBehind` fails in `programs`: `sem_down` tests the semaphore
   before its critical region, and a task of `pingpong-semaphore` preempted between the
   two queues on `s1` after main has destroyed it (`pingpong-semaphore.c`:61). ppos.h:145
   has `sem_destroy` release whoever is blocked.
7. *Operations miscounted.* `ReportAddsUp`, checked with the constants of `manager_fcfs`,
   fails: two tasks interleave in `stats.*_operations++`, and the report counts one
   operation less than requests processed (README.md:286-289). It never counts one more,
   which is `ReportNeverExceeds`.

Read from the code, with no run of their own:

8. *Main ages.* README.md:41 and `ppos-core-aux.c`:62-63 say that only user tasks
   take part in aging; the loop at l.107-119 ages every task of the ready queue but
   the chosen one (`AfterChoice` does). Main is never reset (l.103), so it keeps
   what it gains.
9. *CSCAN starves.* README.md:91 promises bounded waiting. A request for the block
   under the head counts as ahead at distance 0, so two tasks that alternate on one
   block hold the arm there. What CSCAN does guarantee is `OneWrapPerWait`: bounded
   waiting in sweeps, not in time.
10. *Manager gone, disk at work.* The shutdown test (`ShutdownTest`) looks at the two
   queues and not at `livre`; with a request taken and its task preempted before
   `task_suspend` both are empty.
11. *The report misses the last slice.* `after_task_exit` prints `proc_time` before
   the switch away adds the slice in which the task exits, so a task that runs once
   reports 0 ms; README.md:54 calls it the effective processor time. `LostToOne`
   shows that the account itself is right after the switch, but for one slice:
   `last_proc > 0` takes a slice that began at tick 0 for a task that has not run.
12. *The policy is always CSCAN.* README.md:333 has the policy chosen by
   `-DSCHEDULER_DEFAULT`. The Makefile passes it (l.203-225) to `pingpong-disco1.c` and
   `pingpong-disco2.c` only; `ppos_disk.o` is made by `%.o: %.c` without it, so
   `disk_mgr_init` (l.121-125) takes CSCAN in all three builds.

## 6. Not modelled, and the plan

Left out for good:

* printing, `total_head_movements` and the averages, the targets of the Makefile;
* malloc failure (`createDiskRequest` returns an error and changes nothing);
* mutexes, `barrier_destroy` and `mqueue_msgs`: their hooks are empty, their bodies
  binary, and no program calls them, so there is nothing in this repository a model
  could be held against;
* `pingpong-tasks1` to `3`, which call `task_switch` themselves: its target stays in
  `readyQueue`, and what becomes of it is up to the binary;
* `pingpong-scheduler-srtf.c`, which calls functions that do not exist here, and
  `timer.c`, `signal.c`, `signal-test.c`, `ptrtest.c`, exercises about a system call;
* the copies in `entrega/` and `educational/`, some 2,300 lines that say again what
  `ppos-core-aux.c` and `ppos_disk.c` say; `ppos-disk-manager.h`, which is not linked;
* the length of a sleep and the contents of messages (Kernel counts messages): so
  neither the unit of `task_sleep` nor `mqueue_destroy` freeing its contents under a
  sender shows;
* `task_create` by a user task: only main, which is never preempted, creates tasks.

What could come next: that Kernel implements Scheduler, for a Kernel with
priorities and quanta, which would join the two fairness arguments of section 3; and
what `pingpong-semaphore` shows, that zig and zag alternate, as a property of its own
beside the ring of `s1` and `s2`.
