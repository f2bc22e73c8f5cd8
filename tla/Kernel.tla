------------------------------- MODULE Kernel -------------------------------
(***************************************************************************)
(* The operations of PingPongOS (ppos.h) at the grain of its preemption    *)
(* flag, and the programs that call them.                                  *)
(*                                                                         *)
(* A program gives each thread a script, a sequence of instructions; what  *)
(* a thread computes between two calls is left out.  The bodies of the     *)
(* operations are linked as an object: they are modelled from their calls  *)
(* of the hooks of ppos-core-aux.c, which set and clear the flag, and from *)
(* what the programs expect of them.                                       *)
(*                                                                         *)
(* A step is what runs between two points where the end of a quantum can   *)
(* show.  The steps named in Quiet are points where no quantum ends: the   *)
(* empty set assumes nothing.  Any ready task may be dispatched, so what   *)
(* holds here holds for any priorities.                                    *)
(***************************************************************************)
EXTENDS Integers, Sequences, FiniteSets

CONSTANTS
    Tasks,        \* the user tasks the programs create
    Main,         \* the thread of main(), which is never preempted
    Disp,         \* the dispatcher
    None,
    Semaphores, Barriers, Mqueues,
    Cells,        \* the shared variables of the programs
    Programs,     \* the programs
    Quiet         \* steps at which no quantum ends

Threads == Tasks \cup {Main}
Queues == Semaphores \cup Barriers \cup Threads    \* a thread owns its joinQueue

\* The instructions: operation, operand, number.
Instr ==
         {"create", "join"} \X Tasks \X {0}
    \cup {"yield", "sleep", "nap", "exit", "halt"} \X {None} \X {0}
    \cup {"sem_create"} \X Semaphores \X Nat
    \cup {"down"} \X Semaphores \X Nat             \* number: where to go if it fails
    \cup {"up", "sem_destroy"} \X Semaphores \X {0}
    \cup {"barrier_join"} \X Barriers \X {0}
    \cup {"open", "close"} \X Mqueues \X {0}
    \cup {"test"} \X Mqueues \X Nat
    \cup {"load"} \X Cells \X {0}
    \cup {"store"} \X Cells \X Int                 \* number: what is added
    \cup {"goto", "again"} \X {None} \X Nat

ASSUME ThreadsDiffer ==
    Main \notin Tasks /\ Disp \notin Threads /\ None \notin Threads /\ IsFiniteSet(Tasks)
ASSUME QueuesDiffer ==
    Semaphores \cap (Barriers \cup Mqueues) = {} /\ Threads \cap (Semaphores \cup Barriers) = {}
ASSUME NoneIsNoCell == None \notin Cells
ASSUME ProgramShape == \A p \in Programs :
    /\ p.script \in [Threads -> Seq(Instr)]
    /\ p.rounds \in Nat                            \* how often a loop is repeated
    /\ p.parties \in Nat                           \* maxTasks of the barriers
    /\ \A t \in Tasks : \A i \in DOMAIN p.script[t] :
         p.script[t][i][1] \notin {"create", "sem_create", "sem_destroy"}
    /\ \A i \in DOMAIN p.script[Main] :               \* main runs straight through
         /\ p.script[Main][i][1] \notin {"down", "test", "goto", "again"}
         /\ \A j \in DOMAIN p.script[Main] :           \* and creates each task once
              p.script[Main][i][1] = "create" /\ p.script[Main][j] = p.script[Main][i]
                => i = j

VARIABLES
    prog,         \* the program that runs
    taskExec,     \* the thread on the CPU
    preemption,   \* the flag of PPOS_PREEMPT_ENABLE and PPOS_PREEMPT_DISABLE
    fresh,        \* the thread has just got its quantum
    halted,       \* the process has ended
    state,        \* "n" new, "r" ready, "e" executing, "s" suspended, "x" exited
    readyQueue,
    sleepQueue,
    queue,        \* the waiting threads of each semaphore, barrier and joinQueue
    value,        \* semaphore: its value; barrier: countTasks
    active,       \* of semaphores and message queues
    freeTask,     \* the task whose stack the dispatcher is to free
    freed,        \* threads whose stack it has freed
    countTasks,   \* tasks not ended; main is subtracted but never added
    pc,           \* where each thread is: instruction and step within it
    left,         \* rounds each thread's loop still has
    cell, reg     \* shared variables; what each thread has read

cpu   == <<taskExec, preemption, fresh, halted>>
tasks == <<state, readyQueue, sleepQueue, queue>>
sync  == <<value, active>>
life  == <<freeTask, freed, countTasks>>
data  == <<left, cell, reg>>
vars  == <<prog, cpu, tasks, sync, life, pc, data>>

-----------------------------------------------------------------------------
Ins(t) == prog.script[t][pc[t].at]
Op(t) == Ins(t)[1]
Arg(t) == Ins(t)[2]
Num(t) == Ins(t)[3]

\* t runs and is at this step of this operation.  Whose stack has been freed may go
\* on as if it had not, one of the outcomes of that undefined behaviour; what else
\* it can do, such as end the process, no invariant here tells from stopping.
At(t, op, step) ==
    /\ taskExec = t /\ ~halted
    /\ pc[t].at \in DOMAIN prog.script[t]
    /\ Op(t) = op /\ pc[t].step = step

MoveTo(t, n, s) == pc' = [pc EXCEPT ![t] = [at |-> n, step |-> s]]
Goto(t, n) == MoveTo(t, n, "start")
Next1(t) == Goto(t, pc[t].at + 1)
Step(t, s) == MoveTo(t, pc[t].at, s)

\* t stays on the CPU, with the flag as given.
Stay(flag) ==
    /\ preemption' = flag /\ fresh' = FALSE
    /\ UNCHANGED <<prog, taskExec, halted>>

\* task_switch to the dispatcher, which frees the stack left in freeTask.
ToDispatcher ==
    /\ taskExec' = Disp /\ preemption' = 1 /\ fresh' = FALSE
    /\ freed' = freed \cup ({freeTask} \ {None})
    /\ freeTask' = None
    /\ UNCHANGED <<prog, halted>>

\* Mutant: task_yield queues every thread.
RequeueAlways(t) ==
    /\ state' = [state EXCEPT ![t] = "r"]
    /\ readyQueue' = readyQueue \cup {t}

\* task_yield queues a thread that is not suspended.
Requeue(t) ==
    /\ state' = IF state[t] = "s" THEN state ELSE [state EXCEPT ![t] = "r"]
    /\ readyQueue' = IF state[t] = "s" THEN readyQueue ELSE readyQueue \cup {t}

\* Mutant: the thread is suspended but not queued.
SuspendNowhere(t, q) ==
    /\ state' = [state EXCEPT ![t] = "s"]
    /\ Stay(1)
    /\ Step(t, "yield")
    /\ UNCHANGED <<readyQueue, sleepQueue, queue>>

\* task_suspend of the running thread: the flag is on when it returns.
SuspendOn(t, q) ==
    /\ state' = [state EXCEPT ![t] = "s"]
    /\ queue' = [queue EXCEPT ![q] = Append(@, t)]
    /\ Stay(1)
    /\ Step(t, "yield")
    /\ UNCHANGED <<readyQueue, sleepQueue>>

\* Mutant: the thread that came last is resumed first.
ResumeLast(q) ==
    LET n == Len(queue[q])
    IN  /\ n > 0
        /\ state' = [state EXCEPT ![queue[q][n]] = "r"]
        /\ readyQueue' = readyQueue \cup {queue[q][n]}
        /\ queue' = [queue EXCEPT ![q] = SubSeq(@, 1, n - 1)]
        /\ UNCHANGED sleepQueue

\* task_resume of the thread that has waited longest.
ResumeHead(q) ==
    /\ queue[q] # <<>>
    /\ state' = [state EXCEPT ![Head(queue[q])] = "r"]
    /\ readyQueue' = readyQueue \cup {Head(queue[q])}
    /\ queue' = [queue EXCEPT ![q] = Tail(@)]
    /\ UNCHANGED sleepQueue

-----------------------------------------------------------------------------
\* The timer ends the quantum of a user task: interrupt_handler calls task_yield.
Preempt(t) ==
    /\ taskExec = t /\ t \in Tasks /\ ~halted
    /\ preemption = 1 /\ ~fresh /\ pc[t].step \notin Quiet
    /\ Requeue(t)
    /\ ToDispatcher
    /\ UNCHANGED <<sleepQueue, queue, sync, countTasks, pc, data>>

\* The dispatcher takes a ready thread; after_task_switch gives it a full quantum.
Dispatch(t) ==
    /\ taskExec = Disp /\ ~halted /\ countTasks > 0
    /\ t \in readyQueue
    /\ readyQueue' = readyQueue \ {t}
    /\ state' = [state EXCEPT ![t] = "e"]
    /\ taskExec' = t /\ preemption' = 1 /\ fresh' = TRUE
    /\ UNCHANGED <<prog, halted, sleepQueue, queue, sync, life, pc, data>>

\* The dispatcher finds that the time of a sleeper has come.
Wake(t) ==
    /\ taskExec = Disp /\ ~halted /\ t \in sleepQueue
    /\ sleepQueue' = sleepQueue \ {t}
    /\ state' = [state EXCEPT ![t] = "r"]
    /\ readyQueue' = readyQueue \cup {t}
    /\ UNCHANGED <<prog, cpu, queue, sync, life, pc, data>>

\* The dispatcher's loop ends when no task is left, and the process with it.
Finish ==
    /\ taskExec = Disp /\ ~halted /\ countTasks <= 0
    /\ halted' = TRUE
    /\ UNCHANGED <<prog, taskExec, preemption, fresh, tasks, sync, life, pc, data>>

-----------------------------------------------------------------------------
\* Mutant: the new task is not counted.
CreateUncounted(t) ==
    /\ At(t, "create", "start")
    /\ state' = [state EXCEPT ![Arg(t)] = "r"]
    /\ readyQueue' = readyQueue \cup {Arg(t)}
    /\ queue' = [queue EXCEPT ![Arg(t)] = <<>>]
    /\ Stay(1) /\ Next1(t)
    /\ UNCHANGED <<sleepQueue, sync, life, data>>

\* task_create, by main: nothing preempts it between the queue and the hook.
Create(t) ==
    /\ At(t, "create", "start")
    /\ state' = [state EXCEPT ![Arg(t)] = "r"]
    /\ readyQueue' = readyQueue \cup {Arg(t)}
    /\ queue' = [queue EXCEPT ![Arg(t)] = <<>>]
    /\ countTasks' = countTasks + 1
    /\ Stay(1) /\ Next1(t)
    /\ UNCHANGED <<sleepQueue, sync, freeTask, freed, data>>

Yield(t) ==
    /\ At(t, "yield", "start")
    /\ Requeue(t)
    /\ ToDispatcher
    /\ Next1(t)
    /\ UNCHANGED <<sleepQueue, queue, sync, countTasks, data>>

\* task_join: of a task that has ended it returns at once, with the flag off.
Join(t) ==
    /\ At(t, "join", "start")
    /\ \/ /\ state[Arg(t)] = "x"
          /\ Stay(0) /\ Next1(t) /\ UNCHANGED tasks
       \/ /\ state[Arg(t)] # "x"
          /\ SuspendOn(t, Arg(t))
    /\ UNCHANGED <<sync, life, data>>

\* task_sleep; "nap" is a sleep of random length, which may be 0.
Sleep(t) ==
    /\ \E op \in {"sleep", "nap"} :
         /\ At(t, op, "start")
         /\ \/ /\ state' = [state EXCEPT ![t] = "s"]
               /\ sleepQueue' = sleepQueue \cup {t}
               /\ Stay(1) /\ Step(t, "yield")
            \/ /\ op = "nap"
               /\ Stay(preemption) /\ Next1(t)
               /\ UNCHANGED <<state, sleepQueue>>
    /\ UNCHANGED <<readyQueue, queue, sync, life, data>>

\* The task_yield with which a suspending operation leaves the CPU.
SwitchOut(t) ==
    /\ \E op \in {"join", "sleep", "nap", "down", "barrier_join"} : At(t, op, "yield")
    /\ Requeue(t)
    /\ ToDispatcher
    /\ Step(t, "back")
    /\ UNCHANGED <<sleepQueue, queue, sync, countTasks, data>>

\* Back on the CPU the operation returns; sem_down fails if the semaphore is gone.
Return(t) ==
    /\ \E op \in {"join", "sleep", "nap", "down", "barrier_join"} :
         /\ At(t, op, "back")
         /\ Goto(t, IF op = "down" /\ ~active[Arg(t)] THEN Num(t) ELSE pc[t].at + 1)
    /\ Stay(preemption)
    /\ UNCHANGED <<tasks, sync, life, data>>

-----------------------------------------------------------------------------
SemCreate(t) ==
    /\ At(t, "sem_create", "start")
    /\ value' = [value EXCEPT ![Arg(t)] = Num(t)]
    /\ active' = [active EXCEPT ![Arg(t)] = TRUE]
    /\ queue' = [queue EXCEPT ![Arg(t)] = <<>>]
    /\ Stay(1) /\ Next1(t)
    /\ UNCHANGED <<state, readyQueue, sleepQueue, life, data>>

\* Mutant: sem_down lets one more in than there are units.
DownRegionOneMore(t) ==
    /\ At(t, "down", "region")
    /\ value' = [value EXCEPT ![Arg(t)] = @ - 1]
    /\ \/ /\ value[Arg(t)] >= 0
          /\ Stay(1) /\ Next1(t) /\ UNCHANGED tasks
       \/ /\ value[Arg(t)] < 0
          /\ SuspendOn(t, Arg(t))
    /\ UNCHANGED <<active, life, data>>

\* sem_down looks at the semaphore before its critical region...
DownTest(t) ==
    /\ At(t, "down", "start")
    /\ IF active[Arg(t)] THEN Step(t, "region") ELSE Goto(t, Num(t))
    /\ Stay(preemption)
    /\ UNCHANGED <<tasks, sync, life, data>>

\* ... and in it takes a unit, or a place in the queue.
DownRegion(t) ==
    /\ At(t, "down", "region")
    /\ value' = [value EXCEPT ![Arg(t)] = @ - 1]
    /\ \/ /\ value[Arg(t)] > 0
          /\ Stay(1) /\ Next1(t) /\ UNCHANGED tasks
       \/ /\ value[Arg(t)] <= 0
          /\ SuspendOn(t, Arg(t))
    /\ UNCHANGED <<active, life, data>>

\* Mutant: the waiter is not woken.
UpNoWake(t) ==
    /\ At(t, "up", "start")
    /\ value' = [value EXCEPT ![Arg(t)] = @ + 1]
    /\ Stay(1) /\ Next1(t)
    /\ UNCHANGED <<tasks, active, life, data>>

\* sem_up wakes a waiter if there is one; of a destroyed semaphore it returns
\* with the flag off.
Up(t) ==
    /\ At(t, "up", "start")
    /\ \/ /\ ~active[Arg(t)]
          /\ Stay(0) /\ UNCHANGED <<value, tasks>>
       \/ /\ active[Arg(t)]
          /\ value' = [value EXCEPT ![Arg(t)] = @ + 1]
          /\ IF value[Arg(t)] < 0 THEN ResumeHead(Arg(t)) ELSE UNCHANGED tasks
          /\ Stay(1)
    /\ Next1(t)
    /\ UNCHANGED <<active, life, data>>

\* Mutant: the waiters are not released.
DestroyOnly(t) ==
    /\ At(t, "sem_destroy", "start")
    /\ active' = [active EXCEPT ![Arg(t)] = FALSE]
    /\ Next1(t) /\ Stay(1)
    /\ UNCHANGED <<tasks, value, life, data>>

\* sem_destroy: first nobody new, then the waiters are released one by one.
Destroy(t) ==
    /\ At(t, "sem_destroy", "start")
    /\ active' = [active EXCEPT ![Arg(t)] = FALSE]
    /\ IF active[Arg(t)] THEN Step(t, "freeing") /\ Stay(0)
                         ELSE Next1(t) /\ Stay(preemption)
    /\ UNCHANGED <<tasks, value, life, data>>

\* Mutant: the head is resumed again and again.
DestroyLoopSpins(t) ==
    /\ At(t, "sem_destroy", "freeing")
    /\ IF queue[Arg(t)] = <<>> THEN Next1(t) /\ UNCHANGED state
                               ELSE state' = [state EXCEPT ![Head(queue[Arg(t)])] = "r"]
                                    /\ UNCHANGED pc
    /\ Stay(1)
    /\ UNCHANGED <<readyQueue, sleepQueue, queue, sync, life, data>>

\* The release loop of sem_destroy.
DestroyLoop(t) ==
    /\ At(t, "sem_destroy", "freeing")
    /\ IF queue[Arg(t)] = <<>> THEN Next1(t) /\ UNCHANGED tasks
                               ELSE ResumeHead(Arg(t)) /\ UNCHANGED pc
    /\ Stay(1)
    /\ UNCHANGED <<sync, life, data>>

\* Mutant: the last but one releases the others.
BarrierArriveEarly(t) ==
    /\ At(t, "barrier_join", "start")
    /\ value' = [value EXCEPT ![Arg(t)] = @ + 1]
    /\ \/ /\ value[Arg(t)] + 2 = prog.parties
          /\ Stay(0) /\ Step(t, "release") /\ UNCHANGED tasks
       \/ /\ value[Arg(t)] + 2 # prog.parties
          /\ SuspendOn(t, Arg(t))
    /\ UNCHANGED <<active, life, data>>

\* barrier_join: the last to arrive goes on to release the others.
BarrierArrive(t) ==
    /\ At(t, "barrier_join", "start")
    /\ value' = [value EXCEPT ![Arg(t)] = @ + 1]
    /\ \/ /\ value[Arg(t)] + 1 = prog.parties
          /\ Stay(0) /\ Step(t, "release") /\ UNCHANGED tasks
       \/ /\ value[Arg(t)] + 1 # prog.parties
          /\ SuspendOn(t, Arg(t))
    /\ UNCHANGED <<active, life, data>>

\* Each task_resume puts the flag on, long before the count is reset.
BarrierRelease(t) ==
    /\ At(t, "barrier_join", "release")
    /\ IF queue[Arg(t)] = <<>>
       THEN value' = [value EXCEPT ![Arg(t)] = 0] /\ Next1(t) /\ UNCHANGED tasks
       ELSE ResumeHead(Arg(t)) /\ UNCHANGED <<value, pc>>
    /\ Stay(1)
    /\ UNCHANGED <<active, life, data>>

\* The active flag of a message queue, set, cleared and looked at.
MqueueFlag(t) ==
    /\ \/ /\ \E op \in {"open", "close"} :
               At(t, op, "start") /\ active' = [active EXCEPT ![Arg(t)] = (op = "open")]
          /\ Next1(t)
       \/ /\ At(t, "test", "start")
          /\ Goto(t, IF active[Arg(t)] THEN pc[t].at + 1 ELSE Num(t))
          /\ UNCHANGED active
    /\ Stay(preemption)
    /\ UNCHANGED <<tasks, value, life, data>>

-----------------------------------------------------------------------------
\* task_exit: the critical region ends as soon as freeTask and the count are set.
Exit(t) ==
    /\ At(t, "exit", "start")
    /\ freeTask' = t
    /\ countTasks' = countTasks - 1
    /\ Stay(1) /\ Step(t, "exiting")
    /\ UNCHANGED <<tasks, sync, freed, data>>

\* Mutant: the tasks that joined are resumed before the task is marked as ended.
ExitingLast(t) ==
    /\ At(t, "exit", "exiting")
    /\ \/ ResumeHead(t) /\ UNCHANGED pc
       \/ /\ queue[t] = <<>>
          /\ state' = [state EXCEPT ![t] = "x"]
          /\ Step(t, "drain")
          /\ UNCHANGED <<readyQueue, sleepQueue, queue>>
    /\ Stay(1)
    /\ UNCHANGED <<sync, life, data>>

Exiting(t) ==
    /\ At(t, "exit", "exiting")
    /\ state' = [state EXCEPT ![t] = "x"]
    /\ Stay(1) /\ Step(t, "drain")
    /\ UNCHANGED <<readyQueue, sleepQueue, queue, sync, life, data>>

\* The tasks that joined are resumed one by one.
ExitDrain(t) ==
    /\ At(t, "exit", "drain")
    /\ ResumeHead(t)
    /\ Stay(1)
    /\ UNCHANGED <<sync, life, pc, data>>

\* Mutant: the task leaves through task_yield.
ExitSwitchYields(t) ==
    /\ At(t, "exit", "drain") /\ queue[t] = <<>>
    /\ Requeue(t)
    /\ ToDispatcher /\ Step(t, "gone")
    /\ UNCHANGED <<sleepQueue, queue, sync, countTasks, data>>

\* after_task_exit, and the switch to the dispatcher.
ExitSwitch(t) ==
    /\ At(t, "exit", "drain") /\ queue[t] = <<>>
    /\ ToDispatcher /\ Step(t, "gone")
    /\ UNCHANGED <<tasks, sync, countTasks, data>>

\* exit() of the C library, which ends the process whatever the tasks do.
Halt(t) ==
    /\ At(t, "halt", "start")
    /\ halted' = TRUE
    /\ UNCHANGED <<prog, taskExec, preemption, fresh, tasks, sync, life, pc, data>>

\* The thread's own computation: shared variables and loops.
Compute(t) ==
    /\ \/ /\ At(t, "load", "start")
          /\ reg' = [reg EXCEPT ![t] = cell[Arg(t)]]
          /\ Next1(t) /\ UNCHANGED <<cell, left>>
       \/ /\ At(t, "store", "start")
          /\ cell' = [cell EXCEPT ![Arg(t)] = reg[t] + Num(t)]
          /\ Next1(t) /\ UNCHANGED <<reg, left>>
       \/ /\ At(t, "goto", "start")
          /\ Goto(t, Num(t)) /\ UNCHANGED <<cell, reg, left>>
       \/ /\ At(t, "again", "start")
          /\ IF left[t] > 0 THEN Goto(t, Num(t)) /\ left' = [left EXCEPT ![t] = @ - 1]
                            ELSE Next1(t) /\ UNCHANGED left
          /\ UNCHANGED <<cell, reg>>
    /\ Stay(preemption)
    /\ UNCHANGED <<tasks, sync, life>>

-----------------------------------------------------------------------------
\* main() after ppos_init.
Init ==
    /\ prog \in Programs
    /\ taskExec = Main /\ preemption = 1 /\ fresh = FALSE /\ halted = FALSE
    /\ state = [t \in Threads |-> IF t = Main THEN "e" ELSE "n"]
    /\ readyQueue = {} /\ sleepQueue = {}
    /\ queue = [q \in Queues |-> <<>>]
    /\ value = [s \in Semaphores \cup Barriers |-> 0]
    /\ active = [s \in Semaphores \cup Mqueues |-> FALSE]
    /\ freeTask = None /\ freed = {} /\ countTasks = 1
    /\ pc = [t \in Threads |-> [at |-> 1, step |-> "start"]]
    /\ left = [t \in Threads |-> prog.rounds]
    /\ cell = [c \in Cells |-> 0] /\ reg = [t \in Threads |-> 0]

Task(t) ==
    \/ Create(t) \/ Yield(t) \/ Join(t) \/ Sleep(t) \/ SwitchOut(t) \/ Return(t)
    \/ SemCreate(t) \/ DownTest(t) \/ DownRegion(t) \/ Up(t) \/ Destroy(t) \/ DestroyLoop(t)
    \/ BarrierArrive(t) \/ BarrierRelease(t) \/ MqueueFlag(t)
    \/ Exit(t) \/ Exiting(t) \/ ExitDrain(t) \/ ExitSwitch(t) \/ Halt(t) \/ Compute(t)

\* The process is over.
Ended == halted /\ UNCHANGED vars

Next ==
    \/ \E t \in Threads : Task(t) \/ Dispatch(t) \/ Wake(t)
    \/ \E t \in Tasks : Preempt(t)
    \/ Finish \/ Ended

\* The running thread goes on, the clock reaches every sleeper's time, and the
\* scheduler starves no ready thread (Scheduler!NoStarvation).
Spec ==
    /\ Init /\ [][Next]_vars
    /\ WF_vars(\E t \in Threads : Task(t)) /\ WF_vars(Finish)
    /\ \A t \in Threads : SF_vars(Dispatch(t) \/ Wake(t))
-----------------------------------------------------------------------------
Flags == {0, 1}
Steps == {"start", "region", "yield", "back", "freeing", "release", "exiting", "drain",
          "gone"}

CpuOK ==
    /\ prog \in Programs /\ taskExec \in Threads \cup {Disp} /\ preemption \in Flags
    /\ fresh \in BOOLEAN /\ halted \in BOOLEAN
TasksOK ==
    /\ state \in [Threads -> {"n", "r", "e", "s", "x"}]
    /\ readyQueue \subseteq Threads /\ sleepQueue \subseteq Threads
    /\ queue \in [Queues -> Seq(Threads)]
SyncOK ==
    /\ value \in [Semaphores \cup Barriers -> Int]
    /\ active \in [Semaphores \cup Mqueues -> BOOLEAN]
LifeOK == freeTask \in Threads \cup {None} /\ freed \subseteq Threads /\ countTasks \in Int
PcOK == pc \in [Threads -> [at : Nat, step : Steps]]
DataOK ==
    left \in [Threads -> Nat] /\ cell \in [Cells -> Int] /\ reg \in [Threads -> Int]

\* Every variable has its type.
TypeOK == CpuOK /\ TasksOK /\ SyncOK /\ LifeOK /\ PcOK /\ DataOK

\* A thread is in one place at most: queue_append refuses an element that is in a
\* queue, and a thread in two would run twice.  The thread on the CPU is not ready,
\* ready threads are marked so, and each waiter is suspended, in one queue, once.
OnePlaceEach ==
    /\ taskExec \notin readyQueue
    /\ \A t \in readyQueue : state[t] = "r"
    /\ \A t \in sleepQueue : state[t] = "s"
    /\ \A q \in Queues : \A i \in DOMAIN queue[q] :
         /\ state[queue[q][i]] = "s" /\ queue[q][i] \notin sleepQueue
         /\ \A r \in Queues : \A j \in DOMAIN queue[r] :
              queue[r][j] = queue[q][i] => (r = q /\ j = i)

\* A semaphore in use has exactly as many waiters as its value is below 0, so
\* sem_up never resumes the head of an empty queue nor leaves a waiter behind.
SemaphoresExact == \A s \in Semaphores :
    active[s] => Len(queue[s]) = IF value[s] < 0 THEN -value[s] ELSE 0

\* When a semaphore has been destroyed nobody waits on it (ppos.h:145).  True only if no
\* quantum ends in sem_down between its test and its critical region.
NobodyLeftBehind == \A s \in Semaphores :
    queue[s] # <<>> => \/ active[s]
                       \/ \E t \in Threads : /\ pc[t].step = "freeing"
                                             /\ Ins(t) = <<"sem_destroy", s, 0>>

\* No thread runs on a stack the dispatcher has freed.
NoFreedStack == taskExec \notin freed

\* What is true of it: the window in task_exit, from the early end of its critical
\* region to its switch, is the only place where a thread can lose its stack and run
\* on.  A thread that has left through task_exit is never on the CPU again, and no
\* other thread's stack is freed, whoever preempts and exits in between.
FreedOnlyInExit == taskExec \in freed => pc[taskExec].step \in {"exiting", "drain"}

\* The program's own code of t is over: it is in task_exit and marked, or gone.
Over(t) == pc[t].step \in {"drain", "gone"}

\* task_join returns when the task's own code is over, and not before, also to a
\* thread that joins between the mark of the exiting task and the end of its loop.
JoinedHasEnded == \A t \in Threads : At(t, "join", "back") => Over(Arg(t))

\* Instruction i of t takes it to barrier b.
Comes(t, b, i) == prog.script[t][i] = <<"barrier_join", b, 0>>
Partners(b) == {t \in Threads : \E i \in DOMAIN prog.script[t] : Comes(t, b, i)}

\* In the program that runs b is for one meeting: as many threads as it counts come
\* to it, each of them once, and no jump of theirs goes past it.
OneMeeting(b) ==
    /\ Cardinality(Partners(b)) = prog.parties
    /\ \A t \in Partners(b) : \A i, j \in DOMAIN prog.script[t] :
         Comes(t, b, i) =>
           /\ Comes(t, b, j) => j = i
           /\ prog.script[t][j][1] \in {"down", "test", "goto", "again"} =>
                (j < i <=> prog.script[t][j][3] <= i)

Passed(t, b) == \E i \in DOMAIN prog.script[t] : i < pc[t].at /\ Comes(t, b, i)
Arrived(t, b) ==
    Passed(t, b) \/ (pc[t].step # "start" /\ Comes(t, b, pc[t].at))

\* Nobody passes a barrier before everybody has come to it, whoever else the
\* operations in between suspend and resume.
BarrierHolds == \A b \in Barriers :
    (\E t \in Partners(b) : Passed(t, b)) /\ OneMeeting(b)
      => \A t \in Partners(b) : Arrived(t, b)

-----------------------------------------------------------------------------
\* Units that go round.  A ring is a set of semaphores, and perhaps a cell, between
\* which they go: the semaphore of a lock, the two of a turn or of a buffer, or one of
\* a buffer with the number of its items (with gain -1 an item is a unit that is out).
Takes(r, ins) ==
    \/ ins[1] = "down" /\ ins[2] \in r.sems
    \/ ins[1] = "store" /\ ins[2] = r.cell /\ ins[3] = -r.gain
Gives(r, ins) ==
    \/ ins[1] = "up" /\ ins[2] \in r.sems
    \/ ins[1] = "store" /\ ins[2] = r.cell /\ ins[3] = r.gain

\* Where in a script a unit is held: it has been taken, and not given back since.
Held(r, script) == {i \in 1 .. Len(script) + 1 : \E j \in 1 .. i - 1 :
    Takes(r, script[j]) /\ \A k \in j .. i - 1 : ~Gives(r, script[k])}

\* The semaphores main makes, and the units it puts into those of a ring.
Makes(p) == {i \in DOMAIN p.script[Main] : p.script[Main][i][1] = "sem_create"}
Sems(p) == {p.script[Main][i][2] : i \in Makes(p)}
Supply(p, r) ==
    UNION {{p.script[Main][i][2]} \X (1 .. p.script[Main][i][3]) :
             i \in {j \in Makes(p) : p.script[Main][j][2] \in r.sems}}

\* Main makes each semaphore once, before it creates a task, and leaves their use and
\* the cells to the tasks.
Prepared(p) ==
    /\ \A i \in Makes(p) : \A j \in DOMAIN p.script[Main] :
         /\ p.script[Main][j][1] = "create" => i < j
         /\ j \in Makes(p) /\ p.script[Main][j][2] = p.script[Main][i][2] => i = j
    /\ \A j \in DOMAIN p.script[Main] : p.script[Main][j][1] \notin {"up", "store"}
    /\ \A t \in Tasks : \A i \in DOMAIN p.script[t] :
         p.script[t][i][1] = "down" => p.script[t][i][2] \in Sems(p)

\* The tasks take a unit only when they hold none, give back what they hold and jump
\* with what they hold.
Closed(p, r) == \A t \in Tasks : \A i \in DOMAIN p.script[t] :
    LET ins == p.script[t][i]
        held == Held(r, p.script[t])
    IN  /\ Takes(r, ins) => i \notin held
        /\ Gives(r, ins) => i \in held
        /\ ins[1] \in {"test", "goto", "again"} => (i \in held <=> ins[3] \in held)
        /\ ins[1] = "store" /\ ins[2] = r.cell => ins[3] \in {r.gain, -r.gain}

\* A sem_down that fails, of a semaphore that is gone, leaves nobody with a unit.
Honest(p, r) == \A t \in Tasks : \A i \in DOMAIN p.script[t] :
    LET held == Held(r, p.script[t])
    IN  p.script[t][i][1] = "down" /\ p.script[t][i][3] \in held => i \in held

\* Semaphore s guards cell c: who stores into it holds the only unit of s, and has just
\* read the cell.
Lock(s) == [sems |-> {s}, cell |-> None, gain |-> 1]
Guards(p, s, c) ==
    /\ Closed(p, Lock(s)) /\ Cardinality(Supply(p, Lock(s))) = 1
    /\ \A t \in Tasks : \A i \in DOMAIN p.script[t] :
         p.script[t][i][1] = "store" /\ p.script[t][i][2] = c =>
           /\ i > 1 /\ p.script[t][i - 1] = <<"load", c, 0>>
           /\ i \in Held(Lock(s), p.script[t])
           /\ \A j \in DOMAIN p.script[t] :
                p.script[t][j][1] \in {"down", "test", "goto", "again"} => p.script[t][j][3] # i

Guarded == [p \in Programs |->
    {c \in Cells : Prepared(p) /\ \E s \in Sems(p) : Guards(p, s, c)}]
\* The cells with a lock that is never had by failing.
Safe == [p \in Programs |->
    {c \in Cells : Prepared(p) /\ \E s \in Sems(p) : Guards(p, s, c) /\ Honest(p, Lock(s))}]
RingsOf(p) ==
    LET few == (SUBSET Sems(p)) \ {{}}
        all == [sems : few, cell : {None}, gain : {1}]
               \cup [sems : few, cell : Guarded[p], gain : {1, -1}]
    IN  {r \in all : Prepared(p) /\ Closed(p, r)}
Within(r, q) == r.sems \subseteq q.sems /\ r.cell \in {None, q.cell}

\* With a ring, where each task holds a unit of it, how many units there are, and whether
\* none is had by a sem_down that fails.
Marked(p, r) ==
    [sems |-> r.sems, cell |-> r.cell, gain |-> r.gain,
     held |-> [t \in Tasks |-> Held(r, p.script[t])], units |-> Cardinality(Supply(p, r)),
     firm |-> Honest(p, r) /\ r.cell \in {None} \cup Safe[p]]

\* The rings of each program that are not made of smaller ones.
Rings == [p \in Programs |->
    {Marked(p, r) : r \in {q \in RingsOf(p) : \A o \in RingsOf(p) : Within(o, q) => o = q}}]

\* t holds a unit, or has been let through the sem_down that takes it.
Has(t, r) ==
    \/ pc[t].at \in r.held[t]
    \/ /\ pc[t].step \in {"yield", "back"} /\ state[t] # "s"
       /\ Op(t) = "down" /\ Arg(t) \in r.sems /\ active[Arg(t)]

Holders(r) == {t \in Tasks : Has(t, r)}
Free(r) == UNION {{s} \X (1 .. value[s]) : s \in r.sems}
Content(r) == IF r.cell = None THEN 0 ELSE r.gain * cell[r.cell]

InUse == \A s \in Sems(prog) : active[s]

\* While no semaphore has been destroyed no unit is lost and none is made, whoever is
\* suspended, resumed and preempted on the way: a lock has one holder at most, a turn
\* is with one task or semaphore, and a buffer is never overfull nor taken from empty.
\* None is made after that either, with tasks anywhere in their operations, if the
\* program looks at what sem_down returns.
UnitsGoRound == \A r \in Rings[prog] :
    LET units == Cardinality(Free(r)) + Cardinality(Holders(r)) + Content(r)
    IN  (InUse => units = r.units) /\ (r.firm => units <= r.units)

\* A task that is to store into a guarded cell has read what the cell still holds, so
\* no addition is lost (pingpong-racecond.c:72), whenever its quantum ended in between.
NoUpdateLost == \A t \in Tasks :
    pc[t].at \in DOMAIN prog.script[t] /\ Op(t) = "store"
      /\ Arg(t) \in (IF InUse THEN Guarded[prog] ELSE Safe[prog])
      => reg[t] = cell[Arg(t)]

\* The dispatcher's loop ends when every task has ended and nobody waits, though
\* its count has the dispatcher in it, subtracts main and never adds it.
NothingLeftAtTheEnd == halted /\ taskExec = Disp =>
    /\ \A t \in Threads : state[t] \in {"n", "x"}
    /\ readyQueue \cup sleepQueue = {} /\ \A q \in Queues : queue[q] = <<>>

\* Whoever waits, for a task, a time, a semaphore or the others at a barrier
\* (task_join, task_sleep, sem_down, barrier_join), waits for an end, or the process
\* ends: if no quantum ends in the windows of task_exit and of sem_down (Quiet), and
\* if every ready thread is dispatched in the end, which NoStarvation gives up to a
\* number of tasks.
EverySuspensionEnds == \A t \in Threads : state[t] = "s" ~> (state[t] # "s" \/ halted)
=============================================================================
