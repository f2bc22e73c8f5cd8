------------------------------ MODULE Scheduler ------------------------------
(***************************************************************************)
(* The CPU scheduler of PingPongOS (ppos-core-aux.c): priorities with      *)
(* aging, task_setprio, the timer tick with its quantum, and the task      *)
(* operations that move a task between the CPU, the ready queue and the    *)
(* wait queues.                                                            *)
(*                                                                         *)
(* Each kernel operation takes effect in one step: what a preemption       *)
(* between two of its steps may do is Kernel's subject.  The preemption    *)
(* flag is here, since the tick reads it: an operation turns it off in its *)
(* first hook, ticks may come while it is off, and the effect turns it on. *)
(* The ready queue is a set: scheduler() reads every element of the list   *)
(* and breaks ties by id, so the order of the list never shows.            *)
(***************************************************************************)
EXTENDS Integers, FiniteSets

CONSTANTS
    UserTasks,        \* ids of the tasks that task_create will make
    PRIORITY_MAX,     \* best priority, the smallest number (-20)
    PRIORITY_DEF,     \* priority of a new task (0)
    PRIORITY_MIN,     \* worst priority (20)
    QUANTUM_SIZE,     \* ticks a user task may run (20)
    PrioArgs,         \* values the programs pass to task_setprio
    SetprioBudget,    \* bound: calls of task_setprio in a behaviour
    Overrun,          \* bound: ticks that find a spent quantum and the flag off
    MainYieldBudget   \* bound: calls of task_yield made by main

Main == 0
Dispatcher == 1
Tasks == UserTasks \cup {Main}

ASSUME UserIds == UserTasks \subseteq {i \in Nat : i > Dispatcher}
ASSUME PriorityScale ==
    /\ PRIORITY_MAX \in Int /\ PRIORITY_DEF \in Int /\ PRIORITY_MIN \in Int
    /\ PRIORITY_MAX <= PRIORITY_DEF /\ PRIORITY_DEF <= PRIORITY_MIN
ASSUME QuantumPositive == QUANTUM_SIZE \in Nat \ {0}
ASSUME BoundsAreNumbers ==
    /\ PrioArgs \subseteq Int
    /\ SetprioBudget \in Nat /\ MainYieldBudget \in Nat /\ Overrun \in Nat

PRIORITY_ALPHA == -1

VARIABLES
    state,          \* task -> "new", ready "r", executing "e", suspended "s", exited "x"
    taskExec,       \* the task on the CPU, or the dispatcher
    prio_static,
    prio_dynamic,
    quantum,        \* ticks left to the executing user task; it may go below 0
    preemption,     \* 1: a tick may take the CPU away
    setprios,       \* calls of task_setprio so far (bound)
    mainYields      \* calls of task_yield by main so far (bound)

vars == <<state, taskExec, prio_static, prio_dynamic, quantum, preemption,
          setprios, mainYields>>

Priorities == PRIORITY_MAX .. PRIORITY_MIN
user_task(t) == t > Dispatcher
readyQueue == {t \in Tasks : state[t] = "r"}

-----------------------------------------------------------------------------
\* a comes before b for scheduler(): better dynamic priority, then smaller id.
Precedes(a, b) ==
    \/ prio_dynamic[a] < prio_dynamic[b]
    \/ prio_dynamic[a] = prio_dynamic[b] /\ a < b

\* One round of aging, held at PRIORITY_MAX.
Aged(p) ==
    LET q == IF p > PRIORITY_MAX THEN p + PRIORITY_ALPHA ELSE p
    IN  IF q < PRIORITY_MAX THEN PRIORITY_MAX ELSE q

\* Mutant: the better end of the scale is not enforced.
ClampedBelowOnly(p) == IF p > PRIORITY_MIN THEN PRIORITY_MIN ELSE p

\* task_setprio brings its argument into the scale.
Clamped(p) ==
    IF p < PRIORITY_MAX THEN PRIORITY_MAX
    ELSE IF p > PRIORITY_MIN THEN PRIORITY_MIN ELSE p

\* Mutant: the chosen task keeps what it gained by waiting.
AfterChoiceNoReset(better) ==
    [t \in Tasks |-> IF t \in readyQueue \ {better} THEN Aged(prio_dynamic[t])
                     ELSE prio_dynamic[t]]

\* The priorities scheduler() leaves when it returns `better'.
AfterChoice(better) ==
    IF user_task(better)
    THEN [t \in Tasks |->
            IF t = better THEN prio_static[t]
            ELSE IF t \in readyQueue THEN Aged(prio_dynamic[t])
            ELSE prio_dynamic[t]]
    ELSE prio_dynamic

\* bodyDispatcher: take scheduler()'s choice off the ready queue and switch to
\* it; after_task_switch refills the quantum of a user task.
Dispatch(better) ==
    /\ taskExec = Dispatcher
    /\ better \in readyQueue
    /\ \A t \in readyQueue \ {better} : Precedes(better, t)
    /\ prio_dynamic' = AfterChoice(better)
    /\ state' = [state EXCEPT ![better] = "e"]
    /\ taskExec' = better
    /\ quantum' = IF user_task(better) THEN QUANTUM_SIZE ELSE quantum
    /\ preemption' = 1
    /\ UNCHANGED <<prio_static, setprios, mainYields>>

\* The executing task leaves the CPU for the dispatcher, in state s; the hook
\* after the switch turns the flag on again.
LeaveCPU(s) ==
    /\ taskExec \in Tasks
    /\ state' = [state EXCEPT ![taskExec] = s]
    /\ taskExec' = Dispatcher
    /\ preemption' = 1
    /\ UNCHANGED <<prio_static, prio_dynamic>>

-----------------------------------------------------------------------------
\* task_yield called by the executing task.
TaskYield ==
    /\ LeaveCPU("r")
    /\ \/ taskExec # Main /\ UNCHANGED mainYields
       \/ /\ taskExec = Main /\ mainYields < MainYieldBudget
          /\ mainYields' = mainYields + 1
    /\ UNCHANGED <<quantum, setprios>>

\* Mutant: only the tick that brings the quantum to 0 sees it.
SpentExactly(q) == q = 0

\* The quantum a tick has just shortened is used up.
Spent(q) == q <= 0

\* interrupt_handler on a user task: the quantum shrinks, and when it is used up
\* and the flag is on the handler yields in the name of the task.  With the flag
\* off the task stays, however far below 0 (up to the bound) the quantum gets.
Tick ==
    /\ taskExec \in UserTasks
    /\ preemption = 0 => quantum > -Overrun
    /\ quantum' = quantum - 1
    /\ IF Spent(quantum - 1) /\ preemption = 1
       THEN LeaveCPU("r")
       ELSE UNCHANGED <<state, taskExec, prio_static, prio_dynamic, preemption>>
    /\ UNCHANGED <<setprios, mainYields>>

\* The first hook of any operation turns the flag off.
CriticalBegin ==
    /\ taskExec \in Tasks /\ preemption = 1
    /\ preemption' = 0
    /\ UNCHANGED <<state, taskExec, prio_static, prio_dynamic, quantum, setprios, mainYields>>

\* The last hook of an operation that moved no task turns it on again.
CriticalEnd ==
    /\ taskExec \in Tasks /\ preemption = 0
    /\ preemption' = 1
    /\ UNCHANGED <<state, taskExec, prio_static, prio_dynamic, quantum, setprios, mainYields>>

\* task_suspend of the executing task on some wait queue, and the task_yield
\* that follows it in every caller.
TaskSuspend ==
    LeaveCPU("s") /\ UNCHANGED <<quantum, setprios, mainYields>>

\* task_resume by the executing task, or by the dispatcher at the end of a
\* task_sleep.  Main waits in task_join and on semaphores, it does not sleep.
TaskResume(t) ==
    /\ state[t] = "s"
    /\ taskExec = Dispatcher => t # Main
    /\ state' = [state EXCEPT ![t] = "r"]
    /\ preemption' = 1
    /\ UNCHANGED <<taskExec, prio_static, prio_dynamic, quantum, setprios, mainYields>>

\* task_create with its hook: ids are handed out in increasing order.
TaskCreate(t) ==
    /\ taskExec \in Tasks
    /\ t \in UserTasks /\ state[t] = "new"
    /\ \A u \in UserTasks : u < t => state[u] # "new"
    /\ state' = [state EXCEPT ![t] = "r"]
    /\ prio_static' = [prio_static EXCEPT ![t] = PRIORITY_DEF]
    /\ prio_dynamic' = [prio_dynamic EXCEPT ![t] = PRIORITY_DEF]
    /\ preemption' = 1
    /\ UNCHANGED <<taskExec, quantum, setprios, mainYields>>

TaskExit == LeaveCPU("x") /\ UNCHANGED <<quantum, setprios, mainYields>>

\* Mutant: the dynamic priority is left to catch up at the next reset.
TaskSetprioStatic(t, p) ==
    /\ taskExec \in Tasks
    /\ state[t] \in {"r", "e", "s"}
    /\ setprios < SetprioBudget
    /\ prio_static' = [prio_static EXCEPT ![t] = Clamped(p)]
    /\ setprios' = setprios + 1
    /\ UNCHANGED <<state, taskExec, prio_dynamic, quantum, preemption, mainYields>>

\* task_setprio(t, p), of another task or of the caller.
TaskSetprio(t, p) ==
    /\ taskExec \in Tasks
    /\ state[t] \in {"r", "e", "s"}
    /\ setprios < SetprioBudget
    /\ prio_static' = [prio_static EXCEPT ![t] = Clamped(p)]
    /\ prio_dynamic' = [prio_dynamic EXCEPT ![t] = Clamped(p)]
    /\ setprios' = setprios + 1
    /\ UNCHANGED <<state, taskExec, quantum, preemption, mainYields>>

-----------------------------------------------------------------------------
\* ppos_init has made main, which runs the program, and started the timer.
Init ==
    /\ state = [t \in Tasks |-> IF t = Main THEN "e" ELSE "new"]
    /\ taskExec = Main
    /\ prio_static = [t \in Tasks |-> PRIORITY_DEF]
    /\ prio_dynamic = [t \in Tasks |-> PRIORITY_DEF]
    /\ quantum = QUANTUM_SIZE
    /\ preemption = 1
    /\ setprios = 0
    /\ mainYields = 0

Next ==
    \/ \E t \in Tasks : Dispatch(t) \/ TaskResume(t) \/ TaskCreate(t)
    \/ \E t \in Tasks, p \in PrioArgs : TaskSetprio(t, p)
    \/ TaskYield \/ Tick \/ CriticalBegin \/ CriticalEnd \/ TaskSuspend \/ TaskExit

Spec == Init /\ [][Next]_vars

\* The dispatcher's loop goes on; main, which no tick preempts, sooner or later
\* joins a task or exits, as every program of the repository does; a user task
\* that turned the flag off turns it on again (task_join of a task that has ended
\* returns with the flag off, so this too is true of the programs and no promise
\* of the code); and the timer, which runs on a clock of its own, does not for
\* ever miss the times when the flag is on.
Fairness ==
    /\ WF_vars(\E t \in Tasks : Dispatch(t))
    /\ WF_vars(taskExec = Main /\ (TaskSuspend \/ TaskExit))
    /\ WF_vars(taskExec \in UserTasks /\ CriticalEnd)
    /\ SF_vars(preemption = 1 /\ Tick)

FairSpec == Spec /\ Fairness

-----------------------------------------------------------------------------
TypeOK ==
    /\ state \in [Tasks -> {"new", "r", "e", "s", "x"}]
    /\ taskExec \in Tasks \cup {Dispatcher}
    /\ prio_static \in [Tasks -> Priorities]
    /\ prio_dynamic \in [Tasks -> Priorities]
    /\ quantum \in -(Overrun + 1) .. QUANTUM_SIZE
    /\ preemption \in {0, 1}
    /\ setprios \in 0 .. SetprioBudget
    /\ mainYields \in 0 .. MainYieldBudget

\* The CPU runs one task, the one in state "e": a task that is ready, suspended
\* or gone never keeps it (task_switch, task_yield, ppos-core-aux.c hooks).
OneExecuting == \A t \in Tasks : state[t] = "e" <=> taskExec = t

\* Aging only helps and a reset takes all of it back: no task is ever treated
\* worse than the static priority it was given, and a user task on the CPU has
\* given back whatever it gained by waiting (scheduler, task_setprio).
AgingOnlyHelps ==
    /\ \A t \in Tasks : prio_dynamic[t] <= prio_static[t]
    /\ taskExec \in UserTasks => prio_dynamic[taskExec] = prio_static[taskExec]

\* Every user task keeps a static priority at least one step per other user
\* task away from the limit where aging stops.
FarFromLimit ==
    \A t \in UserTasks : prio_static[t] - PRIORITY_MAX >= Cardinality(UserTasks) - 1

\* No starvation (scheduler's aging): as long as every static priority keeps that
\* distance, and user tasks do not keep the flag off for ever (Fairness), a task
\* that enters the ready queue reaches the CPU.  One step less and the smaller
\* ids, back at the limit in time to win the tie, can keep the largest id waiting
\* for ever.
NoStarvation ==
    []FarFromLimit => \A t \in Tasks : state[t] = "r" ~> state[t] = "e"
=============================================================================
