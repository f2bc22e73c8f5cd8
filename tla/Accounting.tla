----------------------------- MODULE Accounting ------------------------------
(***************************************************************************)
(* The CPU time accounting of PingPongOS (ppos-core-aux.c): the fields     *)
(* exec_start, proc_time, last_proc and activations of each task, and what *)
(* after_task_exit reports.                                                *)
(*                                                                         *)
(* A switch is two steps, before_task_switch and after_task_switch: the    *)
(* timer goes on between them, and between the report and the switch.      *)
(* Which ready task is next, and why a task leaves the CPU (quantum,       *)
(* yield, suspension), is Scheduler's subject and left open here.  Main    *)
(* and the dispatcher, which are not user tasks, are one: System.          *)
(***************************************************************************)
EXTENDS Naturals, FiniteSets, FiniteSetsExt

CONSTANTS
    UserTasks,
    System,            \* main or the dispatcher: user_task = 0
    MaxTime,           \* bound: ticks of the clock
    MaxActivations     \* bound: times a task is switched to

ASSUME AccountingParameters ==
    /\ IsFiniteSet(UserTasks) /\ System \notin UserTasks
    /\ MaxTime \in Nat /\ MaxActivations \in Nat

VARIABLES
    systemTime,        \* _systemTime
    taskExec,          \* the task on the CPU
    switchTo,          \* the task a switch in progress goes to, or taskExec
    state,             \* "new", ready "r", executing "e", exited "x"
    exec_start, proc_time, last_proc, activations,
    report,            \* what after_task_exit printed of each task
    spent              \* history: ticks each task has had the CPU to itself

fields == <<exec_start, proc_time, last_proc, activations>>
vars == <<systemTime, taskExec, switchTo, state, fields, report, spent>>

Switching == switchTo # taskExec
Running(t) == taskExec = t /\ ~Switching

\* interrupt_handler: the clock goes on whatever the kernel is doing.
Tick ==
    /\ systemTime < MaxTime
    /\ systemTime' = systemTime + 1
    /\ spent' = [t \in UserTasks |-> IF Running(t) THEN spent[t] + 1 ELSE spent[t]]
    /\ UNCHANGED <<taskExec, switchTo, state, fields, report>>

\* task_create by whoever executes; after_task_create starts the accounts.
TaskCreate(t) ==
    /\ ~Switching /\ state[t] = "new"
    /\ taskExec \in UserTasks => state[taskExec] = "e"
    /\ state' = [state EXCEPT ![t] = "r"]
    /\ exec_start' = [exec_start EXCEPT ![t] = systemTime]
    /\ proc_time' = [proc_time EXCEPT ![t] = 0]
    /\ last_proc' = [last_proc EXCEPT ![t] = 0]
    /\ activations' = [activations EXCEPT ![t] = 0]
    /\ UNCHANGED <<systemTime, taskExec, switchTo, report, spent>>

\* Mutant: the time of the clock is charged, not the slice.
ChargedClock(p) == [p EXCEPT ![taskExec] = p[taskExec] + systemTime]

\* Mutant: the operands of the slice swapped.
ChargedBackwards(p) ==
    IF last_proc[taskExec] > 0
    THEN [p EXCEPT ![taskExec] = p[taskExec] + (last_proc[taskExec] - systemTime)] ELSE p

\* Mutant: a task that has exited is not charged.
ChargedAlive(p) ==
    IF state[taskExec] = "e" /\ last_proc[taskExec] > 0
    THEN [p EXCEPT ![taskExec] = p[taskExec] + (systemTime - last_proc[taskExec])] ELSE p

\* before_task_switch: the slice of the task that leaves is added to its time.
Charged(p) ==
    IF last_proc[taskExec] > 0
    THEN [p EXCEPT ![taskExec] = p[taskExec] + (systemTime - last_proc[taskExec])] ELSE p

\* A user task leaves the CPU, for the dispatcher.
LeaveCPU ==
    /\ taskExec \in UserTasks /\ ~Switching
    /\ switchTo' = System
    /\ proc_time' = Charged(proc_time)
    /\ state' = [state EXCEPT ![taskExec] = IF state[taskExec] = "e" THEN "r" ELSE "x"]
    /\ UNCHANGED <<systemTime, taskExec, exec_start, last_proc, activations, report, spent>>

\* The dispatcher switches to a ready task.
Dispatch(t) ==
    /\ taskExec = System /\ ~Switching
    /\ state[t] = "r" /\ activations[t] < MaxActivations
    /\ switchTo' = t
    /\ state' = [state EXCEPT ![t] = "e"]
    /\ UNCHANGED <<systemTime, taskExec, fields, report, spent>>

\* Mutant: last_proc is set on the first activation only.
SliceFromFirst ==
    last_proc' = IF switchTo \in UserTasks /\ last_proc[switchTo] = 0
                 THEN [last_proc EXCEPT ![switchTo] = systemTime] ELSE last_proc

\* last_proc = systime(), for a user task.
SliceFromNow ==
    last_proc' = IF switchTo \in UserTasks
                 THEN [last_proc EXCEPT ![switchTo] = systemTime] ELSE last_proc

\* after_task_switch, with taskExec already the next task.
AfterTaskSwitch ==
    /\ Switching
    /\ taskExec' = switchTo
    /\ SliceFromNow
    /\ activations' = IF switchTo \in UserTasks
                      THEN [activations EXCEPT ![switchTo] = activations[switchTo] + 1]
                      ELSE activations
    /\ UNCHANGED <<systemTime, switchTo, state, exec_start, proc_time, report, spent>>

\* task_exit up to after_task_exit's report; the switch to the dispatcher follows.
TaskExit(t) ==
    /\ Running(t) /\ state[t] = "e"
    /\ state' = [state EXCEPT ![t] = "x"]
    /\ report' = [report EXCEPT ![t] =
                    [total |-> systemTime - exec_start[t], proc |-> proc_time[t],
                     acts |-> activations[t]]]
    /\ UNCHANGED <<systemTime, taskExec, switchTo, fields, spent>>

NoReport == [total |-> 0, proc |-> 0, acts |-> 0]

Init ==
    /\ systemTime = 0 /\ taskExec = System /\ switchTo = System
    /\ state = [t \in UserTasks |-> "new"]
    /\ exec_start = [t \in UserTasks |-> 0] /\ proc_time = [t \in UserTasks |-> 0]
    /\ last_proc = [t \in UserTasks |-> 0] /\ activations = [t \in UserTasks |-> 0]
    /\ report = [t \in UserTasks |-> NoReport]
    /\ spent = [t \in UserTasks |-> 0]

Next ==
    \/ Tick \/ LeaveCPU \/ AfterTaskSwitch
    \/ \E t \in UserTasks : TaskCreate(t) \/ Dispatch(t) \/ TaskExit(t)

Spec == Init /\ [][Next]_vars

-----------------------------------------------------------------------------
TypeOK ==
    /\ systemTime \in Nat
    /\ {taskExec, switchTo} \subseteq UserTasks \cup {System}
    /\ state \in [UserTasks -> {"new", "r", "e", "x"}]
    /\ {exec_start, proc_time, last_proc, activations, spent} \subseteq [UserTasks -> Nat]
    /\ report \in [UserTasks -> [total : Nat, proc : Nat, acts : Nat]]

\* What the next before_task_switch will charge to t.
SliceSoFar(t) ==
    IF Running(t) /\ last_proc[t] > 0 THEN systemTime - last_proc[t] ELSE 0

\* No tick is charged twice, to two tasks or to one: what all tasks have been and
\* will be charged fits in the clock (before_task_switch, after_task_switch).
NoTickTwice ==
    MapThenSumSet(LAMBDA t : proc_time[t] + SliceSoFar(t), UserTasks) <= systemTime

\* A task is never charged for more than its lifetime, nor reported with more
\* processor time than execution time (after_task_create, after_task_exit).
WithinLifetime ==
    \A t \in UserTasks :
        /\ state[t] # "new" =>
              proc_time[t] + SliceSoFar(t) <= systemTime - exec_start[t]
        /\ report[t].proc <= report[t].total

\* Every tick a task had the CPU is charged to it, except those of the one slice
\* that began at time 0: before_task_switch takes last_proc = 0 for `never ran'.
LostToOne ==
    Cardinality({t \in UserTasks : spent[t] # proc_time[t] + SliceSoFar(t)}) <= 1
=============================================================================
