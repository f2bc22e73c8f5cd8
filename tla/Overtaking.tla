----------------------------- MODULE Overtaking ------------------------------
(***************************************************************************)
(* History variables that ride on Scheduler and guard nothing.             *)
(* How often a ready task may be overtaken: for a task t in the ready      *)
(* queue, overtaken[t][c] counts how often scheduler() has chosen the user *)
(* task c over t since t entered the queue or the static priority of       *)
(* either was last changed.  A choice of c while c itself has aged to      *)
(* PRIORITY_MAX is not counted: at the limit priorities tie and the ids    *)
(* decide.                                                                 *)
(* How long a task may keep the CPU: openTicks counts the ticks that found *)
(* the flag on since the executing user task was chosen.                   *)
(***************************************************************************)
EXTENDS Scheduler

VARIABLES overtaken, openTicks

ovars == <<state, taskExec, prio_static, prio_dynamic, quantum, preemption,
           setprios, mainYields, overtaken, openTicks>>

KeepsWaiting(t) == state[t] = "r" /\ state'[t] = "r"

SamePrio(t) == prio_static'[t] = prio_static[t] /\ prio_dynamic'[t] <= prio_dynamic[t]

\* This step is scheduler() choosing c, not yet aged to the limit.
Chosen(c) ==
    state[c] = "r" /\ state'[c] = "e" /\ prio_dynamic[c] > PRIORITY_MAX

Count(t, c) ==
    IF KeepsWaiting(t) /\ SamePrio(t) /\ prio_static'[c] = prio_static[c]
    THEN IF Chosen(c) THEN overtaken[t][c] + 1 ELSE overtaken[t][c]
    ELSE 0

Observe ==
    /\ overtaken' = [t \in Tasks |-> [c \in UserTasks |-> Count(t, c)]]
    /\ openTicks' = IF taskExec' # taskExec THEN 0
                    ELSE IF quantum' < quantum /\ preemption = 1 THEN openTicks + 1
                    ELSE openTicks

OInit ==
    /\ Init
    /\ overtaken = [t \in Tasks |-> [c \in UserTasks |-> 0]]
    /\ openTicks = 0

ONext == Next /\ Observe

OSpec == OInit /\ [][ONext]_ovars

OFairSpec == OSpec /\ Fairness

-----------------------------------------------------------------------------
OTypeOK == overtaken \in [Tasks -> [UserTasks -> Nat]] /\ openTicks \in Nat

\* Bounded overtaking (scheduler's aging and reset): while t waits, c passes it at
\* most once, plus once for every step of static priority c has over t.  The
\* passes c makes when it has itself aged to PRIORITY_MAX are not counted and not
\* bounded: the starvation by tasks tied at the limit is out of its sight.
BoundedOvertaking ==
    \A t \in Tasks, c \in UserTasks :
        \/ overtaken[t][c] <= 1
        \/ overtaken[t][c] <= prio_static[t] - prio_static[c] + 1

\* What makes the bound inductive: each time c passed t, t came one step closer.
CatchingUp ==
    \A t \in Tasks, c \in UserTasks :
        overtaken[t][c] >= 1 =>
            \/ prio_dynamic[t] = PRIORITY_MAX
            \/ overtaken[t][c] <= prio_static[t] - prio_static[c]
                                  + prio_dynamic[c] - prio_dynamic[t]

\* The timer takes the CPU away (interrupt_handler): a user task stays on it for
\* fewer than QUANTUM_SIZE ticks that find the flag on, whatever the ticks that
\* find it off do to the quantum; the one that overran in an operation is taken
\* off by the first such tick, not left to run on below zero.
LosesCPUInTime == taskExec \in UserTasks => openTicks < QUANTUM_SIZE

\* What makes it inductive: each of those ticks was taken from the quantum.
TicksFromQuantum == taskExec \in UserTasks => openTicks <= QUANTUM_SIZE - quantum
=============================================================================
