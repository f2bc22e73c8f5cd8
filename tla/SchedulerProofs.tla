--------------------------- MODULE SchedulerProofs ---------------------------
(***************************************************************************)
(* Machine-checked facts about Scheduler and Overtaking, for every set of  *)
(* tasks, every priority scale and every quantum.                          *)
(***************************************************************************)
EXTENDS Overtaking, TLAPS

USE DEF Main, Dispatcher, Tasks, Priorities

\* Only the tick that takes the CPU away goes one below the bound.
OverrunBound == taskExec \in UserTasks => quantum >= -Overrun

\* The inductive invariant: the type, and the invariants, which need one another
\* (the task being created or chosen is not the one executing).
SchedInv == TypeOK /\ OneExecuting /\ AgingOnlyHelps /\ OverrunBound

-----------------------------------------------------------------------------
\* Aging moves a priority one step at most, never beyond the limit
\* (scheduler, ppos-core-aux.c:107-113).
LEMMA AgedStep ==
    ASSUME NEW p \in Priorities
    PROVE  /\ Aged(p) \in Priorities
           /\ Aged(p) <= p
           /\ p = PRIORITY_MAX => Aged(p) = PRIORITY_MAX
           /\ p > PRIORITY_MAX => Aged(p) = p - 1
  BY PriorityScale DEF Aged, PRIORITY_ALPHA

\* task_setprio always stores a priority of the scale.
LEMMA ClampedInScale == \A p \in Int : Clamped(p) \in Priorities
  BY PriorityScale DEF Clamped

\* A state and a task that executes in it are told apart from the dispatcher.
LEMMA DispatcherIsNoTask == Dispatcher \notin Tasks
  BY UserIds

LEMMA InitInv == Init => SchedInv
  BY UserIds, PriorityScale, QuantumPositive, BoundsAreNumbers
     DEF Init, SchedInv, TypeOK, OneExecuting, AgingOnlyHelps, OverrunBound

\* scheduler() leaves priorities in the scale, and no worse than they were
\* except for the chosen task, which gets its static priority back.
LEMMA ChoiceEffect ==
    ASSUME TypeOK, AgingOnlyHelps, NEW b \in Tasks
    PROVE  /\ AfterChoice(b) \in [Tasks -> Priorities]
           /\ \A t \in Tasks : AfterChoice(b)[t] <= prio_static[t]
           /\ \A t \in Tasks \ {b} : AfterChoice(b)[t] <= prio_dynamic[t]
           /\ b \in UserTasks => AfterChoice(b)[b] = prio_static[b]
<1>1. CASE user_task(b)
  <2>1. AfterChoice(b) = [t \in Tasks |->
            IF t = b THEN prio_static[t]
            ELSE IF t \in readyQueue THEN Aged(prio_dynamic[t])
            ELSE prio_dynamic[t]]
    BY <1>1 DEF AfterChoice
  <2>2. \A t \in Tasks : /\ Aged(prio_dynamic[t]) \in Priorities
                         /\ Aged(prio_dynamic[t]) <= prio_dynamic[t]
    BY AgedStep DEF TypeOK
  <2>3. \A t \in Tasks : prio_dynamic[t] \in Int /\ prio_static[t] \in Int
                         /\ Aged(prio_dynamic[t]) \in Int
    BY <2>2, PriorityScale DEF TypeOK
  <2> QED
    BY <2>1, <2>2, <2>3 DEF TypeOK, AgingOnlyHelps
<1>2. CASE ~user_task(b)
  <2>1. b \notin UserTasks
    BY <1>2, UserIds DEF user_task
  <2> QED
    BY <1>2, <2>1, PriorityScale DEF AfterChoice, TypeOK, AgingOnlyHelps
<1> QED
  BY <1>1, <1>2

LEMMA DispatchInv ==
    ASSUME SchedInv, NEW b \in Tasks, Dispatch(b)
    PROVE  SchedInv'
<1> USE UserIds DEF SchedInv
<1>1. /\ AfterChoice(b) \in [Tasks -> Priorities]
      /\ \A t \in Tasks : AfterChoice(b)[t] <= prio_static[t]
      /\ b \in UserTasks => AfterChoice(b)[b] = prio_static[b]
  BY ChoiceEffect
<1>2. TypeOK'
  BY <1>1, QuantumPositive, BoundsAreNumbers DEF Dispatch, TypeOK
<1>3. OneExecuting'
  BY DispatcherIsNoTask DEF Dispatch, OneExecuting, TypeOK
<1>4. AgingOnlyHelps'
  BY <1>1 DEF Dispatch, AgingOnlyHelps
<1>5. OverrunBound'
  <2>1. taskExec' = b /\ (b \in UserTasks => quantum' = QUANTUM_SIZE)
    BY DEF Dispatch, user_task
  <2>2. QUANTUM_SIZE >= -Overrun
    BY QuantumPositive, BoundsAreNumbers
  <2> QED
    BY <2>1, <2>2 DEF OverrunBound
<1> QED
  BY <1>2, <1>3, <1>4, <1>5

\* Leaving the CPU keeps the invariant whatever the tick did to the quantum.
LEMMA LeaveCPUInv ==
    ASSUME SchedInv, NEW s \in {"r", "s", "x"}, LeaveCPU(s),
           quantum' \in -(Overrun + 1) .. QUANTUM_SIZE,
           setprios' = setprios, mainYields' \in 0 .. MainYieldBudget
    PROVE  SchedInv'
<1> USE UserIds DEF SchedInv, LeaveCPU
<1>1. TypeOK'
  BY DEF TypeOK
<1>2. OneExecuting'
  BY DispatcherIsNoTask DEF OneExecuting, TypeOK
<1>3. AgingOnlyHelps' /\ OverrunBound'
  BY DEF AgingOnlyHelps, OverrunBound
<1> QED
  BY <1>1, <1>2, <1>3

\* A tick keeps the quantum within its type.
LEMMA TickQuantum ==
    ASSUME TypeOK, OverrunBound, Tick
    PROVE  quantum' \in -(Overrun + 1) .. QUANTUM_SIZE
  BY QuantumPositive, BoundsAreNumbers DEF Tick, TypeOK, OverrunBound

LEMMA NextInv == SchedInv /\ [Next]_vars => SchedInv'
<1> SUFFICES ASSUME SchedInv, [Next]_vars PROVE SchedInv'
  OBVIOUS
<1> USE UserIds DEF SchedInv
<1>1. ASSUME NEW t \in Tasks, Dispatch(t) PROVE SchedInv'
  BY <1>1, DispatchInv
<1>2. ASSUME NEW t \in Tasks, TaskResume(t) PROVE SchedInv'
  <2>1. TypeOK' /\ AgingOnlyHelps' /\ OverrunBound'
    BY <1>2 DEF TaskResume, TypeOK, AgingOnlyHelps, OverrunBound
  <2>2. OneExecuting'
    BY <1>2 DEF TaskResume, TypeOK, OneExecuting
  <2> QED
    BY <2>1, <2>2
<1>3. ASSUME NEW t \in Tasks, TaskCreate(t) PROVE SchedInv'
  <2>1. TypeOK' /\ OverrunBound'
    BY <1>3, PriorityScale DEF TaskCreate, TypeOK, OverrunBound
  <2>2. OneExecuting' /\ AgingOnlyHelps'
    BY <1>3, PriorityScale DEF TaskCreate, TypeOK, OneExecuting, AgingOnlyHelps
  <2> QED
    BY <2>1, <2>2
<1>4. ASSUME NEW t \in Tasks, NEW p \in PrioArgs, TaskSetprio(t, p) PROVE SchedInv'
  <2>1. Clamped(p) \in Priorities
    BY ClampedInScale, BoundsAreNumbers
  <2>2. TypeOK'
    BY <1>4, <2>1, BoundsAreNumbers DEF TaskSetprio, TypeOK
  <2>3. AgingOnlyHelps' /\ OneExecuting' /\ OverrunBound'
    BY <1>4, <2>1, PriorityScale
       DEF TaskSetprio, TypeOK, AgingOnlyHelps, OneExecuting, OverrunBound
  <2> QED
    BY <2>2, <2>3
<1>5. ASSUME TaskYield PROVE SchedInv'
  <2>1. mainYields' \in 0 .. MainYieldBudget
    BY <1>5, BoundsAreNumbers DEF TaskYield, TypeOK
  <2> QED
    BY <1>5, <2>1, LeaveCPUInv DEF TaskYield, TypeOK
<1>6. ASSUME Tick PROVE SchedInv'
  <2>1. quantum' \in -(Overrun + 1) .. QUANTUM_SIZE
    BY <1>6, TickQuantum
  <2>2. CASE Spent(quantum - 1) /\ preemption = 1
    BY <1>6, <2>1, <2>2, LeaveCPUInv DEF Tick, TypeOK
  <2>3. CASE ~(Spent(quantum - 1) /\ preemption = 1)
    <3>1. OverrunBound'
      BY <1>6, <2>3, QuantumPositive, BoundsAreNumbers
         DEF Tick, TypeOK, OverrunBound, Spent
    <3> QED
      BY <1>6, <2>1, <2>3, <3>1 DEF Tick, TypeOK, OneExecuting, AgingOnlyHelps
  <2> QED
    BY <2>2, <2>3
<1>7. ASSUME TaskSuspend PROVE SchedInv'
  BY <1>7, LeaveCPUInv DEF TaskSuspend, TypeOK
<1>8. ASSUME TaskExit PROVE SchedInv'
  BY <1>8, LeaveCPUInv DEF TaskExit, TypeOK
<1>9. CASE CriticalBegin \/ CriticalEnd
  BY <1>9 DEF CriticalBegin, CriticalEnd, TypeOK, OneExecuting, AgingOnlyHelps,
              OverrunBound
<1>10. CASE UNCHANGED vars
  BY <1>10 DEF vars, TypeOK, OneExecuting, AgingOnlyHelps, OverrunBound
<1> QED
  BY <1>1, <1>2, <1>3, <1>4, <1>5, <1>6, <1>7, <1>8, <1>9, <1>10 DEF Next

-----------------------------------------------------------------------------
\* Every state of the scheduler is well typed.
THEOREM TypeCorrect == Spec => []TypeOK
  BY InitInv, NextInv, PTL DEF Spec, SchedInv

\* The task in state "e" is the one on the CPU, for any number of tasks.
THEOREM SingleCPU == Spec => []OneExecuting
  BY InitInv, NextInv, PTL DEF Spec, SchedInv

\* No task is ever treated worse than its static priority, and a user task on
\* the CPU runs at exactly that priority.
THEOREM AgingHelps == Spec => []AgingOnlyHelps
  BY InitInv, NextInv, PTL DEF Spec, SchedInv

-----------------------------------------------------------------------------
\* A task that was never created still has equal priorities.
NewUntouched == \A t \in Tasks : state[t] = "new" => prio_dynamic[t] = prio_static[t]

\* The inductive invariant of the two histories.
OInv ==
    /\ SchedInv /\ NewUntouched /\ OTypeOK
    /\ CatchingUp /\ BoundedOvertaking
    /\ TicksFromQuantum /\ LosesCPUInTime

LEMMA OInitInv == OInit => OInv
<1> SUFFICES ASSUME OInit PROVE OInv
  OBVIOUS
<1>1. SchedInv /\ NewUntouched
  BY InitInv DEF OInit, Init, NewUntouched
<1>2. OTypeOK /\ CatchingUp /\ BoundedOvertaking
  BY DEF OInit, OTypeOK, CatchingUp, BoundedOvertaking
<1>3. TicksFromQuantum /\ LosesCPUInTime
  BY QuantumPositive DEF OInit, Init, TicksFromQuantum, LosesCPUInTime
<1> QED
  BY <1>1, <1>2, <1>3 DEF OInv

LEMMA NewUntouchedInv ==
    ASSUME SchedInv, NewUntouched, [Next]_vars
    PROVE  NewUntouched'
<1> USE UserIds DEF NewUntouched, SchedInv, TypeOK
<1>1. ASSUME NEW b \in Tasks, Dispatch(b) PROVE NewUntouched'
  BY <1>1 DEF Dispatch, AfterChoice, readyQueue
<1>2. ASSUME NEW t \in Tasks, TaskResume(t) \/ TaskCreate(t) PROVE NewUntouched'
  BY <1>2 DEF TaskResume, TaskCreate
<1>3. ASSUME NEW t \in Tasks, NEW p \in PrioArgs, TaskSetprio(t, p) PROVE NewUntouched'
  BY <1>3 DEF TaskSetprio
<1>4. CASE TaskYield \/ Tick \/ TaskSuspend \/ TaskExit
  BY <1>4 DEF TaskYield, Tick, TaskSuspend, TaskExit, LeaveCPU
<1>6. CASE CriticalBegin \/ CriticalEnd
  BY <1>6 DEF CriticalBegin, CriticalEnd
<1>5. CASE UNCHANGED vars
  BY <1>5 DEF vars
<1> QED
  BY <1>1, <1>2, <1>3, <1>4, <1>5, <1>6 DEF Next

\* One step seen by a waiting task t and a user task c whose static priorities
\* stay: c is chosen before the limit, or c does not get ahead of t.
LEMMA PairStep ==
    ASSUME SchedInv, NewUntouched, [Next]_vars,
           NEW t \in Tasks, NEW c \in UserTasks,
           KeepsWaiting(t), SamePrio(t), prio_static'[c] = prio_static[c]
    PROVE  /\ Chosen(c) => /\ t # c
                           /\ prio_dynamic[c] <= prio_dynamic[t]
                           /\ prio_dynamic'[c] = prio_static[c]
                           /\ \/ prio_dynamic'[t] = PRIORITY_MAX
                              \/ prio_dynamic'[t] = prio_dynamic[t] - 1
           /\ ~Chosen(c) =>
                  \/ prio_dynamic'[t] = PRIORITY_MAX
                  \/ prio_dynamic'[t] - prio_dynamic'[c]
                        <= prio_dynamic[t] - prio_dynamic[c]
<1> DEFINE Goal == /\ Chosen(c) => /\ t # c
                                   /\ prio_dynamic[c] <= prio_dynamic[t]
                                   /\ prio_dynamic'[c] = prio_static[c]
                                   /\ \/ prio_dynamic'[t] = PRIORITY_MAX
                                      \/ prio_dynamic'[t] = prio_dynamic[t] - 1
                   /\ ~Chosen(c) =>
                          \/ prio_dynamic'[t] = PRIORITY_MAX
                          \/ prio_dynamic'[t] - prio_dynamic'[c]
                                <= prio_dynamic[t] - prio_dynamic[c]
<1> USE UserIds DEF SchedInv
<1>0. /\ c \in Tasks /\ user_task(c)
      /\ \A u \in Tasks : prio_dynamic[u] \in Priorities /\ prio_static[u] \in Priorities
      /\ \A u \in Tasks : prio_dynamic[u] <= prio_static[u]
      /\ Priorities \subseteq Int /\ PRIORITY_MAX \in Int
      /\ state[t] = "r"
  BY PriorityScale DEF TypeOK, AgingOnlyHelps, user_task, KeepsWaiting
<1>1. ASSUME NEW b \in Tasks, Dispatch(b) PROVE Goal
  <2>1. b # t /\ t \in readyQueue /\ state'[b] = "e"
    BY <1>1 DEF Dispatch, KeepsWaiting, readyQueue, TypeOK
  <2>2. Precedes(b, t)
    BY <1>1, <2>1 DEF Dispatch
  <2>3. CASE ~user_task(b)
    <3>1. b # c /\ prio_dynamic' = prio_dynamic
      BY <1>0, <1>1, <2>3 DEF Dispatch, AfterChoice
    <3>2. ~Chosen(c)
      BY <1>0, <1>1, <3>1 DEF Dispatch, Chosen, TypeOK
    <3> QED
      BY <1>0, <3>1, <3>2
  <2>4. CASE user_task(b)
    <3>1. prio_dynamic' = [u \in Tasks |->
              IF u = b THEN prio_static[u]
              ELSE IF u \in readyQueue THEN Aged(prio_dynamic[u])
              ELSE prio_dynamic[u]]
      BY <1>1, <2>4 DEF Dispatch, AfterChoice
    <3>2. prio_dynamic'[t] = Aged(prio_dynamic[t])
      BY <2>1, <3>1
    <3>3. /\ Aged(prio_dynamic[t]) \in Priorities
          /\ prio_dynamic[t] = PRIORITY_MAX => Aged(prio_dynamic[t]) = PRIORITY_MAX
          /\ prio_dynamic[t] > PRIORITY_MAX
                => Aged(prio_dynamic[t]) = prio_dynamic[t] - 1
      BY <1>0, AgedStep
    <3>4. \/ prio_dynamic'[t] = PRIORITY_MAX
          \/ prio_dynamic'[t] = prio_dynamic[t] - 1
      BY <1>0, <3>2, <3>3, PriorityScale
    <3>5. CASE b = c
      <4>1. prio_dynamic'[c] = prio_static[c] /\ t # c
        BY <1>0, <2>1, <3>1, <3>5
      <4>2. prio_dynamic[c] <= prio_dynamic[t]
        BY <1>0, <2>2, <3>5 DEF Precedes
      <4> QED
        BY <1>0, <3>4, <4>1, <4>2
    <3>6. CASE b # c
      <4>1. ~Chosen(c)
        BY <1>0, <1>1, <3>6 DEF Dispatch, Chosen, TypeOK
      <4>2. prio_dynamic'[c] \in Int /\ prio_dynamic'[c] >= prio_dynamic[c] - 1
        <5>1. prio_dynamic'[c] \in {prio_dynamic[c], Aged(prio_dynamic[c])}
          BY <1>0, <3>1, <3>6
        <5>2. /\ Aged(prio_dynamic[c]) \in Priorities
              /\ prio_dynamic[c] = PRIORITY_MAX => Aged(prio_dynamic[c]) = PRIORITY_MAX
              /\ prio_dynamic[c] > PRIORITY_MAX
                    => Aged(prio_dynamic[c]) = prio_dynamic[c] - 1
          BY <1>0, AgedStep
        <5> QED
          BY <1>0, <5>1, <5>2, PriorityScale
      <4> QED
        BY <1>0, <3>4, <4>1, <4>2
    <3> QED
      BY <3>5, <3>6
  <2> QED
    BY <2>3, <2>4
<1>2. ASSUME state'[c] # "e" \/ state[c] # "r",
             prio_dynamic'[t] = prio_dynamic[t],
             prio_dynamic'[c] >= prio_dynamic[c], prio_dynamic'[c] \in Int
      PROVE  Goal
  BY <1>0, <1>2 DEF Chosen
<1>3. ASSUME NEW u \in Tasks, TaskResume(u) PROVE Goal
  BY <1>0, <1>2, <1>3 DEF TaskResume, TypeOK
<1>4. ASSUME NEW u \in Tasks, TaskCreate(u) PROVE Goal
  <2>1. u # t /\ (state'[c] # "e" \/ state[c] # "r")
    BY <1>0, <1>4 DEF TaskCreate, TypeOK
  <2>2. prio_dynamic'[t] = prio_dynamic[t]
    BY <1>0, <1>4 DEF TaskCreate, TypeOK
  <2>3. prio_dynamic'[c] = prio_dynamic[c]
    BY <1>0, <1>4 DEF TaskCreate, TypeOK, NewUntouched
  <2> QED
    BY <1>0, <1>2, <2>1, <2>2, <2>3
<1>5. ASSUME NEW u \in Tasks, NEW p \in PrioArgs, TaskSetprio(u, p) PROVE Goal
  <2>1. state' = state /\ Clamped(p) \in Int
    BY <1>5, ClampedInScale, BoundsAreNumbers, PriorityScale DEF TaskSetprio
  <2>2. prio_dynamic'[t] = prio_dynamic[t]
    BY <1>0, <1>5, <2>1 DEF TaskSetprio, TypeOK, SamePrio
  <2>3. prio_dynamic'[c] \in Int /\ prio_dynamic'[c] >= prio_dynamic[c]
    BY <1>0, <1>5, <2>1 DEF TaskSetprio, TypeOK
  <2> QED
    BY <1>0, <1>2, <2>1, <2>2, <2>3
<1>6. CASE TaskYield \/ Tick \/ TaskSuspend \/ TaskExit
  <2>1. prio_dynamic' = prio_dynamic
    BY <1>6 DEF TaskYield, Tick, TaskSuspend, TaskExit, LeaveCPU
  <2>2. state'[c] # "e" \/ state[c] # "r"
    BY <1>0, <1>6 DEF TaskYield, Tick, TaskSuspend, TaskExit, LeaveCPU, TypeOK
  <2> QED
    BY <1>0, <1>2, <2>1, <2>2
<1>7. CASE UNCHANGED vars
  BY <1>0, <1>2, <1>7 DEF vars
<1>8. CASE CriticalBegin \/ CriticalEnd
  BY <1>0, <1>2, <1>8 DEF CriticalBegin, CriticalEnd, TypeOK
<1> QED
  BY <1>1, <1>3, <1>4, <1>5, <1>6, <1>7, <1>8 DEF Next

\* With no tick counted yet the bound says only that the quantum is no larger than
\* a full one.
LEMMA NothingTaken == \A n \in Int, q \in Int : q <= n => 0 <= n - q
  OBVIOUS

\* A task that stays on the CPU through a tick with the flag on had more than one
\* tick left; any other step gives no tick to the count.
LEMMA TicksInv ==
    ASSUME OInv, [ONext]_ovars
    PROVE  openTicks' \in Nat /\ TicksFromQuantum' /\ LosesCPUInTime'
<1> DEFINE Goal == openTicks' \in Nat /\ TicksFromQuantum' /\ LosesCPUInTime'
<1>0. /\ QUANTUM_SIZE \in Int /\ QUANTUM_SIZE > 0
      /\ openTicks \in Nat /\ quantum \in Int
      /\ taskExec \in Tasks \cup {Dispatcher}
      /\ TicksFromQuantum /\ LosesCPUInTime
  BY QuantumPositive, BoundsAreNumbers DEF OInv, OTypeOK, SchedInv, TypeOK
<1> USE <1>0 DEF TicksFromQuantum, LosesCPUInTime
<1> HIDE DEF OInv
<1>1. CASE UNCHANGED ovars
  BY <1>1 DEF ovars
<1>2. CASE ONext
  <2>1. openTicks' = IF taskExec' # taskExec THEN 0
                     ELSE IF quantum' < quantum /\ preemption = 1 THEN openTicks + 1
                     ELSE openTicks
    BY <1>2 DEF ONext, Observe
  <2>2. ASSUME taskExec' # taskExec, quantum' \in Int,
               taskExec' \in UserTasks => quantum' <= QUANTUM_SIZE
        PROVE  Goal
    <3>1. openTicks' = 0
      BY <2>1, <2>2
    <3>2. LosesCPUInTime' /\ openTicks' \in Nat
      BY <3>1
    <3>3. ASSUME taskExec' \in UserTasks PROVE openTicks' <= QUANTUM_SIZE - quantum'
      <4>1. quantum' \in Int /\ quantum' <= QUANTUM_SIZE
        BY <2>2, <3>3
      <4>2. 0 <= QUANTUM_SIZE - quantum'
        BY <4>1, NothingTaken
      <4> QED
        BY <3>1, <4>2
    <3> QED
      BY <3>2, <3>3
  <2>3. ASSUME taskExec' = taskExec, quantum' = quantum PROVE Goal
    BY <2>1, <2>3
  <2>4. ASSUME NEW b \in Tasks, Dispatch(b) PROVE Goal
    <3>1. quantum' \in Int /\ taskExec' = b /\ b # taskExec
      BY <2>4, DispatcherIsNoTask DEF Dispatch
    <3>2. b \in UserTasks => quantum' = QUANTUM_SIZE
      BY <2>4, UserIds DEF Dispatch, user_task
    <3>3. taskExec' # taskExec /\ (taskExec' \in UserTasks => quantum' <= QUANTUM_SIZE)
      BY <3>1, <3>2
    <3> HIDE DEF Goal
    <3> QED
      BY <2>2, <3>1, <3>3
  <2>5. ASSUME NEW t \in Tasks, TaskResume(t) \/ TaskCreate(t) PROVE Goal
    BY <2>3, <2>5 DEF TaskResume, TaskCreate
  <2>6. ASSUME NEW t \in Tasks, NEW p \in PrioArgs, TaskSetprio(t, p) PROVE Goal
    BY <2>3, <2>6 DEF TaskSetprio
  <2>7. CASE TaskYield \/ TaskSuspend \/ TaskExit
    <3>1. taskExec' = Dispatcher /\ taskExec \in Tasks /\ quantum' = quantum
      BY <2>7 DEF TaskYield, TaskSuspend, TaskExit, LeaveCPU
    <3> QED
      BY <2>2, <3>1, DispatcherIsNoTask
  <2>8. CASE CriticalBegin \/ CriticalEnd
    BY <2>3, <2>8 DEF CriticalBegin, CriticalEnd
  <2>9. CASE Tick
    <3>1. CASE Spent(quantum - 1) /\ preemption = 1
      <4>1. taskExec' = Dispatcher /\ taskExec \in Tasks /\ quantum' = quantum - 1
        BY <2>9, <3>1 DEF Tick, LeaveCPU
      <4> QED
        BY <2>2, <4>1, DispatcherIsNoTask
    <3>2. CASE ~(Spent(quantum - 1) /\ preemption = 1)
      <4>1. taskExec' = taskExec /\ quantum' = quantum - 1
        BY <2>9, <3>2 DEF Tick
      <4>2. CASE preemption = 1
        BY <2>1, <2>9, <3>2, <4>1, <4>2 DEF Spent, Tick
      <4>3. CASE preemption # 1
        BY <2>1, <2>9, <4>1, <4>3 DEF Tick
      <4> QED
        BY <4>2, <4>3
    <3> QED
      BY <3>1, <3>2
  <2> QED
    BY <1>2, <2>4, <2>5, <2>6, <2>7, <2>8, <2>9 DEF ONext, Next
<1> QED
  BY <1>1, <1>2

LEMMA ONextInv == OInv /\ [ONext]_ovars => OInv'
<1> SUFFICES ASSUME OInv, [ONext]_ovars PROVE OInv'
  OBVIOUS
<1> USE DEF OInv
<1>1. [Next]_vars
  BY DEF ONext, ovars, vars
<1>2. SchedInv' /\ NewUntouched'
  BY <1>1, NextInv, NewUntouchedInv
<1>5. openTicks' \in Nat /\ TicksFromQuantum' /\ LosesCPUInTime'
  BY TicksInv
<1>3. CASE UNCHANGED ovars
  BY <1>2, <1>3, <1>5 DEF ovars, OTypeOK, CatchingUp, BoundedOvertaking
<1>4. CASE ONext
  <2>1. \A t \in Tasks, c \in UserTasks : overtaken'[t][c] = Count(t, c)
    BY <1>4 DEF ONext, Observe
  <2>2. \A t \in Tasks, c \in UserTasks : Count(t, c) \in Nat
    BY DEF Count, OTypeOK
  <2>3. OTypeOK'
    BY <1>4, <1>5, <2>2 DEF ONext, Observe, OTypeOK
  <2>4. ASSUME NEW t \in Tasks, NEW c \in UserTasks
        PROVE  /\ overtaken'[t][c] >= 1 =>
                     \/ prio_dynamic'[t] = PRIORITY_MAX
                     \/ overtaken'[t][c] <= prio_static'[t] - prio_static'[c]
                                            + prio_dynamic'[c] - prio_dynamic'[t]
               /\ \/ overtaken'[t][c] <= 1
                  \/ overtaken'[t][c] <= prio_static'[t] - prio_static'[c] + 1
    <3>0. /\ c \in Tasks /\ PRIORITY_MAX \in Int /\ overtaken[t][c] \in Nat
          /\ \A u \in Tasks : /\ prio_dynamic[u] \in Int /\ prio_static[u] \in Int
                               /\ prio_dynamic'[u] \in Int /\ prio_static'[u] \in Int
          /\ \A u \in Tasks : /\ prio_dynamic[u] <= prio_static[u]
                               /\ prio_dynamic'[u] <= prio_static'[u]
                               /\ prio_dynamic[u] >= PRIORITY_MAX
                               /\ prio_dynamic'[u] >= PRIORITY_MAX
      <4>1. overtaken[t][c] \in Nat
        BY DEF OTypeOK
      <4> QED
        BY <1>2, <4>1, PriorityScale DEF SchedInv, TypeOK, AgingOnlyHelps
    <3>1. CASE ~(KeepsWaiting(t) /\ SamePrio(t) /\ prio_static'[c] = prio_static[c])
      <4>1. overtaken'[t][c] = 0
        BY <2>1, <3>1 DEF Count
      <4> QED
        BY <4>1
    <3>2. CASE KeepsWaiting(t) /\ SamePrio(t) /\ prio_static'[c] = prio_static[c]
      <4>1. prio_static'[t] = prio_static[t]
        BY <3>2 DEF SamePrio
      <4>2. \/ overtaken[t][c] = 0
            \/ prio_dynamic[t] = PRIORITY_MAX
            \/ overtaken[t][c] <= prio_static[t] - prio_static[c]
                                  + prio_dynamic[c] - prio_dynamic[t]
        BY <3>0 DEF CatchingUp
      <4>3. CASE Chosen(c)
        <5>1. overtaken'[t][c] = overtaken[t][c] + 1
          BY <2>1, <3>2, <4>3 DEF Count
        <5>2. /\ prio_dynamic[c] <= prio_dynamic[t]
              /\ prio_dynamic'[c] = prio_static[c]
              /\ \/ prio_dynamic'[t] = PRIORITY_MAX
                 \/ prio_dynamic'[t] = prio_dynamic[t] - 1
          BY <1>1, <3>2, <4>3, PairStep
        <5>3. prio_dynamic[t] > PRIORITY_MAX
          BY <3>0, <4>3, <5>2 DEF Chosen
        <5> QED
          BY <3>0, <3>2, <4>1, <4>2, <5>1, <5>2, <5>3
      <4>4. CASE ~Chosen(c)
        <5>1. overtaken'[t][c] = overtaken[t][c]
          BY <2>1, <3>2, <4>4 DEF Count
        <5>2. \/ prio_dynamic'[t] = PRIORITY_MAX
              \/ prio_dynamic'[t] - prio_dynamic'[c]
                    <= prio_dynamic[t] - prio_dynamic[c]
          BY <1>1, <3>2, <4>4, PairStep
        <5>3. \/ overtaken[t][c] <= 1
              \/ overtaken[t][c] <= prio_static[t] - prio_static[c] + 1
          BY DEF BoundedOvertaking
        <5>4. prio_dynamic'[t] <= prio_dynamic[t]
          BY <3>2 DEF SamePrio
        <5>5. \/ overtaken'[t][c] = 0
              \/ prio_dynamic'[t] = PRIORITY_MAX
              \/ overtaken'[t][c] <= prio_static'[t] - prio_static'[c]
                                     + prio_dynamic'[c] - prio_dynamic'[t]
          BY <3>0, <3>2, <4>1, <4>2, <5>1, <5>2, <5>4
        <5> HIDE DEF OInv
        <5> QED
          BY <3>0, <3>2, <4>1, <5>1, <5>3, <5>5
      <4> QED
        BY <4>3, <4>4
    <3> QED
      BY <3>1, <3>2
  <2> QED
    BY <1>2, <1>5, <2>3, <2>4 DEF CatchingUp, BoundedOvertaking
<1> QED
  BY <1>3, <1>4

\* Bounded overtaking for any number of tasks and any scale of priorities: aging
\* and reset let no task that is not itself aged to PRIORITY_MAX pass a waiting one
\* more often than their static priorities justify.
THEOREM OvertakingBounded == OSpec => []BoundedOvertaking
  BY OInitInv, ONextInv, PTL DEF OSpec, OInv

\* For any quantum, and however often operations turn the flag off and overrun
\* it: the timer takes a user task off the CPU before it has met QUANTUM_SIZE
\* ticks with the flag on.
THEOREM TimerTakesCPU == OSpec => []LosesCPUInTime
  BY OInitInv, ONextInv, PTL DEF OSpec, OInv
=============================================================================
