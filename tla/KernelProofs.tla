----------------------------- MODULE KernelProofs -----------------------------
(***************************************************************************)
(* The safety properties of Kernel, for every program, every number of     *)
(* threads, semaphores and queues.  Where a proof needs that no quantum    *)
(* ends at some step, its theorem says so as a condition on Quiet.         *)
(***************************************************************************)
EXTENDS Kernel, TLAPS, FiniteSetTheorems

\* The operand of an instruction fits its operation.
LEMMA Operands ==
    ASSUME CpuOK, NEW t \in Threads, pc[t].at \in DOMAIN prog.script[t]
    PROVE  /\ Op(t) \in {"create", "join"} => Arg(t) \in Tasks
           /\ Op(t) \in {"sem_create", "down", "up", "sem_destroy"} => Arg(t) \in Semaphores
           /\ Op(t) = "barrier_join" => Arg(t) \in Barriers
           /\ Op(t) \in {"open", "close", "test"} => Arg(t) \in Mqueues
           /\ Op(t) \in {"load", "store"} => Arg(t) \in Cells
           /\ Num(t) \in Int
           /\ Op(t) \in {"sem_create", "down", "test", "goto", "again"} => Num(t) \in Nat
<1>1. prog.script[t] \in Seq(Instr)
  BY ProgramShape DEF CpuOK
<1>2. Ins(t) \in Instr
  BY <1>1 DEF Ins
<1>. QED
  BY <1>2 DEF Instr, Op, Arg, Num

\* A step keeps the types of the CPU's variables.
LEMMA TaskCpu ==
    ASSUME CpuOK, NEW t \in Threads, Task(t) PROVE CpuOK'
<1> USE ThreadsDiffer DEF Stay, ToDispatcher, Flags
<1>1. ASSUME NEW f \in Flags, Stay(f) PROVE CpuOK'
  BY <1>1 DEF CpuOK
<1>2. ASSUME ToDispatcher PROVE CpuOK'
  BY <1>2 DEF CpuOK
<1>3. preemption \in Flags BY DEF CpuOK
<1>4. CASE Create(t) BY <1>4, <1>1 DEF Create
<1>5. CASE Join(t) BY <1>5, <1>1 DEF Join, SuspendOn
<1>6. CASE Yield(t) \/ SwitchOut(t) \/ ExitSwitch(t)
  BY <1>6, <1>2 DEF Yield, SwitchOut, ExitSwitch
<1>7. CASE Sleep(t) BY <1>7, <1>1, <1>3 DEF Sleep
<1>8. CASE \/ Return(t) \/ SemCreate(t) \/ DownTest(t) \/ Up(t) \/ Destroy(t)
           \/ DestroyLoop(t) \/ MqueueFlag(t) \/ Compute(t) \/ Exit(t) \/ Exiting(t)
           \/ ExitDrain(t) \/ BarrierRelease(t)
  BY <1>8, <1>1, <1>3 DEF Return, SemCreate, DownTest, Up, Destroy, DestroyLoop,
                          MqueueFlag, Compute, Exit, Exiting, ExitDrain, BarrierRelease
<1>9. CASE DownRegion(t) \/ BarrierArrive(t)
  BY <1>9, <1>1 DEF DownRegion, BarrierArrive, SuspendOn
<1>10. CASE Halt(t) BY <1>10 DEF Halt, CpuOK
<1> QED BY <1>4, <1>5, <1>6, <1>7, <1>8, <1>9, <1>10 DEF Task

\* Only the thread on the CPU takes a step, within its script, and no script changes.
LEMMA Running ==
    ASSUME NEW t \in Threads, Task(t)
    PROVE  taskExec = t /\ ~halted /\ pc[t].at \in DOMAIN prog.script[t]
           /\ prog' = prog
<1>1. CASE Create(t) \/ Join(t) \/ DownRegion(t) \/ BarrierArrive(t) \/ Sleep(t)
  BY <1>1 DEF Create, Join, DownRegion, BarrierArrive, Sleep, At, Stay, SuspendOn
<1>2. CASE Yield(t) \/ SwitchOut(t) \/ ExitSwitch(t)
  BY <1>2 DEF Yield, SwitchOut, ExitSwitch, At, ToDispatcher
<1>3. CASE Return(t) \/ SemCreate(t) \/ DownTest(t) \/ Up(t) \/ Destroy(t) \/ DestroyLoop(t)
           \/ MqueueFlag(t) \/ BarrierRelease(t) \/ Compute(t)
  BY <1>3 DEF Return, SemCreate, DownTest, Up, Destroy, DestroyLoop, MqueueFlag, BarrierRelease,
              Compute, At, Stay
<1>4. CASE Exit(t) \/ Exiting(t) \/ ExitDrain(t) \/ Halt(t)
  BY <1>4 DEF Exit, Exiting, ExitDrain, Halt, At, Stay
<1>. QED
  BY <1>1, <1>2, <1>3, <1>4 DEF Task

\* The operation a thread is in, if it is at a step inside one.
Fit == ({"down"} \X {"region"})
  \cup ({"join", "sleep", "nap", "down", "barrier_join"} \X {"yield", "back"})
  \cup ({"sem_destroy"} \X {"freeing"}) \cup ({"barrier_join"} \X {"release"})
  \cup ({"exit"} \X {"exiting", "drain", "gone"})

\* A step moves the thread that takes it, by one instruction's steps, and no other.
LEMMA Moved ==
    ASSUME PcOK, CpuOK, NEW t \in Threads, Task(t)
    PROVE  /\ PcOK'
           /\ \A u \in Threads \ {t} : pc'[u] = pc[u]
           /\ \/ pc'[t] = pc[t]
              \/ pc'[t].step = "start"
              \/ pc'[t].at = pc[t].at /\ <<Op(t), pc'[t].step>> \in Fit
<1>1. ASSUME NEW n \in Nat, NEW s \in Steps, MoveTo(t, n, s)
      PROVE  PcOK' /\ (\A u \in Threads \ {t} : pc'[u] = pc[u])
             /\ pc'[t].at = n /\ pc'[t].step = s
  BY <1>1 DEF PcOK, MoveTo
<1>2. ASSUME Next1(t) PROVE PcOK' /\ (\A u \in Threads \ {t} : pc'[u] = pc[u])
                          /\ pc'[t].step = "start"
  <2>1. pc[t].at + 1 \in Nat /\ "start" \in Steps
    BY DEF PcOK, Steps
  <2>. QED
    BY <1>1, <1>2, <2>1 DEF Next1, Goto
<1>3. ASSUME NEW n \in Nat, Goto(t, n)
      PROVE  PcOK' /\ (\A u \in Threads \ {t} : pc'[u] = pc[u]) /\ pc'[t].step = "start"
  BY <1>1, <1>3 DEF Goto, Steps
<1>4. ASSUME NEW s \in Steps, Step(t, s)
      PROVE  PcOK' /\ (\A u \in Threads \ {t} : pc'[u] = pc[u])
             /\ pc'[t].at = pc[t].at /\ pc'[t].step = s
  <2>1. pc[t].at \in Nat
    BY DEF PcOK
  <2>. QED
    BY <1>1, <1>4, <2>1 DEF Step
<1>5. ASSUME UNCHANGED pc PROVE PcOK' /\ (\A u \in Threads : pc'[u] = pc[u])
  BY <1>5 DEF PcOK
<1>6. pc[t].at + 1 \in Nat /\ (Op(t) \in {"down", "test", "goto", "again"} => Num(t) \in Nat)
  BY Running, Operands DEF PcOK
<1>7. \A s \in {"region", "yield", "back", "freeing", "release", "exiting", "drain", "gone"} :
        s \in Steps
  BY DEF Steps
<1>8. CASE Create(t) \/ SemCreate(t) \/ Yield(t) \/ Up(t)
  BY <1>8, <1>2 DEF Create, SemCreate, Yield, Up
<1>9. CASE Join(t) \/ DownRegion(t) \/ BarrierArrive(t)
  BY <1>9, <1>2, <1>4, <1>7 DEF Join, DownRegion, BarrierArrive, SuspendOn, At, Fit
<1>10. CASE Sleep(t)
  BY <1>10, <1>2, <1>4, <1>7 DEF Sleep, At, Fit
<1>11. CASE SwitchOut(t)
  BY <1>11, <1>4, <1>7 DEF SwitchOut, At, Fit
<1>12. CASE Return(t)
  BY <1>12, <1>3, <1>6 DEF Return, At
<1>13. CASE DownTest(t)
  BY <1>13, <1>3, <1>4, <1>6, <1>7 DEF DownTest, At, Fit
<1>14. CASE Destroy(t) \/ DestroyLoop(t) \/ BarrierRelease(t)
  BY <1>14, <1>2, <1>4, <1>5, <1>7 DEF Destroy, DestroyLoop, BarrierRelease, At, Fit
<1>15. CASE MqueueFlag(t) \/ Compute(t)
  BY <1>15, <1>2, <1>3, <1>6 DEF MqueueFlag, Compute, At
<1>16. CASE Exit(t) \/ Exiting(t) \/ ExitDrain(t) \/ ExitSwitch(t) \/ Halt(t)
  BY <1>16, <1>4, <1>5, <1>7 DEF Exit, Exiting, ExitDrain, ExitSwitch, Halt, At, Fit
<1>. QED
  BY <1>8, <1>9, <1>10, <1>11, <1>12, <1>13, <1>14, <1>15, <1>16 DEF Task

\* What a step of t may do to the state of the threads and to the queues.
Unmoved == UNCHANGED tasks
Calm(t) == Unmoved /\ UNCHANGED taskExec /\ pc[t].step \notin {"yield", "drain"}
Suspended(t, q) ==
    /\ state' = [state EXCEPT ![t] = "s"]
    /\ queue' = [queue EXCEPT ![q] = Append(@, t)]
    /\ pc'[t] = [at |-> pc[t].at, step |-> "yield"]
    /\ Op(t) \in {"join", "down", "barrier_join"} /\ Arg(t) = q
    /\ pc[t].step \in {"start", "region"}
    /\ UNCHANGED <<readyQueue, sleepQueue>>
Slept(t) ==
    /\ state' = [state EXCEPT ![t] = "s"] /\ sleepQueue' = sleepQueue \cup {t}
    /\ pc'[t] = [at |-> pc[t].at, step |-> "yield"]
    /\ Op(t) \in {"sleep", "nap"} /\ pc[t].step = "start"
    /\ UNCHANGED <<readyQueue, queue>>
Left(t) ==
    /\ Requeue(t) /\ taskExec' = Disp /\ UNCHANGED <<sleepQueue, queue>>
    /\ pc[t].step \in {"start", "yield"}
Resumed(t, q) ==
    /\ ResumeHead(q) /\ pc[t].step # "yield" /\ (pc[t].step = "drain" => UNCHANGED pc)
    /\ q \in Threads => q = t /\ Op(t) = "exit" /\ pc[t].step = "drain"
Created(u) ==
    /\ state' = [state EXCEPT ![u] = "r"] /\ readyQueue' = readyQueue \cup {u}
    /\ queue' = [queue EXCEPT ![u] = <<>>] /\ UNCHANGED sleepQueue
Cleared(t, q) ==
    /\ queue' = [queue EXCEPT ![q] = <<>>] /\ UNCHANGED <<state, readyQueue, sleepQueue>>
    /\ Op(t) = "sem_create" /\ pc[t].step = "start" /\ Arg(t) = q
Exited(t) ==
    /\ state' = [state EXCEPT ![t] = "x"] /\ UNCHANGED <<readyQueue, sleepQueue, queue>>
    /\ Op(t) = "exit" /\ pc[t].step = "exiting"
    /\ pc'[t] = [at |-> pc[t].at, step |-> "drain"]

\* Every step has one of nine effects on the states and the queues.
LEMMA Effects ==
    ASSUME TypeOK, NEW t \in Threads, Task(t)
    PROVE  \/ Calm(t)
           \/ \E q \in Queues : Suspended(t, q) /\ UNCHANGED taskExec
           \/ Slept(t) /\ UNCHANGED taskExec
           \/ Left(t)
           \/ \E q \in Queues : Resumed(t, q) /\ UNCHANGED taskExec
           \/ \E u \in Tasks : /\ Created(u) /\ UNCHANGED taskExec
                               /\ pc[t].step = "start" /\ Ins(t) = <<"create", u, 0>>
                               /\ pc'[t].at = pc[t].at + 1
           \/ \E q \in Semaphores : Cleared(t, q) /\ UNCHANGED taskExec
           \/ Exited(t) /\ UNCHANGED taskExec
           \/ Unmoved /\ taskExec' = Disp /\ Op(t) = "exit" /\ pc[t].step = "drain"
<1> DEFINE Goal ==
           \/ Calm(t)
           \/ \E q \in Queues : Suspended(t, q) /\ UNCHANGED taskExec
           \/ Slept(t) /\ UNCHANGED taskExec
           \/ Left(t)
           \/ \E q \in Queues : Resumed(t, q) /\ UNCHANGED taskExec
           \/ \E u \in Tasks : /\ Created(u) /\ UNCHANGED taskExec
                               /\ pc[t].step = "start" /\ Ins(t) = <<"create", u, 0>>
                               /\ pc'[t].at = pc[t].at + 1
           \/ \E q \in Semaphores : Cleared(t, q) /\ UNCHANGED taskExec
           \/ Exited(t) /\ UNCHANGED taskExec
           \/ Unmoved /\ taskExec' = Disp /\ Op(t) = "exit" /\ pc[t].step = "drain"
<1>0. pc[t].at \in DOMAIN prog.script[t] /\ CpuOK /\ PcOK /\ TasksOK
  BY Running DEF TypeOK
<1>1. ASSUME NEW s, Step(t, s) PROVE pc'[t] = [at |-> pc[t].at, step |-> s]
  BY <1>0, <1>1 DEF Step, MoveTo, PcOK
<1>2. CASE Create(t)
  <2>1. Arg(t) \in Tasks /\ Ins(t) \in Instr /\ Op(t) = "create" /\ pc[t].step = "start"
    <3>1. prog.script[t] \in Seq(Instr)
      BY <1>0, ProgramShape DEF CpuOK
    <3>. QED
      BY <1>0, <1>2, <3>1, Operands DEF Create, At, Ins
  <2>2. Ins(t) = <<"create", Arg(t), 0>>
    BY <2>1 DEF Op, Arg, Instr
  <2>3. pc'[t].at = pc[t].at + 1
    BY <1>2, <1>0 DEF Create, Next1, Goto, MoveTo, PcOK
  <2>. QED
    BY <1>2, <2>1, <2>2, <2>3 DEF Create, Stay, Created
<1>3. ASSUME NEW q \in Queues, SuspendOn(t, q), pc[t].step \in {"start", "region"},
             Op(t) \in {"join", "down", "barrier_join"}, Arg(t) = q
      PROVE  Suspended(t, q) /\ UNCHANGED taskExec
  <2>1. pc'[t] = [at |-> pc[t].at, step |-> "yield"]
    BY <1>3, <1>1 DEF SuspendOn
  <2>. QED
    BY <1>3, <2>1 DEF SuspendOn, Suspended, Stay
<1>4. CASE Join(t) \/ DownRegion(t) \/ BarrierArrive(t)
  <2>1. Arg(t) \in Queues /\ Op(t) \in {"join", "down", "barrier_join"}
        /\ pc[t].step \in {"start", "region"}
    BY <1>4, <1>0, Operands DEF Join, DownRegion, BarrierArrive, At, Queues, Threads
  <2>2. SuspendOn(t, Arg(t)) \/ (UNCHANGED tasks /\ UNCHANGED taskExec)
    BY <1>4 DEF Join, DownRegion, BarrierArrive, Stay
  <2>. QED
    BY <1>3, <2>1, <2>2 DEF Unmoved, Calm
<1>5. CASE Sleep(t)
  <2>1. Op(t) \in {"sleep", "nap"} /\ pc[t].step = "start" /\ UNCHANGED <<taskExec, readyQueue, queue>>
    BY <1>5 DEF Sleep, At, Stay
  <2>2. \/ UNCHANGED <<state, sleepQueue>>
        \/ /\ state' = [state EXCEPT ![t] = "s"] /\ sleepQueue' = sleepQueue \cup {t}
           /\ Step(t, "yield")
    BY <1>5 DEF Sleep
  <2>. QED
    <3>1. CASE Step(t, "yield")
      <4>1. pc'[t] = [at |-> pc[t].at, step |-> "yield"]
        BY <3>1, <1>1
      <4>. QED
        BY <2>1, <2>2, <4>1 DEF Slept, Unmoved, Calm, tasks
    <3>. QED
      BY <2>1, <2>2, <3>1 DEF Unmoved, Calm, tasks
<1>6. CASE Yield(t) \/ SwitchOut(t)
  BY <1>6 DEF Yield, SwitchOut, ToDispatcher, Left, At
<1>7. CASE Up(t) \/ DestroyLoop(t) \/ BarrierRelease(t)
  <2>1. Arg(t) \in Queues /\ Arg(t) \notin Threads
    BY <1>7, <1>0, Operands, QueuesDiffer DEF Up, DestroyLoop, BarrierRelease, At, Queues
  <2>2. ResumeHead(Arg(t)) \/ UNCHANGED tasks
    BY <1>7 DEF Up, DestroyLoop, BarrierRelease
  <2>3. UNCHANGED taskExec /\ pc[t].step \notin {"yield", "drain"}
    BY <1>7 DEF Up, DestroyLoop, BarrierRelease, Stay, At
  <2>. QED
    BY <2>1, <2>2, <2>3 DEF Resumed, Unmoved, Calm
<1>8. CASE ExitDrain(t)
  BY <1>8 DEF ExitDrain, Stay, At, Resumed, Queues
<1>9. CASE SemCreate(t)
  BY <1>9, <1>0, Operands DEF SemCreate, Stay, At, Cleared
<1>10. CASE Exiting(t)
  <2>1. pc'[t] = [at |-> pc[t].at, step |-> "drain"]
    BY <1>10, <1>1 DEF Exiting
  <2>. QED
    BY <1>10, <2>1 DEF Exiting, Stay, At, Exited
<1>11. CASE Return(t) \/ DownTest(t) \/ Destroy(t) \/ MqueueFlag(t) \/ Exit(t) \/ Compute(t)
  BY <1>11 DEF Return, DownTest, Destroy, MqueueFlag, Exit, Compute, Stay, At, Unmoved, Calm
<1>12. CASE Halt(t)
  BY <1>12 DEF Halt, At, Unmoved, Calm
<1>13. CASE ExitSwitch(t)
  BY <1>13 DEF ExitSwitch, Unmoved, Calm, ToDispatcher, At
<1>14. Goal
  BY <1>2, <1>3, <1>4, <1>5, <1>6, <1>7, <1>8, <1>9, <1>10, <1>11, <1>12, <1>13 DEF Task
<1>. QED
  BY <1>14

\* A step keeps the types of states and queues.
LEMMA TasksTyped == ASSUME TypeOK, NEW t \in Threads, Task(t) PROVE TasksOK'
<1>0. TasksOK
  BY DEF TypeOK
<1>. <<>> \in Seq(Threads)
  OBVIOUS
<1>1. ASSUME NEW q \in Queues, Suspended(t, q) PROVE TasksOK'
  BY <1>0, <1>1 DEF TasksOK, Suspended
<1>2. ASSUME NEW q \in Queues, Resumed(t, q) PROVE TasksOK'
  <2>1. queue[q] \in Seq(Threads) /\ queue[q] # <<>>
    BY <1>0, <1>2 DEF TasksOK, Resumed, ResumeHead
  <2>2. Head(queue[q]) \in Threads /\ Tail(queue[q]) \in Seq(Threads)
    BY <2>1
  <2>. QED
    BY <1>0, <1>2, <2>2 DEF TasksOK, Resumed, ResumeHead
<1>3. ASSUME NEW u \in Tasks, Created(u) PROVE TasksOK'
  <2>1. queue' \in [Queues -> Seq(Threads)]
    <3>1. \A q \in Queues : queue'[q] = queue[q] \/ queue'[q] = <<>>
      BY <1>0, <1>3 DEF TasksOK, Created
    <3>2. \A q \in Queues : queue'[q] \in Seq(Threads)
      BY <1>0, <3>1 DEF TasksOK
    <3>. QED
      BY <1>0, <1>3, <3>2 DEF TasksOK, Created
  <2>. QED
    BY <1>0, <1>3, <2>1 DEF TasksOK, Created, Threads
<1>4. ASSUME NEW q \in Semaphores, Cleared(t, q) PROVE TasksOK'
  <2>1. \A r \in Queues : queue'[r] = queue[r] \/ queue'[r] = <<>>
    BY <1>0, <1>4 DEF TasksOK, Cleared
  <2>2. \A r \in Queues : queue'[r] \in Seq(Threads)
    BY <1>0, <2>1 DEF TasksOK
  <2>. QED
    BY <1>0, <1>4, <2>2 DEF TasksOK, Cleared
<1>5. ASSUME Unmoved PROVE TasksOK'
  BY <1>0, <1>5 DEF TasksOK, Unmoved, tasks
<1>6. ASSUME Slept(t) PROVE TasksOK'
  BY <1>0, <1>6 DEF TasksOK, Slept
<1>7. ASSUME Left(t) PROVE TasksOK'
  BY <1>0, <1>7 DEF TasksOK, Left, Requeue
<1>8. ASSUME Exited(t) PROVE TasksOK'
  BY <1>0, <1>8 DEF TasksOK, Exited
<1>9. \/ Unmoved \/ Slept(t) \/ Left(t) \/ Exited(t)
      \/ \E q \in Queues : Suspended(t, q) \/ Resumed(t, q)
      \/ \E u \in Tasks : Created(u)
      \/ \E q \in Semaphores : Cleared(t, q)
  BY Effects DEF Calm
<1>. QED
  BY <1>1, <1>2, <1>3, <1>4, <1>5, <1>6, <1>7, <1>8, <1>9

\* A step keeps the types of semaphores, life and data.
LEMMA RestTyped == ASSUME TypeOK, NEW t \in Threads, Task(t) PROVE SyncOK' /\ LifeOK' /\ DataOK'
<1>0. CpuOK /\ SyncOK /\ LifeOK /\ DataOK /\ pc[t].at \in DOMAIN prog.script[t] /\ taskExec = t
  BY Running DEF TypeOK
<1>1. SyncOK'
  <2>1. CASE UNCHANGED sync
    BY <1>0, <2>1 DEF SyncOK, sync
  <2>2. CASE SemCreate(t) \/ DownRegion(t) \/ Up(t) \/ Destroy(t) \/ MqueueFlag(t)
             \/ BarrierArrive(t) \/ BarrierRelease(t)
    <3>1. /\ Op(t) \in {"sem_create", "down", "up", "sem_destroy"} => Arg(t) \in Semaphores
          /\ Op(t) = "barrier_join" => Arg(t) \in Barriers
          /\ Op(t) \in {"open", "close", "test"} => Arg(t) \in Mqueues
          /\ Num(t) \in Int
      BY <1>0, Operands
    <3>2. CASE SemCreate(t)
      BY <1>0, <3>1, <3>2 DEF SyncOK, SemCreate, At
    <3>3. CASE DownRegion(t)
      BY <1>0, <3>1, <3>3 DEF SyncOK, DownRegion, At
    <3>4. CASE Up(t)
      BY <1>0, <3>1, <3>4 DEF SyncOK, Up, At
    <3>5. CASE Destroy(t)
      BY <1>0, <3>1, <3>5 DEF SyncOK, Destroy, At
    <3>6. CASE MqueueFlag(t)
      BY <1>0, <3>1, <3>6 DEF SyncOK, MqueueFlag, At
    <3>7. CASE BarrierArrive(t)
      BY <1>0, <3>1, <3>7 DEF SyncOK, BarrierArrive, At
    <3>8. CASE BarrierRelease(t)
      BY <1>0, <3>1, <3>8 DEF SyncOK, BarrierRelease, At
    <3>. QED
      BY <2>2, <3>2, <3>3, <3>4, <3>5, <3>6, <3>7, <3>8
  <2>. QED
    BY <2>1, <2>2 DEF Task, Create, Yield, Join, Sleep, SwitchOut, Return, DownTest,
       DestroyLoop, Exit, Exiting, ExitDrain, ExitSwitch, Halt, Compute
<1>2. LifeOK'
  <2>1. CASE UNCHANGED life
    BY <1>0, <2>1 DEF LifeOK, life
  <2>2. CASE Create(t) \/ Exit(t)
    BY <1>0, <2>2 DEF LifeOK, Create, Exit
  <2>3. CASE Yield(t) \/ SwitchOut(t) \/ ExitSwitch(t)
    BY <1>0, <2>3 DEF LifeOK, Yield, SwitchOut, ExitSwitch, ToDispatcher
  <2>. QED
    BY <2>1, <2>2, <2>3 DEF Task, Join, Sleep, Return, SemCreate, DownTest, DownRegion, Up,
       Destroy, DestroyLoop, BarrierArrive, BarrierRelease, MqueueFlag, Exiting, ExitDrain,
       Halt, Compute
<1>3. DataOK'
  <2>1. CASE UNCHANGED data
    BY <1>0, <2>1 DEF DataOK, data
  <2>2. CASE Compute(t)
    <3>1. Num(t) \in Int /\ (Op(t) \in {"load", "store"} => Arg(t) \in Cells)
      BY <1>0, Operands
    <3>. QED
      BY <1>0, <2>2, <3>1 DEF DataOK, Compute, At
  <2>. QED
    BY <2>1, <2>2 DEF Task, Create, Yield, Join, Sleep, SwitchOut, Return, SemCreate, DownTest,
       DownRegion, Up, Destroy, DestroyLoop, BarrierArrive, BarrierRelease, MqueueFlag,
       Exit, Exiting, ExitDrain, ExitSwitch, Halt
<1>. QED
  BY <1>1, <1>2, <1>3

\* TypeOK is inductive.
LEMMA TypesInductive == TypeOK /\ [Next]_vars => TypeOK'
<1> SUFFICES ASSUME TypeOK, [Next]_vars PROVE TypeOK'
  OBVIOUS
<1>1. ASSUME NEW t \in Threads, Task(t) PROVE TypeOK'
  BY <1>1, TaskCpu, Moved, TasksTyped, RestTyped DEF TypeOK
<1>2. ASSUME NEW t \in Threads, Dispatch(t) PROVE TypeOK'
  BY <1>2 DEF TypeOK, CpuOK, TasksOK, SyncOK, LifeOK, PcOK, DataOK, Dispatch, Flags, sync, life, data
<1>3. ASSUME NEW t \in Threads, Wake(t) PROVE TypeOK'
  BY <1>3 DEF TypeOK, CpuOK, TasksOK, SyncOK, LifeOK, PcOK, DataOK, Wake, cpu, sync, life, data
<1>4. ASSUME NEW t \in Tasks, Preempt(t) PROVE TypeOK'
  <2>1. t \in Threads
    BY DEF Threads
  <2>2. CpuOK' /\ LifeOK'
    BY <1>4, <2>1 DEF TypeOK, CpuOK, LifeOK, Preempt, ToDispatcher, Flags
  <2>3. TasksOK' /\ SyncOK' /\ PcOK' /\ DataOK'
    BY <1>4, <2>1 DEF TypeOK, TasksOK, SyncOK, PcOK, DataOK, Preempt, Requeue, sync, data
  <2>. QED
    BY <2>2, <2>3 DEF TypeOK
<1>5. CASE Finish \/ Ended \/ UNCHANGED vars
  BY <1>5 DEF TypeOK, CpuOK, TasksOK, SyncOK, LifeOK, PcOK, DataOK, Finish, Ended,
     vars, cpu, tasks, sync, life, data
<1>. QED
  BY <1>1, <1>2, <1>3, <1>4, <1>5 DEF Next

-----------------------------------------------------------------------------
\* A step inside an operation belongs to that operation.
StepsFit == \A t \in Threads : pc[t].step # "start" =>
    pc[t].at \in DOMAIN prog.script[t] /\ <<Op(t), pc[t].step>> \in Fit

\* What the thread on the CPU can be marked as.
OnCpu == \A t \in Threads : taskExec = t =>
    /\ state[t] \in {"e", "s", "x"}
    /\ state[t] = "s" => pc[t].step = "yield"
    /\ state[t] = "x" => pc[t].step = "drain"

\* What main has still to create is new.
NotYet == \A i \in DOMAIN prog.script[Main] :
    i >= pc[Main].at /\ prog.script[Main][i][1] = "create"
      => state[prog.script[Main][i][2]] = "n"

PlacesInv == TypeOK /\ StepsFit /\ OnCpu /\ NotYet /\ OnePlaceEach

\* A thread that stays at its instruction stays in its operation.
LEMMA SameOps ==
    ASSUME NEW u \in Threads, prog' = prog, pc'[u].at = pc[u].at
    PROVE  Ins(u)' = Ins(u) /\ Op(u)' = Op(u) /\ Arg(u)' = Arg(u) /\ Num(u)' = Num(u)
BY DEF Ins, Op, Arg, Num

\* A step keeps the steps within their operations.
LEMMA FitTask == ASSUME TypeOK, StepsFit, NEW t \in Threads, Task(t) PROVE StepsFit'
<1>1. prog' = prog /\ taskExec = t /\ pc[t].at \in DOMAIN prog.script[t]
  BY Running
<1>2. /\ \A u \in Threads \ {t} : pc'[u] = pc[u]
      /\ \/ pc'[t] = pc[t]
         \/ pc'[t].step = "start"
         \/ pc'[t].at = pc[t].at /\ <<Op(t), pc'[t].step>> \in Fit
  BY Moved DEF TypeOK
<1>3. SUFFICES ASSUME NEW u \in Threads, pc'[u].step # "start"
               PROVE  pc'[u].at \in DOMAIN prog'.script[u] /\ <<Op(u)', pc'[u].step>> \in Fit
  BY DEF StepsFit
<1>4. pc'[u].at = pc[u].at
  BY <1>2, <1>3
<1>5. Op(u)' = Op(u)
  BY <1>1, <1>4, SameOps
<1>. QED
  BY <1>1, <1>2, <1>3, <1>4, <1>5 DEF StepsFit

\* The head of a queue is a suspended thread.
LEMMA Heads ==
    ASSUME TypeOK, OnePlaceEach, NEW q \in Queues, queue[q] # <<>>
    PROVE  /\ Head(queue[q]) \in Threads /\ Head(queue[q]) = queue[q][1] /\ 1 \in DOMAIN queue[q]
           /\ state[Head(queue[q])] = "s"
<1>1. queue[q] \in Seq(Threads)
  BY DEF TypeOK, TasksOK
<1>2. Head(queue[q]) \in Threads /\ Head(queue[q]) = queue[q][1] /\ 1 \in DOMAIN queue[q]
  BY <1>1
<1>. QED
  BY <1>2 DEF OnePlaceEach

\* Only main creates, and what it creates is new.
LEMMA NewOne ==
    ASSUME TypeOK, NotYet, NEW t \in Threads, NEW u \in Tasks, Task(t),
           Ins(t) = <<"create", u, 0>>
    PROVE  t = Main /\ state[u] = "n"
<1>1. pc[t].at \in DOMAIN prog.script[t] /\ prog \in Programs
  BY Running DEF TypeOK, CpuOK
<1>2. prog.script[t][pc[t].at][1] = "create" /\ prog.script[t][pc[t].at][2] = u
  BY DEF Ins
<1>3. t = Main
  BY <1>1, <1>2, ProgramShape DEF Threads
<1>4. pc[t].at \in Nat
  BY DEF TypeOK, PcOK
<1>. QED
  BY <1>1, <1>2, <1>3, <1>4 DEF NotYet

\* A step keeps what the thread on the CPU is marked as.
LEMMA CpuTask == ASSUME PlacesInv, NEW t \in Threads, Task(t) PROVE OnCpu'
<1>0. TypeOK /\ OnCpu /\ OnePlaceEach /\ NotYet
  BY DEF PlacesInv
<1>1. taskExec = t /\ state \in [Threads -> {"n", "r", "e", "s", "x"}]
  BY <1>0, Running DEF TypeOK, TasksOK
<1>2. state[t] \in {"e", "s", "x"} /\ (state[t] = "s" => pc[t].step = "yield")
      /\ (state[t] = "x" => pc[t].step = "drain")
  BY <1>0, <1>1 DEF OnCpu
<1>3. ASSUME taskExec' = Disp PROVE OnCpu'
  BY <1>3, ThreadsDiffer DEF OnCpu
<1>4. ASSUME Calm(t) PROVE OnCpu'
  BY <1>1, <1>2, <1>4 DEF OnCpu, Calm, Unmoved, tasks
<1>5. ASSUME NEW q \in Queues, Suspended(t, q), UNCHANGED taskExec PROVE OnCpu'
  BY <1>1, <1>5 DEF OnCpu, Suspended
<1>6. ASSUME Slept(t), UNCHANGED taskExec PROVE OnCpu'
  BY <1>1, <1>6 DEF OnCpu, Slept
<1>7. ASSUME Exited(t), UNCHANGED taskExec PROVE OnCpu'
  BY <1>1, <1>7 DEF OnCpu, Exited
<1>8. ASSUME NEW q \in Queues, Resumed(t, q), UNCHANGED taskExec PROVE OnCpu'
  <2>1. Head(queue[q]) # t
    BY <1>0, <1>2, <1>8, Heads DEF Resumed, ResumeHead
  <2>2. state'[t] = state[t] /\ (pc[t].step = "drain" => pc'[t] = pc[t])
    BY <1>1, <1>8, <2>1 DEF Resumed, ResumeHead
  <2>. QED
    BY <1>1, <1>2, <1>8, <2>2 DEF OnCpu, Resumed
<1>9. ASSUME NEW u \in Tasks, Created(u), UNCHANGED taskExec, Ins(t) = <<"create", u, 0>>,
             pc[t].step = "start"
      PROVE  OnCpu'
  <2>1. u # t
    BY <1>0, <1>2, <1>9, NewOne
  <2>. QED
    BY <1>1, <1>2, <1>9, <2>1 DEF OnCpu, Created
<1>10. ASSUME NEW q \in Semaphores, Cleared(t, q), UNCHANGED taskExec PROVE OnCpu'
  BY <1>1, <1>2, <1>10 DEF OnCpu, Cleared
<1>11. \/ taskExec' = Disp \/ Calm(t)
       \/ \E q \in Queues : Suspended(t, q) /\ UNCHANGED taskExec
       \/ Slept(t) /\ UNCHANGED taskExec
       \/ \E q \in Queues : Resumed(t, q) /\ UNCHANGED taskExec
       \/ \E u \in Tasks : /\ Created(u) /\ UNCHANGED taskExec
                           /\ pc[t].step = "start" /\ Ins(t) = <<"create", u, 0>>
       \/ \E q \in Semaphores : Cleared(t, q) /\ UNCHANGED taskExec
       \/ Exited(t) /\ UNCHANGED taskExec
  BY <1>0, Effects DEF Left
<1>. QED
  BY <1>3, <1>4, <1>5, <1>6, <1>7, <1>8, <1>9, <1>10, <1>11

\* Main goes straight on.
LEMMA MainGoesOn ==
    ASSUME TypeOK, Task(Main) PROVE pc'[Main].at \in {pc[Main].at, pc[Main].at + 1}
<1>0. Main \in Threads /\ pc[Main].at \in DOMAIN prog.script[Main] /\ PcOK /\ CpuOK
  BY Running DEF Threads, TypeOK
<1>1. Op(Main) \notin {"down", "test", "goto", "again"}
  BY <1>0, ProgramShape DEF Op, Ins, CpuOK
<1>2. ASSUME NEW n, NEW s, MoveTo(Main, n, s) PROVE pc'[Main].at = n
  BY <1>0, <1>2 DEF MoveTo, PcOK
<1>3. ASSUME NEW s, Next1(Main) \/ Step(Main, s) \/ UNCHANGED pc
      PROVE  pc'[Main].at \in {pc[Main].at, pc[Main].at + 1}
  BY <1>2, <1>3 DEF Next1, Step, Goto
<1>4. CASE Return(Main)
  BY <1>1, <1>3, <1>4 DEF Return, At, Next1
<1>5. ~DownTest(Main) /\ ~DownRegion(Main)
  BY <1>1 DEF DownTest, DownRegion, At
<1>6. CASE Compute(Main) \/ MqueueFlag(Main)
  BY <1>1, <1>3, <1>6 DEF Compute, MqueueFlag, At
<1>7. CASE Create(Main) \/ Yield(Main) \/ Join(Main) \/ Sleep(Main) \/ SwitchOut(Main)
           \/ SemCreate(Main) \/ Up(Main) \/ Destroy(Main) \/ DestroyLoop(Main)
  BY <1>3, <1>7 DEF Create, Yield, Join, Sleep, SwitchOut, SemCreate, Up, Destroy, DestroyLoop,
     SuspendOn
<1>8. CASE BarrierArrive(Main) \/ BarrierRelease(Main) \/ Exit(Main) \/ Exiting(Main)
           \/ ExitDrain(Main) \/ ExitSwitch(Main) \/ Halt(Main)
  BY <1>3, <1>8 DEF BarrierArrive, BarrierRelease, Exit, Exiting, ExitDrain, ExitSwitch, Halt,
     SuspendOn
<1>. QED
  BY <1>4, <1>5, <1>6, <1>7, <1>8 DEF Task

\* A step leaves new what main has still to create.
LEMMA NotYetTask == ASSUME PlacesInv, NEW t \in Threads, Task(t) PROVE NotYet'
<1>0. TypeOK /\ OnCpu /\ OnePlaceEach /\ NotYet
  BY DEF PlacesInv
<1>1. taskExec = t /\ state \in [Threads -> {"n", "r", "e", "s", "x"}] /\ prog' = prog
      /\ prog \in Programs /\ Main \in Threads
  BY <1>0, Running DEF TypeOK, TasksOK, CpuOK, Threads
<1>2. SUFFICES ASSUME NEW i \in DOMAIN prog.script[Main], i >= pc'[Main].at,
                      prog.script[Main][i][1] = "create"
               PROVE  state'[prog.script[Main][i][2]] = "n"
  BY <1>1 DEF NotYet
<1> DEFINE u == prog.script[Main][i][2]
<1>3. prog.script[Main] \in Seq(Instr)
  BY <1>1, ProgramShape
<1>4. prog.script[Main][i] \in Instr /\ i \in Nat
  BY <1>3
<1>5. u \in Tasks /\ prog.script[Main][i] = <<"create", u, 0>>
  BY <1>2, <1>4 DEF Instr
<1>6. i >= pc[Main].at
  <2>1. pc'[Main].at \in {pc[Main].at, pc[Main].at + 1} /\ pc[Main].at \in Nat
    BY <1>0, <1>1, MainGoesOn, Moved DEF TypeOK, PcOK
  <2>. QED
    BY <1>2, <1>4, <2>1
<1>7. state[u] = "n" /\ u \in Threads
  BY <1>0, <1>2, <1>5, <1>6 DEF NotYet, Threads
<1>8. u # t
  BY <1>0, <1>1, <1>7 DEF OnCpu
<1>9. ASSUME Unmoved \/ Slept(t) \/ Left(t) \/ Exited(t) PROVE state'[u] = "n"
  BY <1>1, <1>7, <1>8, <1>9 DEF Unmoved, Slept, Left, Exited, Requeue, tasks
<1>10. ASSUME NEW q \in Queues, Suspended(t, q) PROVE state'[u] = "n"
  BY <1>1, <1>7, <1>8, <1>10 DEF Suspended
<1>11. ASSUME NEW q \in Queues, Resumed(t, q) PROVE state'[u] = "n"
  BY <1>0, <1>1, <1>7, <1>11, Heads DEF Resumed, ResumeHead
<1>12. ASSUME NEW v \in Tasks, Created(v), Ins(t) = <<"create", v, 0>>,
              pc'[t].at = pc[t].at + 1
       PROVE  state'[u] = "n"
  <2>1. t = Main
    BY <1>0, <1>12, NewOne
  <2>2. pc[t].at \in DOMAIN prog.script[Main] /\ pc[t].at \in Nat
    BY <1>0, <2>1, Running DEF TypeOK, PcOK
  <2>3. i # pc[t].at
    BY <1>2, <1>4, <1>12, <2>1, <2>2
  <2>4. u # v
    BY <1>1, <1>2, <1>5, <1>12, <2>1, <2>2, <2>3, ProgramShape DEF Ins
  <2>. QED
    BY <1>1, <1>7, <1>12, <2>4 DEF Created
<1>13. ASSUME NEW q \in Semaphores, Cleared(t, q) PROVE state'[u] = "n"
  BY <1>7, <1>13 DEF Cleared
<1>14. \/ Unmoved \/ Slept(t) \/ Left(t) \/ Exited(t)
       \/ \E q \in Queues : Suspended(t, q) \/ Resumed(t, q)
       \/ \E v \in Tasks : /\ Created(v) /\ Ins(t) = <<"create", v, 0>>
                           /\ pc'[t].at = pc[t].at + 1
       \/ \E q \in Semaphores : Cleared(t, q)
  BY <1>0, Effects DEF Calm
<1>. QED
  BY <1>9, <1>10, <1>11, <1>12, <1>13, <1>14

\* A thread that leaves the CPU is in one place afterwards.
LEMMA LeavingPlaces ==
    ASSUME TypeOK, OnCpu, OnePlaceEach, NEW t \in Threads, taskExec = t,
           Requeue(t), taskExec' = Disp, UNCHANGED <<sleepQueue, queue>>
    PROVE  OnePlaceEach'
<1>1. TasksOK /\ t # Disp
  BY ThreadsDiffer DEF TypeOK
<1>2. state[t] \in {"e", "s", "x"} /\ t \notin readyQueue /\ Disp \notin readyQueue
  BY <1>1, ThreadsDiffer DEF OnCpu, OnePlaceEach, TasksOK
<1>3. \A r \in Queues : \A i \in DOMAIN queue[r] : queue[r][i] \in Threads
  BY <1>1 DEF TasksOK
<1>4. CASE state[t] = "s"
  BY <1>2, <1>4 DEF OnePlaceEach, Requeue
<1>5. CASE state[t] # "s"
  <2>1. t \notin sleepQueue /\ \A r \in Queues : \A i \in DOMAIN queue[r] : queue[r][i] # t
    BY <1>5 DEF OnePlaceEach
  <2>2. \A u \in Threads : state'[u] = IF u = t THEN "r" ELSE state[u]
    BY <1>1, <1>5 DEF Requeue, TasksOK
  <2>. QED
    BY <1>1, <1>2, <1>3, <1>5, <2>1, <2>2 DEF OnePlaceEach, Requeue, TasksOK
<1>. QED
  BY <1>4, <1>5

\* A step puts no thread in two places.
LEMMA PlacesTask == ASSUME PlacesInv, NEW t \in Threads, Task(t) PROVE OnePlaceEach'
<1>0. TypeOK /\ OnCpu /\ OnePlaceEach /\ NotYet
  BY DEF PlacesInv
<1>1. taskExec = t /\ TasksOK /\ t # Disp
  BY <1>0, Running, ThreadsDiffer DEF TypeOK
<1>2. state[t] \in {"e", "s", "x"} /\ (state[t] = "s" => pc[t].step = "yield")
  BY <1>0, <1>1 DEF OnCpu
<1>3. \A q \in Queues : queue[q] \in Seq(Threads)
  BY <1>1 DEF TasksOK
<1>4. t \notin readyQueue /\ Disp \notin readyQueue /\ (state[t] # "s" => t \notin sleepQueue)
  BY <1>0, <1>1, ThreadsDiffer DEF OnePlaceEach, TasksOK
<1>5. ASSUME Unmoved, taskExec' \in {t, Disp} PROVE OnePlaceEach'
  BY <1>0, <1>4, <1>5 DEF OnePlaceEach, Unmoved, tasks
<1>6. ASSUME NEW q \in Queues, Suspended(t, q), UNCHANGED taskExec PROVE OnePlaceEach'
  <2>1. state[t] # "s" /\ (\A r \in Queues : \A i \in DOMAIN queue[r] : queue[r][i] # t)
    BY <1>0, <1>2, <1>6 DEF Suspended, OnePlaceEach
  <2>2. \A r \in Queues : \A i \in DOMAIN queue'[r] :
          \/ i \in DOMAIN queue[r] /\ queue'[r][i] = queue[r][i]
          \/ r = q /\ i = Len(queue[q]) + 1 /\ queue'[r][i] = t
    BY <1>1, <1>3, <1>6 DEF Suspended, TasksOK
  <2>3. \A u \in Threads \ {t} : state'[u] = state[u]
    BY <1>1, <1>6 DEF Suspended, TasksOK
  <2>4. state'[t] = "s"
    BY <1>1, <1>6 DEF Suspended, TasksOK
  <2>5. UNCHANGED <<readyQueue, sleepQueue>>
    BY <1>6 DEF Suspended
  <2>6. readyQueue \subseteq Threads /\ sleepQueue \subseteq Threads
        /\ \A r \in Queues : \A i \in DOMAIN queue[r] : queue[r][i] \in Threads
    BY <1>1, <1>3 DEF TasksOK
  <2>7. ASSUME NEW r \in Queues, NEW i \in DOMAIN queue'[r]
        PROVE  /\ state'[queue'[r][i]] = "s" /\ queue'[r][i] \notin sleepQueue'
               /\ \A p \in Queues : \A j \in DOMAIN queue'[p] :
                    queue'[p][j] = queue'[r][i] => (p = r /\ j = i)
    <3>1. state'[queue'[r][i]] = "s" /\ queue'[r][i] \notin sleepQueue'
      BY <1>0, <1>4, <2>1, <2>2, <2>3, <2>4, <2>5, <2>6 DEF OnePlaceEach
    <3>2. ASSUME NEW p \in Queues, NEW j \in DOMAIN queue'[p], queue'[p][j] = queue'[r][i]
          PROVE  p = r /\ j = i
      BY <1>0, <2>1, <2>2, <3>2 DEF OnePlaceEach
    <3>. QED
      BY <3>1, <3>2
  <2>. QED
    BY <1>0, <1>4, <1>6, <2>3, <2>4, <2>5, <2>6, <2>7 DEF OnePlaceEach
<1>7. ASSUME Slept(t), UNCHANGED taskExec PROVE OnePlaceEach'
  <2>1. state[t] # "s" /\ (\A r \in Queues : \A i \in DOMAIN queue[r] : queue[r][i] # t)
    BY <1>0, <1>2, <1>7 DEF Slept, OnePlaceEach
  <2>2. \A u \in Threads : state'[u] = IF u = t THEN "s" ELSE state[u]
    BY <1>1, <1>7 DEF Slept, TasksOK
  <2>3. \A r \in Queues : \A i \in DOMAIN queue[r] : queue[r][i] \in Threads
    BY <1>3
  <2>. QED
    BY <1>0, <1>1, <1>4, <1>7, <2>1, <2>2, <2>3 DEF OnePlaceEach, Slept, TasksOK
<1>8. ASSUME Left(t) PROVE OnePlaceEach'
  BY <1>0, <1>1, <1>8, LeavingPlaces DEF Left
<1>9. ASSUME NEW q \in Queues, Resumed(t, q), UNCHANGED taskExec PROVE OnePlaceEach'
  <2> DEFINE h == Head(queue[q])
  <2>1. queue[q] # <<>> /\ queue[q] \in Seq(Threads) /\ h \in Threads /\ h = queue[q][1]
        /\ 1 \in DOMAIN queue[q] /\ state[h] = "s"
    BY <1>0, <1>3, <1>9, Heads DEF Resumed, ResumeHead
  <2>2. h # t /\ h \notin sleepQueue
    BY <1>0, <1>2, <1>9, <2>1 DEF Resumed, OnePlaceEach
  <2>3. \A r \in Queues : \A i \in DOMAIN queue'[r] :
          LET k == IF r = q THEN i + 1 ELSE i
          IN  k \in DOMAIN queue[r] /\ queue'[r][i] = queue[r][k] /\ (r = q => k # 1)
    BY <1>1, <1>3, <1>9, <2>1 DEF Resumed, ResumeHead, TasksOK
  <2>4. \A u \in Threads : state'[u] = IF u = h THEN "r" ELSE state[u]
    BY <1>1, <1>9, <2>1 DEF Resumed, ResumeHead, TasksOK
  <2>5. readyQueue' = readyQueue \cup {h} /\ UNCHANGED sleepQueue
    BY <1>9 DEF Resumed, ResumeHead
  <2>6. readyQueue \subseteq Threads /\ sleepQueue \subseteq Threads
        /\ \A r \in Queues : \A i \in DOMAIN queue[r] : queue[r][i] \in Threads
    BY <1>1, <1>3 DEF TasksOK
  <2>7. ASSUME NEW r \in Queues, NEW i \in DOMAIN queue'[r]
        PROVE  /\ state'[queue'[r][i]] = "s" /\ queue'[r][i] \notin sleepQueue'
               /\ \A p \in Queues : \A j \in DOMAIN queue'[p] :
                    queue'[p][j] = queue'[r][i] => (p = r /\ j = i)
    <3>1. queue'[r][i] # h
      BY <1>0, <2>1, <2>3 DEF OnePlaceEach
    <3>2. state'[queue'[r][i]] = "s" /\ queue'[r][i] \notin sleepQueue'
      BY <1>0, <2>3, <2>4, <2>5, <2>6, <3>1 DEF OnePlaceEach
    <3>3. ASSUME NEW p \in Queues, NEW j \in DOMAIN queue'[p], queue'[p][j] = queue'[r][i]
          PROVE  p = r /\ j = i
      <4>1. i \in Nat /\ j \in Nat
        <5>1. queue'[r] \in Seq(Threads) /\ queue'[p] \in Seq(Threads)
          BY TasksTyped, <1>0 DEF TasksOK
        <5>. QED
          BY <5>1
      <4>. QED
        BY <1>0, <2>3, <3>3, <4>1 DEF OnePlaceEach
    <3>. QED
      BY <3>2, <3>3
  <2>. QED
    BY <1>0, <1>1, <1>9, <2>1, <2>2, <2>4, <2>5, <2>6, <2>7 DEF OnePlaceEach
<1>10. ASSUME NEW u \in Tasks, Created(u), UNCHANGED taskExec, Ins(t) = <<"create", u, 0>>
       PROVE  OnePlaceEach'
  <2>1. state[u] = "n" /\ u \in Threads /\ u # t
    BY <1>0, <1>2, <1>10, NewOne DEF Threads
  <2>2. u \notin sleepQueue /\ (\A r \in Queues : \A i \in DOMAIN queue[r] : queue[r][i] # u)
    BY <1>0, <2>1 DEF OnePlaceEach
  <2>3. \A v \in Threads : state'[v] = IF v = u THEN "r" ELSE state[v]
    BY <1>1, <1>10, <2>1 DEF Created, TasksOK
  <2>4. \A r \in Queues : \A i \in DOMAIN queue'[r] :
          i \in DOMAIN queue[r] /\ queue'[r][i] = queue[r][i] /\ queue[r][i] \in Threads
    BY <1>1, <1>3, <1>10 DEF Created, TasksOK
  <2>. QED
    BY <1>0, <1>1, <1>10, <2>1, <2>2, <2>3, <2>4 DEF OnePlaceEach, Created, TasksOK
<1>11. ASSUME NEW q \in Semaphores, Cleared(t, q), UNCHANGED taskExec PROVE OnePlaceEach'
  <2>1. \A r \in Queues : \A i \in DOMAIN queue'[r] :
          i \in DOMAIN queue[r] /\ queue'[r][i] = queue[r][i]
    BY <1>1, <1>3, <1>11 DEF Cleared, TasksOK
  <2>. QED
    BY <1>0, <1>11, <2>1 DEF OnePlaceEach, Cleared
<1>12. ASSUME Exited(t), UNCHANGED taskExec PROVE OnePlaceEach'
  <2>1. state[t] # "s"
    BY <1>2, <1>12 DEF Exited
  <2>2. \A u \in Threads : state'[u] = IF u = t THEN "x" ELSE state[u]
    BY <1>1, <1>12 DEF Exited, TasksOK
  <2>3. \A r \in Queues : \A i \in DOMAIN queue[r] : queue[r][i] \in Threads
    BY <1>3
  <2>. QED
    BY <1>0, <1>1, <1>4, <1>12, <2>1, <2>2, <2>3 DEF OnePlaceEach, Exited, TasksOK
<1>13. \/ Unmoved /\ taskExec' \in {t, Disp}
       \/ Left(t)
       \/ \E q \in Queues : Suspended(t, q) /\ UNCHANGED taskExec
       \/ Slept(t) /\ UNCHANGED taskExec
       \/ \E q \in Queues : Resumed(t, q) /\ UNCHANGED taskExec
       \/ \E u \in Tasks : Created(u) /\ UNCHANGED taskExec /\ Ins(t) = <<"create", u, 0>>
       \/ \E q \in Semaphores : Cleared(t, q) /\ UNCHANGED taskExec
       \/ Exited(t) /\ UNCHANGED taskExec
  BY <1>0, <1>1, Effects DEF Calm
<1>. QED
  BY <1>5, <1>6, <1>7, <1>8, <1>9, <1>10, <1>11, <1>12, <1>13

\* The types hold at the start.
LEMMA InitTypes == Init => TypeOK
<1>. SUFFICES ASSUME Init PROVE TypeOK
  OBVIOUS
<1>. Main \in Threads /\ <<>> \in Seq(Threads)
  BY DEF Threads
<1>1. CpuOK
  BY DEF Init, CpuOK, Threads, Flags
<1>2. TasksOK
  BY DEF Init, TasksOK
<1>3. SyncOK
  BY DEF Init, SyncOK
<1>4. LifeOK
  BY DEF Init, LifeOK
<1>5. PcOK
  BY DEF Init, PcOK, Steps
<1>6. DataOK
  BY ProgramShape DEF Init, DataOK
<1>. QED
  BY <1>1, <1>2, <1>3, <1>4, <1>5, <1>6 DEF TypeOK

\* The invariant holds at the start.
LEMMA InitPlaces == Init => PlacesInv
<1>. SUFFICES ASSUME Init PROVE PlacesInv
  OBVIOUS
<1>1. TypeOK
  BY InitTypes
<1>2. StepsFit
  BY DEF Init, StepsFit
<1>3. OnCpu
  BY DEF Init, OnCpu
<1>4. NotYet
  <2>1. prog.script[Main] \in Seq(Instr)
    BY ProgramShape DEF Init, Threads
  <2>2. \A i \in DOMAIN prog.script[Main] : prog.script[Main][i] \in Instr
    BY <2>1
  <2>3. \A i \in DOMAIN prog.script[Main] :
          prog.script[Main][i][1] = "create" => prog.script[Main][i][2] \in Tasks
    BY <2>2 DEF Instr
  <2>. QED
    BY <2>3, ThreadsDiffer DEF Init, NotYet, Threads
<1>5. OnePlaceEach
  BY DEF Init, OnePlaceEach
<1>. QED
  BY <1>1, <1>2, <1>3, <1>4, <1>5 DEF PlacesInv

\* The invariant is inductive, whatever is in Quiet.
LEMMA PlacesInductive == PlacesInv /\ [Next]_vars => PlacesInv'
<1>. SUFFICES ASSUME PlacesInv, [Next]_vars PROVE PlacesInv'
  OBVIOUS
<1>0. TypeOK /\ StepsFit /\ OnCpu /\ NotYet /\ OnePlaceEach /\ TypeOK' /\ TasksOK
  BY TypesInductive DEF PlacesInv, TypeOK
<1>. \A r \in Queues : \A i \in DOMAIN queue[r] : queue[r][i] \in Threads
  BY <1>0 DEF TasksOK
<1>1. ASSUME NEW t \in Threads, Task(t) PROVE PlacesInv'
  BY <1>0, <1>1, FitTask, CpuTask, NotYetTask, PlacesTask DEF PlacesInv
<1>2. ASSUME UNCHANGED <<prog, pc>> PROVE StepsFit'
  BY <1>0, <1>2 DEF StepsFit, Op, Ins
<1>3. ASSUME UNCHANGED <<prog, pc>>, NEW t \in Threads, state[t] # "n",
             \A u \in Threads \ {t} : state'[u] = state[u]
      PROVE  NotYet'
  <2>1. prog.script[Main] \in Seq(Instr)
    BY <1>0, ProgramShape DEF TypeOK, CpuOK, Threads
  <2>2. \A i \in DOMAIN prog.script[Main] : prog.script[Main][i] \in Instr
    BY <2>1
  <2>3. \A i \in DOMAIN prog.script[Main] :
          prog.script[Main][i][1] = "create" => prog.script[Main][i][2] \in Threads
    BY <2>2 DEF Instr, Threads
  <2>. QED
    BY <1>0, <1>3, <2>3 DEF NotYet
<1>4. ASSUME NEW t \in Threads, Dispatch(t) PROVE PlacesInv'
  <2>1. state[t] = "r" /\ (\A u \in Threads : state'[u] = IF u = t THEN "e" ELSE state[u])
    BY <1>0, <1>4 DEF Dispatch, OnePlaceEach, TasksOK
  <2>2. StepsFit' /\ NotYet'
    BY <1>2, <1>3, <1>4, <2>1 DEF Dispatch
  <2>3. OnCpu'
    BY <1>4, <2>1 DEF Dispatch, OnCpu
  <2>4. OnePlaceEach'
    BY <1>0, <1>4, <2>1 DEF Dispatch, OnePlaceEach, TasksOK
  <2>. QED
    BY <1>0, <2>2, <2>3, <2>4 DEF PlacesInv
<1>5. ASSUME NEW t \in Threads, Wake(t) PROVE PlacesInv'
  <2>1. state[t] = "s" /\ (\A u \in Threads : state'[u] = IF u = t THEN "r" ELSE state[u])
    BY <1>0, <1>5 DEF Wake, OnePlaceEach, TasksOK
  <2>2. StepsFit' /\ NotYet'
    BY <1>2, <1>3, <1>5, <2>1 DEF Wake
  <2>3. OnCpu'
    BY <1>5, ThreadsDiffer DEF Wake, OnCpu, cpu
  <2>4. OnePlaceEach'
    BY <1>0, <1>5, <2>1, ThreadsDiffer DEF Wake, OnePlaceEach, TasksOK, cpu
  <2>. QED
    BY <1>0, <2>2, <2>3, <2>4 DEF PlacesInv
<1>6. ASSUME NEW t \in Tasks, Preempt(t) PROVE PlacesInv'
  <2>1. t \in Threads /\ taskExec = t /\ state[t] \in {"e", "s", "x"}
    BY <1>0, <1>6 DEF Preempt, OnCpu, Threads
  <2>2. \A u \in Threads \ {t} : state'[u] = state[u]
    BY <1>0, <1>6 DEF Preempt, Requeue, TasksOK
  <2>3. StepsFit' /\ NotYet'
    BY <1>2, <1>3, <1>6, <2>1, <2>2 DEF Preempt, ToDispatcher
  <2>4. OnCpu'
    BY <1>6, ThreadsDiffer DEF Preempt, ToDispatcher, OnCpu
  <2>5. OnePlaceEach'
    BY <1>0, <1>6, <2>1, LeavingPlaces DEF Preempt, ToDispatcher
  <2>. QED
    BY <1>0, <2>3, <2>4, <2>5 DEF PlacesInv
<1>7. CASE Finish \/ Ended \/ UNCHANGED vars
  <2>1. UNCHANGED <<prog, taskExec, state, readyQueue, sleepQueue, queue, pc>>
    BY <1>7 DEF Finish, Ended, vars, cpu, tasks
  <2>2. StepsFit'
    BY <1>2, <2>1
  <2>3. OnCpu' /\ NotYet' /\ OnePlaceEach'
    BY <1>0, <2>1 DEF OnCpu, NotYet, OnePlaceEach
  <2>. QED
    BY <1>0, <2>2, <2>3 DEF PlacesInv
<1>. QED
  BY <1>1, <1>4, <1>5, <1>6, <1>7 DEF Next

\* The invariant holds for ever.
LEMMA PlacesAlways == Spec => []PlacesInv
BY InitPlaces, PlacesInductive, PTL DEF Spec

\* Every variable has its type, in every program and whatever is in Quiet.
THEOREM KernelTypes == Spec => []TypeOK
<1>1. PlacesInv => TypeOK
  BY DEF PlacesInv
<1>. QED
  BY <1>1, PlacesAlways, PTL

\* No thread is in two places, in every program and whatever is in Quiet.
THEOREM OnePlace == Spec => []OnePlaceEach
<1>1. PlacesInv => OnePlaceEach
  BY DEF PlacesInv
<1>. QED
  BY <1>1, PlacesAlways, PTL

-----------------------------------------------------------------------------
\* Only main destroys, and what it is destroying is no longer active.
Freeing == \A t \in Threads : pc[t].step = "freeing" => t = Main /\ ~active[Arg(t)]

SemInv == Freeing /\ SemaphoresExact

\* What a step of t may do to the semaphore s.
Alone(s) == active'[s] = active[s] /\ value'[s] = value[s] /\ queue'[s] = queue[s]
Born(s) == value'[s] \in Nat /\ queue'[s] = <<>>
Downed(t, s) ==
    /\ active'[s] = active[s] /\ value'[s] = value[s] - 1
    /\ queue'[s] = IF value[s] > 0 THEN queue[s] ELSE Append(queue[s], t)
Upped(s) ==
    /\ active'[s] = active[s] /\ value'[s] = value[s] + 1
    /\ queue'[s] = IF value[s] < 0 THEN Tail(queue[s]) ELSE queue[s]
    /\ value[s] < 0 => queue[s] # <<>>

\* Tasks do not create, nor create or destroy semaphores.
LEMMA OnlyMain ==
    ASSUME CpuOK, NEW t \in Threads, pc[t].at \in DOMAIN prog.script[t],
           Op(t) \in {"create", "sem_create", "sem_destroy"}
    PROVE  t = Main
BY ProgramShape DEF CpuOK, Op, Ins, Threads

\* Every step leaves a semaphore in use alone, or is a whole sem_create, down or up of it.
LEMMA SemEffects ==
    ASSUME TypeOK, Freeing, NEW t \in Threads, Task(t), NEW s \in Semaphores
    PROVE  Alone(s) \/ ~active'[s] \/ Born(s) \/ Downed(t, s) \/ Upped(s)
<1>0. TasksOK /\ SyncOK /\ CpuOK /\ pc[t].at \in DOMAIN prog.script[t]
      /\ value \in [Semaphores \cup Barriers -> Int]
      /\ active \in [Semaphores \cup Mqueues -> BOOLEAN]
      /\ queue \in [Queues -> Seq(Threads)]
  BY Running DEF TypeOK, TasksOK, SyncOK
<1>1. s \in Queues /\ s \notin Barriers /\ s \notin Mqueues /\ s \notin Threads
  BY QueuesDiffer DEF Queues
<1>2. /\ Op(t) \in {"create", "join"} => Arg(t) \in Tasks
      /\ Op(t) \in {"sem_create", "down", "up", "sem_destroy"} => Arg(t) \in Semaphores
      /\ Op(t) = "barrier_join" => Arg(t) \in Barriers
      /\ Op(t) \in {"open", "close"} => Arg(t) \in Mqueues
      /\ Op(t) = "sem_create" => Num(t) \in Nat
  BY <1>0, Operands
<1>3. ASSUME NEW q \in Queues, SuspendOn(t, q)
      PROVE  queue'[s] = IF s = q THEN Append(queue[s], t) ELSE queue[s]
  BY <1>0, <1>1, <1>3 DEF SuspendOn
<1>4. ASSUME NEW q \in Queues, ResumeHead(q)
      PROVE  queue'[s] = (IF s = q THEN Tail(queue[s]) ELSE queue[s]) /\ queue[q] # <<>>
  BY <1>0, <1>1, <1>4 DEF ResumeHead
<1>5. CASE UNCHANGED <<queue, value, active>>
  BY <1>5 DEF Alone
<1>6. CASE Create(t)
  BY <1>0, <1>1, <1>2, <1>6 DEF Create, At, sync, Alone, Threads
<1>7. CASE Join(t)
  <2>1. Arg(t) \in Queues /\ s # Arg(t) /\ UNCHANGED <<value, active>>
    BY <1>1, <1>2, <1>7 DEF Join, At, Threads, Queues, sync
  <2>. QED
    BY <1>3, <1>7, <2>1 DEF Join, Alone, tasks
<1>8. CASE SemCreate(t)
  BY <1>0, <1>1, <1>2, <1>8 DEF SemCreate, At, Alone, Born
<1>9. CASE DownRegion(t)
  <2>1. Arg(t) \in Semaphores /\ Arg(t) \in Queues
    BY <1>2, <1>9 DEF DownRegion, At, Queues
  <2>2. CASE s = Arg(t)
    BY <1>0, <1>3, <1>9, <2>1, <2>2 DEF DownRegion, Downed, tasks
  <2>3. CASE s # Arg(t)
    BY <1>0, <1>3, <1>9, <2>1, <2>3 DEF DownRegion, Alone, tasks
  <2>. QED
    BY <2>2, <2>3
<1>10. CASE Up(t)
  <2>1. Arg(t) \in Semaphores /\ Arg(t) \in Queues
    BY <1>2, <1>10 DEF Up, At, Queues
  <2>2. CASE s = Arg(t) /\ active[Arg(t)]
    BY <1>0, <1>4, <1>10, <2>1, <2>2 DEF Up, Upped, tasks
  <2>3. CASE s # Arg(t) \/ ~active[Arg(t)]
    BY <1>0, <1>4, <1>10, <2>1, <2>3 DEF Up, Alone, tasks
  <2>. QED
    BY <2>2, <2>3
<1>11. CASE Destroy(t)
  BY <1>0, <1>1, <1>2, <1>11 DEF Destroy, At, Alone, tasks
<1>12. CASE DestroyLoop(t)
  <2>1. Arg(t) \in Semaphores /\ Arg(t) \in Queues /\ ~active[Arg(t)] /\ UNCHANGED <<value, active>>
    BY <1>2, <1>12 DEF DestroyLoop, At, Queues, Freeing, sync
  <2>. QED
    BY <1>4, <1>12, <2>1 DEF DestroyLoop, Alone, tasks
<1>13. CASE BarrierArrive(t)
  <2>1. Arg(t) \in Barriers /\ Arg(t) \in Queues /\ UNCHANGED active
    BY <1>2, <1>13 DEF BarrierArrive, At, Queues
  <2>. QED
    BY <1>0, <1>1, <1>3, <1>13, <2>1 DEF BarrierArrive, Alone, tasks
<1>14. CASE BarrierRelease(t)
  <2>1. Arg(t) \in Barriers /\ Arg(t) \in Queues /\ UNCHANGED active
    BY <1>2, <1>14 DEF BarrierRelease, At, Queues
  <2>. QED
    BY <1>0, <1>1, <1>4, <1>14, <2>1 DEF BarrierRelease, Alone, tasks
<1>15. CASE MqueueFlag(t)
  BY <1>0, <1>1, <1>2, <1>15 DEF MqueueFlag, At, Alone, tasks
<1>16. CASE ExitDrain(t)
  BY <1>1, <1>4, <1>16 DEF ExitDrain, Alone, sync, Queues
<1>. QED
  BY <1>5, <1>6, <1>7, <1>8, <1>9, <1>10, <1>11, <1>12, <1>13, <1>14, <1>15, <1>16
  DEF Task, Yield, Sleep, SwitchOut, Return, DownTest, Exit, Exiting, ExitSwitch, Halt,
      Compute, tasks, sync

\* A step keeps the lengths of the semaphores' queues.
LEMMA SemTask ==
    ASSUME TypeOK, SemInv, NEW t \in Threads, Task(t)
    PROVE  SemaphoresExact'
<1>1. SUFFICES ASSUME NEW s \in Semaphores, active'[s]
               PROVE  Len(queue'[s]) = IF value'[s] < 0 THEN -value'[s] ELSE 0
  BY DEF SemaphoresExact
<1>2. queue[s] \in Seq(Threads) /\ value[s] \in Int
  BY DEF TypeOK, TasksOK, SyncOK, Queues
<1>3. active[s] => Len(queue[s]) = IF value[s] < 0 THEN -value[s] ELSE 0
  BY DEF SemInv, SemaphoresExact
<1>4. Alone(s) \/ Born(s) \/ Downed(t, s) \/ Upped(s)
  BY <1>1, SemEffects DEF SemInv
<1>5. CASE Alone(s)
  BY <1>1, <1>3, <1>5 DEF Alone
<1>6. CASE Born(s)
  BY <1>6 DEF Born
<1>7. CASE Downed(t, s)
  <2>1. Len(Append(queue[s], t)) = Len(queue[s]) + 1
    BY <1>2
  <2>. QED
    BY <1>1, <1>2, <1>3, <1>7, <2>1 DEF Downed
<1>8. CASE Upped(s)
  <2>1. queue[s] # <<>> => Len(Tail(queue[s])) = Len(queue[s]) - 1
    BY <1>2
  <2>. QED
    BY <1>1, <1>2, <1>3, <1>8, <2>1 DEF Upped
<1>. QED
  BY <1>4, <1>5, <1>6, <1>7, <1>8

\* A step keeps what is being destroyed inactive.
LEMMA FreeingTask ==
    ASSUME TypeOK, StepsFit, Freeing, NEW t \in Threads, Task(t)
    PROVE  Freeing'
<1>0. CpuOK /\ SyncOK /\ PcOK /\ pc[t].at \in DOMAIN prog.script[t] /\ prog' = prog
  BY Running DEF TypeOK
<1>1. /\ \A u \in Threads \ {t} : pc'[u] = pc[u]
      /\ \/ pc'[t] = pc[t]
         \/ pc'[t].step = "start"
         \/ pc'[t].at = pc[t].at /\ <<Op(t), pc'[t].step>> \in Fit
  BY <1>0, Moved
<1>2. SUFFICES ASSUME NEW u \in Threads, pc'[u].step = "freeing"
               PROVE  u = Main /\ ~active'[Arg(u)']
  BY DEF Freeing
<1>3. pc'[u].at = pc[u].at /\ Arg(u)' = Arg(u)
  BY <1>0, <1>1, <1>2, SameOps
<1>4. CASE pc[u].step = "freeing"
  <2>1. u = Main /\ ~active[Arg(u)] /\ Op(u) = "sem_destroy" /\ pc[u].at \in DOMAIN prog.script[u]
    BY <1>4 DEF Freeing, StepsFit, Fit
  <2>2. Arg(u) \in Semaphores
    BY <1>0, <2>1, Operands
  <2>3. CASE SemCreate(t)
    <3>1. Op(t) = "sem_create"
      BY <2>3 DEF SemCreate, At
    <3>2. t = Main
      BY <1>0, <3>1, OnlyMain
    <3>. QED
      BY <2>1, <3>1, <3>2
  <2>4. CASE MqueueFlag(t)
    BY <1>0, <1>3, <2>1, <2>2, <2>4, Operands, QueuesDiffer DEF MqueueFlag, At, SyncOK
  <2>5. CASE Destroy(t)
    BY <1>0, <1>3, <2>1, <2>2, <2>5, Operands DEF Destroy, At, SyncOK
  <2>6. CASE UNCHANGED active
    BY <1>3, <2>1, <2>6
  <2>. QED
    BY <2>3, <2>4, <2>5, <2>6 DEF Task, Create, Yield, Join, Sleep, SwitchOut, Return, DownTest,
       DownRegion, Up, DestroyLoop, BarrierArrive, BarrierRelease, Exit, Exiting, ExitDrain,
       ExitSwitch, Halt, Compute, sync
<1>5. CASE pc[u].step # "freeing"
  <2>1. u = t /\ Op(t) = "sem_destroy"
    BY <1>1, <1>2, <1>5 DEF Fit
  <2>2. t = Main /\ Arg(t) \in Semaphores
    BY <1>0, <2>1, OnlyMain, Operands
  <2>3. Destroy(t) \/ DestroyLoop(t)
    BY <2>1 DEF Task, Create, Yield, Join, Sleep, SwitchOut, Return, SemCreate, DownTest,
       DownRegion, Up, BarrierArrive, BarrierRelease, MqueueFlag, Exit, Exiting, ExitDrain,
       ExitSwitch, Halt, Compute, At, Destroy, DestroyLoop
  <2>4. Destroy(t)
    BY <1>5, <2>1, <2>3 DEF DestroyLoop, At
  <2>. QED
    BY <1>0, <1>3, <2>1, <2>2, <2>4 DEF Destroy, SyncOK
<1>. QED
  BY <1>4, <1>5

\* The counts of the semaphores are inductive.
LEMMA SemInductive == PlacesInv /\ SemInv /\ [Next]_vars => SemInv'
<1>. SUFFICES ASSUME PlacesInv, SemInv, [Next]_vars PROVE SemInv'
  OBVIOUS
<1>0. TypeOK /\ StepsFit
  BY DEF PlacesInv
<1>1. ASSUME NEW t \in Threads, Task(t) PROVE SemInv'
  BY <1>0, <1>1, SemTask, FreeingTask DEF SemInv
<1>2. CASE UNCHANGED <<prog, pc, queue, value, active>>
  BY <1>2 DEF SemInv, SemaphoresExact, Freeing, Arg, Ins
<1>. QED
  BY <1>1, <1>2 DEF Next, Dispatch, Wake, Preempt, ToDispatcher, Finish, Ended, vars, cpu, tasks,
     sync

\* The queue of a semaphore in use is as long as its value is below 0.
THEOREM ExactSemaphores == Spec => []SemaphoresExact
<1>1. Init => SemInv
  BY DEF Init, SemInv, Freeing, SemaphoresExact
<1>2. SemInv => SemaphoresExact
  BY DEF SemInv
<1>. QED
  BY <1>1, <1>2, SemInductive, PlacesAlways, PTL DEF Spec

-----------------------------------------------------------------------------
\* The end of a task, wherever a quantum ends: freeTask names one that is in task_exit or
\* gone, so no other loses its stack; only such a one is marked as ended, nobody is
\* suspended there, and who is gone is on no queue and never runs.
Past == {"exiting", "drain", "gone"}
EndsInv ==
    /\ freeTask # None => pc[freeTask].step \in Past
    /\ \A t \in Threads :
         /\ state[t] = "x" => Over(t)
         /\ state[t] = "s" => pc[t].step \notin Past
         /\ pc[t].step = "gone" => state[t] \in {"e", "x"} /\ taskExec # t
         /\ t \in freed => pc[t].step \in Past

\* The steps of task_exit before its switch.
Closing == {"exiting", "drain"}

\* What a step of t may do to its life and its place in the script.
Alive(t) ==
    /\ UNCHANGED <<freeTask, freed, taskExec>>
    /\ pc[t].step \notin Closing \cup {"gone"} /\ pc'[t].step \notin Closing \cup {"gone"}
Away(t) ==
    /\ taskExec' = Disp /\ freed' = freed \cup ({freeTask} \ {None}) /\ freeTask' = None
Lives(t) ==
    \/ Alive(t) /\ ~Exited(t)
    \/ /\ Away(t) /\ pc[t].step \in {"start", "yield"} /\ pc'[t].step \in {"start", "back"}
       /\ Left(t)
    \/ /\ freeTask' = t /\ UNCHANGED <<freed, taskExec, state>>
       /\ pc[t].step = "start" /\ pc'[t].step = "exiting"
    \/ UNCHANGED <<freeTask, freed, taskExec>> /\ Exited(t)
    \/ /\ UNCHANGED <<freeTask, freed, taskExec>> /\ pc' = pc /\ pc[t].step = "drain"
       /\ ResumeHead(t)
    \/ /\ Away(t) /\ pc[t].step = "drain" /\ pc'[t].step = "gone" /\ UNCHANGED tasks

\* Every step is one of six in the life of its thread.
LEMMA LifeKinds ==
    ASSUME TypeOK, StepsFit, NEW t \in Threads, Task(t) PROVE Lives(t)
<1>0. PcOK /\ TasksOK
  BY DEF TypeOK
<1>1. ASSUME NEW n, NEW s, MoveTo(t, n, s) PROVE pc'[t].step = s /\ pc'[t].at = n
  BY <1>0, <1>1 DEF MoveTo, PcOK
<1>2. ASSUME pc[t].step \in {"start", "region", "yield", "back", "freeing", "release"},
             pc'[t].step \in {"start", "region", "yield", "back", "freeing", "release"},
             UNCHANGED <<freeTask, freed, taskExec>>
      PROVE  Lives(t)
  BY <1>2 DEF Lives, Alive, Closing, Exited
<1>3. ASSUME NEW s \in {"start", "region", "yield", "back", "freeing", "release"},
             NEW n, MoveTo(t, n, s) \/ Next1(t) \/ Goto(t, n) \/ Step(t, s)
      PROVE  pc'[t].step \in {"start", "region", "yield", "back", "freeing", "release"}
  BY <1>1, <1>3 DEF Next1, Goto, Step
<1>4. CASE Create(t) \/ Join(t) \/ Sleep(t) \/ Return(t) \/ SemCreate(t)
  BY <1>2, <1>3, <1>4 DEF Create, Join, Sleep, Return, SemCreate, SuspendOn, Stay, At, life
<1>5. CASE DownTest(t) \/ DownRegion(t) \/ Up(t) \/ Destroy(t) \/ BarrierArrive(t) \/ MqueueFlag(t)
           \/ Compute(t)
  BY <1>2, <1>3, <1>5 DEF DownTest, DownRegion, Up, Destroy, BarrierArrive, MqueueFlag, Compute,
     SuspendOn, Stay, At, life
<1>6. CASE DestroyLoop(t) \/ BarrierRelease(t) \/ Halt(t)
  BY <1>2, <1>3, <1>6 DEF DestroyLoop, BarrierRelease, Halt, Stay, At, life
<1>7. CASE Yield(t)
  <2>1. pc'[t].step = "start"
    BY <1>1, <1>7 DEF Yield, Next1, Goto
  <2>. QED
    BY <1>7, <2>1 DEF Yield, ToDispatcher, At, Lives, Away, Left
<1>8. CASE SwitchOut(t)
  <2>1. pc'[t].step = "back"
    BY <1>1, <1>8 DEF SwitchOut, Step
  <2>. QED
    BY <1>8, <2>1 DEF SwitchOut, ToDispatcher, At, Lives, Away, Left
<1>9. CASE Exit(t)
  <2>1. pc'[t].step = "exiting"
    BY <1>1, <1>9 DEF Exit, Step
  <2>. QED
    BY <1>9, <2>1 DEF Exit, At, Stay, Lives, tasks
<1>10. CASE Exiting(t)
  <2>1. pc'[t] = [at |-> pc[t].at, step |-> "drain"]
    BY <1>0, <1>10 DEF Exiting, Step, MoveTo, PcOK
  <2>. QED
    BY <1>10, <2>1 DEF Exiting, At, Stay, Lives, Exited, life
<1>11. CASE ExitDrain(t)
  BY <1>11 DEF ExitDrain, At, Stay, Lives, life
<1>12. CASE ExitSwitch(t)
  <2>1. pc'[t].step = "gone"
    BY <1>1, <1>12 DEF ExitSwitch, Step
  <2>. QED
    BY <1>12, <2>1 DEF ExitSwitch, At, ToDispatcher, Lives, Away
<1>. QED
  BY <1>4, <1>5, <1>6, <1>7, <1>8, <1>9, <1>10, <1>11, <1>12 DEF Task

\* Another thread is at most created or resumed by a step, and never marked as ended.
LEMMA OthersEnd ==
    ASSUME PlacesInv, NEW t \in Threads, Task(t), NEW u \in Threads, u # t
    PROVE  /\ state'[u] = state[u] \/ (state[u] \in {"n", "s"} /\ state'[u] = "r")
           /\ state'[u] = "x" <=> state[u] = "x"
           /\ state'[u] # "n" => state[u] # "n" \/ Ins(t) = <<"create", u, 0>>
           /\ state[u] # "n" => state'[u] # "n"
<1>0. TypeOK /\ OnCpu /\ OnePlaceEach /\ NotYet /\ state \in [Threads -> {"n", "r", "e", "s", "x"}]
  BY DEF PlacesInv, TypeOK, TasksOK
<1>1. ASSUME NEW q \in Queues, Resumed(t, q)
      PROVE  state'[u] = state[u] \/ (state[u] = "s" /\ state'[u] = "r")
  BY <1>0, <1>1, Heads DEF Resumed, ResumeHead
<1>2. ASSUME NEW v \in Tasks, Created(v), Ins(t) = <<"create", v, 0>>
      PROVE  state'[u] = state[u] \/ (u = v /\ state[u] = "n" /\ state'[u] = "r")
  BY <1>0, <1>2, NewOne DEF Created
<1>3. ASSUME Unmoved \/ Slept(t) \/ Left(t) \/ Exited(t) PROVE state'[u] = state[u]
  BY <1>0, <1>3 DEF Unmoved, Slept, Left, Exited, Requeue, tasks
<1>4. ASSUME NEW q \in Queues, Suspended(t, q) PROVE state'[u] = state[u]
  BY <1>0, <1>4 DEF Suspended
<1>5. ASSUME NEW q \in Semaphores, Cleared(t, q) PROVE state'[u] = state[u]
  BY <1>5 DEF Cleared
<1>6. \/ Unmoved \/ Slept(t) \/ Left(t) \/ Exited(t)
      \/ \E q \in Queues : Suspended(t, q) \/ Resumed(t, q)
      \/ \E v \in Tasks : Created(v) /\ Ins(t) = <<"create", v, 0>>
      \/ \E q \in Semaphores : Cleared(t, q)
  BY <1>0, Effects DEF Calm
<1>. QED
  BY <1>1, <1>2, <1>3, <1>4, <1>5, <1>6

\* A step keeps the invariant of the ends.
LEMMA EndsTask ==
    ASSUME PlacesInv, EndsInv, NEW t \in Threads, Task(t) PROVE EndsInv'
<1>0. /\ TypeOK /\ StepsFit /\ OnCpu /\ PcOK /\ taskExec = t /\ t # Disp /\ t # None
      /\ freed \subseteq Threads /\ freeTask \in Threads \cup {None}
      /\ state \in [Threads -> {"n", "r", "e", "s", "x"}]
  BY Running, ThreadsDiffer DEF PlacesInv, TypeOK, LifeOK, TasksOK
<1>1. \A u \in Threads \ {t} : pc'[u] = pc[u] /\
        \/ state'[u] = state[u]
        \/ state[u] \in {"n", "s"} /\ state'[u] = "r"
  BY <1>0, Moved, OthersEnd DEF TypeOK
<1>2. /\ pc[t].step # "gone"
      /\ pc[t].step # "drain" => state[t] # "x"
      /\ pc[t].step # "yield" => state[t] # "s"
      /\ state[t] # "n"
  BY <1>0 DEF OnCpu, EndsInv
<1>3. ASSUME pc[t].step \in Past => pc'[t].step \in Past,
             freed' \subseteq freed \cup ({freeTask} \ {None}),
             freeTask' \in {None, freeTask} \/ (freeTask' = t /\ pc'[t].step \in Past),
             taskExec' \in {t, Disp}, pc'[t].step = "gone" => taskExec' = Disp,
             state'[t] = "x" => pc'[t].step \in {"drain", "gone"},
             state'[t] = "s" => pc'[t].step \notin Past,
             pc'[t].step = "gone" => state'[t] \in {"e", "x"}
      PROVE  EndsInv'
  <2>1. \A u \in Threads : pc[u].step \in Past => pc'[u].step \in Past
    BY <1>1, <1>3
  <2>2. freeTask' # None => pc'[freeTask'].step \in Past
    BY <1>0, <1>3, <2>1 DEF EndsInv
  <2>3. \A u \in Threads : u \in freed' => pc'[u].step \in Past
    BY <1>0, <1>3, <2>1 DEF EndsInv
  <2>4. ASSUME NEW u \in Threads, u # t
        PROVE  /\ state'[u] = "x" => pc'[u].step \in {"drain", "gone"}
               /\ state'[u] = "s" => pc'[u].step \notin Past
               /\ pc'[u].step = "gone" => state'[u] \in {"e", "x"} /\ taskExec' # u
    BY <1>0, <1>1, <1>3, <2>4, ThreadsDiffer DEF EndsInv, Over
  <2>. QED
    BY <1>0, <1>3, <2>2, <2>3, <2>4 DEF EndsInv, Over
<1>4. ASSUME Alive(t), ~Exited(t) PROVE EndsInv'
  <2>1. state'[t] # "x"
    <3>1. state[t] # "x"
      BY <1>2, <1>4 DEF Alive, Closing
    <3>2. ASSUME NEW q \in Queues, Suspended(t, q) PROVE state'[t] # "x"
      BY <1>0, <3>2 DEF Suspended
    <3>3. ASSUME NEW q \in Queues, Resumed(t, q) PROVE state'[t] # "x"
      BY <1>0, <3>1, <3>3, Heads DEF Resumed, ResumeHead, PlacesInv
    <3>4. ASSUME NEW v \in Tasks, Created(v) PROVE state'[t] # "x"
      BY <1>0, <3>1, <3>4 DEF Created
    <3>5. ASSUME NEW q \in Semaphores, Cleared(t, q) PROVE state'[t] # "x"
      BY <3>1, <3>5 DEF Cleared
    <3>6. ASSUME Unmoved \/ Slept(t) \/ Left(t) PROVE state'[t] # "x"
      BY <1>0, <3>1, <3>6 DEF Unmoved, Slept, Left, Requeue, tasks
    <3>7. \/ Unmoved \/ Slept(t) \/ Left(t)
          \/ \E q \in Queues : Suspended(t, q) \/ Resumed(t, q)
          \/ \E v \in Tasks : Created(v)
          \/ \E q \in Semaphores : Cleared(t, q)
      BY <1>0, <1>4, Effects DEF Calm
    <3>. QED
      BY <3>2, <3>3, <3>4, <3>5, <3>6, <3>7
  <2>. QED
    BY <1>0, <1>3, <1>4, <2>1 DEF Alive, Closing, Past
<1>5. ASSUME Away(t), pc[t].step \in {"start", "yield"}, pc'[t].step \in {"start", "back"}, Left(t)
      PROVE  EndsInv'
  <2>1. state'[t] # "x"
    BY <1>0, <1>2, <1>5 DEF Left, Requeue
  <2>. QED
    BY <1>0, <1>3, <1>5, <2>1 DEF Away, Past
<1>6. ASSUME freeTask' = t, UNCHANGED <<freed, taskExec, state>>, pc[t].step = "start",
             pc'[t].step = "exiting"
      PROVE  EndsInv'
  BY <1>0, <1>2, <1>3, <1>6 DEF Past
<1>7. ASSUME UNCHANGED <<freeTask, freed, taskExec>>, Exited(t) PROVE EndsInv'
  <2>1. pc'[t].step = "drain" /\ state'[t] = "x"
    BY <1>0, <1>7 DEF Exited
  <2>. QED
    BY <1>0, <1>3, <1>7, <2>1 DEF Past
<1>8. ASSUME UNCHANGED <<freeTask, freed, taskExec>>, pc' = pc, pc[t].step = "drain",
             ResumeHead(t)
      PROVE  EndsInv'
  <2>1. state'[t] # "s"
    BY <1>0, <1>2, <1>8 DEF ResumeHead
  <2>. QED
    BY <1>0, <1>3, <1>8, <2>1 DEF Past
<1>9. ASSUME Away(t), pc[t].step = "drain", pc'[t].step = "gone", UNCHANGED tasks
      PROVE  EndsInv'
  <2>1. state'[t] = state[t] /\ state[t] \in {"e", "x"}
    BY <1>0, <1>2, <1>9 DEF tasks, OnCpu
  <2>. QED
    BY <1>0, <1>3, <1>9, <2>1 DEF Away, Past
<1>. QED
  BY <1>0, <1>4, <1>5, <1>6, <1>7, <1>8, <1>9, LifeKinds DEF Lives

\* The invariant of the ends is inductive, wherever a quantum ends.
LEMMA EndsInductive == PlacesInv /\ EndsInv /\ [Next]_vars => EndsInv'
<1>. SUFFICES ASSUME PlacesInv, EndsInv, [Next]_vars PROVE EndsInv'
  OBVIOUS
<1>0. OnCpu /\ OnePlaceEach /\ TasksOK /\ freeTask \in Threads \cup {None}
  BY DEF PlacesInv, TypeOK, LifeOK
<1>1. ASSUME NEW t \in Threads, Task(t) PROVE EndsInv'
  BY <1>1, EndsTask
<1>2. ASSUME NEW t \in Threads, Dispatch(t) PROVE EndsInv'
  <2>1. state[t] = "r" /\ (\A u \in Threads : state'[u] = IF u = t THEN "e" ELSE state[u])
    BY <1>0, <1>2 DEF Dispatch, OnePlaceEach, TasksOK
  <2>. QED
    BY <1>2, <2>1 DEF EndsInv, Dispatch, life, Over
<1>3. ASSUME NEW t \in Threads, Wake(t) PROVE EndsInv'
  <2>1. state[t] = "s" /\ (\A u \in Threads : state'[u] = IF u = t THEN "r" ELSE state[u])
    BY <1>0, <1>3 DEF Wake, OnePlaceEach, TasksOK
  <2>. QED
    BY <1>3, <2>1 DEF EndsInv, Wake, life, cpu, Over, Past
<1>4. ASSUME NEW t \in Tasks, Preempt(t) PROVE EndsInv'
  <2>1. t \in Threads /\ taskExec = t /\ pc[t].step # "gone"
    BY <1>4 DEF Preempt, Threads, EndsInv
  <2>2. \A u \in Threads : state'[u] = state[u] \/ (u = t /\ state'[u] = "r")
    BY <1>0, <1>4 DEF Preempt, Requeue, TasksOK
  <2>3. /\ taskExec' = Disp /\ freeTask' = None /\ pc' = pc
        /\ freed' = freed \cup ({freeTask} \ {None})
    BY <1>4 DEF Preempt, ToDispatcher
  <2>. QED
    BY <1>0, <2>1, <2>2, <2>3, ThreadsDiffer DEF EndsInv, Over
<1>5. CASE UNCHANGED <<pc, state, taskExec, freeTask, freed>>
  BY <1>5 DEF EndsInv, Over
<1>. QED
  BY <1>1, <1>2, <1>3, <1>4, <1>5 DEF Next, Finish, Ended, vars, cpu, tasks, life

\* The invariant of the ends holds for ever.
LEMMA EndsAlways == Spec => []EndsInv
<1>1. Init => EndsInv
  BY DEF Init, EndsInv, Past
<1>. QED
  BY <1>1, EndsInductive, PlacesAlways, PTL DEF Spec

\* A thread runs on a freed stack at most inside task_exit, wherever a quantum ends and
\* however many tasks are in task_exit at once: who is gone never runs again, and nobody
\* else's stack is freed.
THEOREM StackFreedInExit == Spec => []FreedOnlyInExit
<1>1. PlacesInv /\ EndsInv => FreedOnlyInExit
  BY ThreadsDiffer DEF PlacesInv, TypeOK, LifeOK, CpuOK, EndsInv, FreedOnlyInExit, Past
<1>. QED
  BY <1>1, EndsAlways, PlacesAlways, PTL

\* Who is past the end of its code stays so, and comes there only in its own task_exit.
LEMMA OverStays ==
    ASSUME PlacesInv, NEW t \in Threads, Task(t), NEW u \in Threads
    PROVE  /\ Over(u) /\ (u = t => pc[t].step # "gone") => Over(u)'
           /\ Over(u)' => Over(u) \/ (u = t /\ Op(t) = "exit")
<1>0. TypeOK /\ StepsFit
  BY DEF PlacesInv
<1>1. CASE u # t
  BY <1>0, <1>1, Moved DEF Over, TypeOK
<1>2. CASE u = t
  <2>1. Over(t) /\ pc[t].step # "gone" => Over(t)'
    BY <1>0, LifeKinds DEF Lives, Alive, Closing, Exited, Over
  <2>2. Over(t)' => Over(t) \/ Op(t) = "exit"
    BY <1>0, LifeKinds DEF Lives, Alive, Closing, Exited, Over
  <2>. QED
    BY <1>2, <2>1, <2>2
<1>. QED
  BY <1>1, <1>2

-----------------------------------------------------------------------------
\* A thread that waits is inside the operation it waits in.
Waiting ==
    /\ \A q \in Queues : \A i \in DOMAIN queue[q] :
         /\ pc[queue[q][i]].step \in {"yield", "back"}
         /\ Op(queue[q][i]) \in {"join", "down", "barrier_join"} /\ Arg(queue[q][i]) = q
    /\ \A t \in sleepQueue : pc[t].step \in {"yield", "back"} /\ Op(t) \in {"sleep", "nap"}

\* A thread inside task_join is suspended, or the code of what it joins is over.
Joined == \A t \in Threads :
    pc[t].step \in {"yield", "back"} /\ Op(t) = "join"
      => state[t] = "s" \/ Over(Arg(t))

\* A thread about to switch out does so, and comes back to the same operation.
LEMMA YieldsBack ==
    ASSUME TypeOK, StepsFit, NEW t \in Threads, Task(t), pc[t].step = "yield"
    PROVE  pc'[t].at = pc[t].at /\ pc'[t].step = "back" /\ Left(t)
<1>1. SwitchOut(t)
  BY DEF Task, Create, Yield, Join, Sleep, Return, SemCreate, DownTest, DownRegion, Up,
     Destroy, DestroyLoop, BarrierArrive, BarrierRelease, MqueueFlag, Exit, Exiting, ExitDrain,
     ExitSwitch, Halt, Compute, At
<1>. QED
  BY <1>1 DEF SwitchOut, Step, MoveTo, TypeOK, PcOK, Left, ToDispatcher

\* What a waiting thread is in does not change while it waits.
LEMMA WaitersStay ==
    ASSUME PlacesInv, NEW t \in Threads, Task(t), NEW u \in Threads, state[u] = "s",
           pc[u].step \in {"yield", "back"}
    PROVE  pc'[u].step \in {"yield", "back"} /\ Op(u)' = Op(u) /\ Arg(u)' = Arg(u)
<1>0. TypeOK /\ StepsFit /\ OnCpu /\ taskExec = t /\ prog' = prog
  BY Running DEF PlacesInv
<1>1. CASE u = t
  <2>1. pc[t].step = "yield"
    BY <1>0, <1>1 DEF OnCpu
  <2>2. pc'[u].at = pc[u].at /\ pc'[u].step = "back"
    BY <1>0, <1>1, <2>1, YieldsBack
  <2>. QED
    BY <1>0, <2>2, SameOps
<1>2. CASE u # t
  <2>1. pc'[u] = pc[u]
    BY <1>0, <1>2, Moved DEF TypeOK
  <2>. QED
    BY <1>0, <2>1, SameOps
<1>. QED
  BY <1>1, <1>2

\* A step keeps every waiter in the operation it waits in.
LEMMA WaitingTask ==
    ASSUME PlacesInv, Waiting, NEW t \in Threads, Task(t) PROVE Waiting'
<1>0. TypeOK /\ StepsFit /\ OnCpu /\ OnePlaceEach /\ TasksOK /\ taskExec = t /\ prog' = prog
  BY Running DEF PlacesInv, TypeOK
<1>1. /\ \A q \in Queues : queue[q] \in Seq(Threads)
      /\ \A q \in Queues : \A i \in DOMAIN queue[q] : queue[q][i] \in Threads
      /\ sleepQueue \subseteq Threads
  BY <1>0 DEF TasksOK
<1>2. \A u \in Threads : state[u] = "s" /\ pc[u].step \in {"yield", "back"} =>
        pc'[u].step \in {"yield", "back"} /\ Op(u)' = Op(u) /\ Arg(u)' = Arg(u)
  BY WaitersStay
<1>3. ASSUME NEW q \in Queues, NEW i \in DOMAIN queue[q], NEW u \in Threads, u = queue[q][i]
      PROVE  /\ pc'[u].step \in {"yield", "back"}
             /\ Op(u)' \in {"join", "down", "barrier_join"} /\ Arg(u)' = q
  <2>1. /\ state[u] = "s" /\ pc[u].step \in {"yield", "back"}
        /\ Op(u) \in {"join", "down", "barrier_join"} /\ Arg(u) = q
    BY <1>0, <1>3 DEF OnePlaceEach, Waiting
  <2>. QED
    BY <1>2, <2>1
<1>4. \A u \in sleepQueue : pc'[u].step \in {"yield", "back"} /\ Op(u)' \in {"sleep", "nap"}
  BY <1>0, <1>1, <1>2 DEF OnePlaceEach, Waiting
<1>11. ASSUME \A q \in Queues : \A i \in DOMAIN queue'[q] : \A u \in Threads :
                u = queue'[q][i] => /\ pc'[u].step \in {"yield", "back"}
                                    /\ Op(u)' \in {"join", "down", "barrier_join"}
                                    /\ Arg(u)' = q,
              \A u \in sleepQueue' : pc'[u].step \in {"yield", "back"} /\ Op(u)' \in {"sleep", "nap"}
       PROVE  Waiting'
  <2>1. \A q \in Queues : \A i \in DOMAIN queue'[q] : queue'[q][i] \in Threads
    <3>1. \A q \in Queues : queue'[q] \in Seq(Threads)
      BY <1>0, TasksTyped DEF TasksOK
    <3>. QED
      BY <3>1
  <2>. QED
    BY <1>11, <2>1 DEF Waiting, Op, Arg, Ins
<1>5. ASSUME NEW q \in Queues, Suspended(t, q) PROVE Waiting'
  <2>1. \A r \in Queues : \A i \in DOMAIN queue'[r] :
          \/ i \in DOMAIN queue[r] /\ queue'[r][i] = queue[r][i]
          \/ r = q /\ queue'[r][i] = t
    BY <1>0, <1>1, <1>5 DEF Suspended, TasksOK
  <2>2. pc'[t].at = pc[t].at /\ pc'[t].step = "yield"
    BY <1>5 DEF Suspended
  <2>3. Op(t)' \in {"join", "down", "barrier_join"} /\ Arg(t)' = q
    BY <1>0, <1>5, <2>2, SameOps DEF Suspended
  <2>. QED
    BY <1>3, <1>4, <1>5, <1>11, <2>1, <2>2, <2>3 DEF Suspended
<1>6. ASSUME Slept(t) PROVE Waiting'
  <2>1. pc'[t].at = pc[t].at /\ pc'[t].step = "yield"
    BY <1>6 DEF Slept
  <2>2. Op(t)' \in {"sleep", "nap"}
    BY <1>0, <1>6, <2>1, SameOps DEF Slept
  <2>. QED
    BY <1>3, <1>4, <1>6, <1>11, <2>1, <2>2 DEF Slept
<1>7. ASSUME UNCHANGED <<queue, sleepQueue>> PROVE Waiting'
  BY <1>3, <1>4, <1>7, <1>11
<1>8. ASSUME NEW q \in Queues, ResumeHead(q) PROVE Waiting'
  <2>1. ASSUME NEW r \in Queues, NEW i \in DOMAIN queue'[r]
        PROVE  \E k \in DOMAIN queue[r] : queue'[r][i] = queue[r][k]
    <3>1. CASE r = q
      <4>1. queue'[r] = Tail(queue[r]) /\ queue[r] \in Seq(Threads) /\ queue[r] # <<>>
        BY <1>0, <1>1, <1>8, <3>1 DEF ResumeHead, TasksOK
      <4>2. i + 1 \in DOMAIN queue[r] /\ queue'[r][i] = queue[r][i + 1]
        BY <2>1, <4>1
      <4>. QED
        BY <4>2
    <3>2. CASE r # q
      BY <1>0, <1>8, <2>1, <3>2 DEF ResumeHead, TasksOK
    <3>. QED
      BY <3>1, <3>2
  <2>. QED
    BY <1>3, <1>4, <1>8, <1>11, <2>1 DEF ResumeHead
<1>9. ASSUME NEW q \in Queues, queue' = [queue EXCEPT ![q] = <<>>], UNCHANGED sleepQueue
      PROVE  Waiting'
  <2>1. \A r \in Queues : \A i \in DOMAIN queue'[r] :
          i \in DOMAIN queue[r] /\ queue'[r][i] = queue[r][i]
    BY <1>0, <1>1, <1>9 DEF TasksOK
  <2>. QED
    BY <1>3, <1>4, <1>9, <1>11, <2>1
<1>10. \/ Slept(t) \/ UNCHANGED <<queue, sleepQueue>>
       \/ \E q \in Queues : Suspended(t, q) \/ ResumeHead(q)
       \/ \E q \in Queues : queue' = [queue EXCEPT ![q] = <<>>] /\ UNCHANGED sleepQueue
  BY <1>0, Effects DEF Calm, Unmoved, tasks, Left, Resumed, Created, Cleared, Exited, Queues, Threads
<1>. QED
  BY <1>5, <1>6, <1>7, <1>8, <1>9, <1>10

\* A step resumes nobody who joined a task whose code is not over.
LEMMA JoinedTask ==
    ASSUME PlacesInv, EndsInv, Waiting, Joined, NEW t \in Threads, Task(t) PROVE Joined'
<1>0. TypeOK /\ StepsFit /\ OnCpu /\ OnePlaceEach /\ TasksOK /\ CpuOK /\ taskExec = t
      /\ prog' = prog /\ state \in [Threads -> {"n", "r", "e", "s", "x"}] /\ PcOK
  BY Running DEF PlacesInv, TypeOK, TasksOK
<1>1. SUFFICES ASSUME NEW u \in Threads, pc'[u].step \in {"yield", "back"}, Op(u)' = "join",
                      state'[u] # "s"
               PROVE  Over(Arg(u))'
  BY DEF Joined, Over, Arg, Ins
<1>2. /\ \A v \in Threads \ {t} : pc'[v] = pc[v]
      /\ \/ pc'[t] = pc[t]
         \/ pc'[t].step = "start"
         \/ pc'[t].at = pc[t].at /\ <<Op(t), pc'[t].step>> \in Fit
  BY <1>0, Moved
<1>3. pc'[u].at = pc[u].at
  BY <1>1, <1>2
<1>4. Op(u) = "join" /\ Arg(u)' = Arg(u) /\ pc[u].at \in DOMAIN prog.script[u]
  <2>1. Op(u) = "join" /\ Arg(u)' = Arg(u)
    BY <1>0, <1>1, <1>3, SameOps
  <2>2. StepsFit'
    BY <1>0, FitTask
  <2>. QED
    BY <1>0, <1>1, <1>3, <2>1, <2>2 DEF StepsFit
<1>5. Arg(u) \in Tasks /\ Arg(u) \in Threads
  BY <1>0, <1>4, Operands DEF Threads
<1>6. ASSUME NEW v \in Threads, v = Arg(u), Over(v) PROVE Over(Arg(u))'
  <2>1. v = t => pc[t].step # "gone"
    BY <1>0 DEF EndsInv
  <2>2. pc'[v].step \in {"drain", "gone"}
    BY <1>6, <2>1, OverStays DEF Over
  <2>. QED
    BY <1>4, <1>6, <2>2 DEF Over
<1>7. CASE pc[u].step \in {"yield", "back"} /\ state[u] # "s"
  BY <1>4, <1>5, <1>6, <1>7 DEF Joined
<1>8. CASE pc[u].step \in {"yield", "back"} /\ state[u] = "s"
  <2>1. ASSUME NEW q \in Queues, Resumed(t, q), u = Head(queue[q]) PROVE Over(Arg(u))
    <3>1. u = queue[q][1] /\ 1 \in DOMAIN queue[q]
      BY <1>0, <2>1, Heads DEF Resumed, ResumeHead
    <3>2. Arg(u) = q
      BY <3>1 DEF Waiting
    <3>3. q = t /\ pc[t].step = "drain"
      BY <1>5, <2>1, <3>2 DEF Resumed
    <3>. QED
      BY <3>2, <3>3 DEF Over
  <2>2. ASSUME NEW q \in Queues, Resumed(t, q) PROVE u = Head(queue[q])
    BY <1>0, <1>1, <1>8, <2>2 DEF Resumed, ResumeHead
  <2>3. ASSUME NEW v \in Tasks, Created(v), Ins(t) = <<"create", v, 0>> PROVE FALSE
    <3>1. state[v] = "n"
      BY <2>3, NewOne DEF PlacesInv
    <3>. QED
      BY <1>0, <1>1, <1>8, <2>3, <3>1 DEF Created
  <2>4. ASSUME NEW q \in Queues, Suspended(t, q) PROVE FALSE
    BY <1>0, <1>1, <1>8, <2>4 DEF Suspended
  <2>5. ASSUME NEW q \in Semaphores, Cleared(t, q) PROVE FALSE
    BY <1>1, <1>8, <2>5 DEF Cleared
  <2>6. ASSUME Unmoved \/ Slept(t) \/ Left(t) PROVE FALSE
    BY <1>0, <1>1, <1>8, <2>6 DEF Unmoved, Slept, Left, Requeue, tasks
  <2>7. ASSUME Exited(t) PROVE FALSE
    <3>1. state[t] # "s"
      BY <1>0, <2>7 DEF Exited, OnCpu
    <3>. QED
      BY <1>0, <1>1, <1>8, <2>7, <3>1 DEF Exited
  <2>8. \/ Unmoved \/ Slept(t) \/ Left(t) \/ Exited(t)
        \/ \E q \in Queues : Suspended(t, q) \/ Resumed(t, q)
        \/ \E v \in Tasks : Created(v) /\ Ins(t) = <<"create", v, 0>>
        \/ \E q \in Semaphores : Cleared(t, q)
    BY <1>0, Effects DEF Calm
  <2>9. Over(Arg(u))
    BY <2>1, <2>2, <2>3, <2>4, <2>5, <2>6, <2>7, <2>8
  <2>. QED
    BY <1>4, <1>5, <1>6, <2>9
<1>9. CASE pc[u].step \notin {"yield", "back"}
  <2>1. u = t
    BY <1>1, <1>2, <1>9
  <2>2. Join(t)
    BY <1>4, <1>9, <2>1 DEF Task, Create, Yield, Join, Sleep, SwitchOut, Return, SemCreate,
       DownTest, DownRegion, Up, Destroy, DestroyLoop, BarrierArrive, BarrierRelease, MqueueFlag,
       Exit, Exiting, ExitDrain, ExitSwitch, Halt, Compute, At
  <2>3. CASE Next1(t)
    BY <1>0, <1>1, <2>1, <2>3 DEF Next1, Goto, MoveTo, PcOK
  <2>4. CASE SuspendOn(t, Arg(t))
    BY <1>0, <1>1, <2>1, <2>4 DEF SuspendOn
  <2>. QED
    BY <2>2, <2>3, <2>4 DEF Join
<1>. QED
  BY <1>7, <1>8, <1>9

\* The invariants of task_join are inductive.
LEMMA JoinInductive ==
    PlacesInv /\ EndsInv /\ Waiting /\ Joined /\ [Next]_vars => Waiting' /\ Joined'
<1>. SUFFICES ASSUME PlacesInv, EndsInv, Waiting, Joined, [Next]_vars PROVE Waiting' /\ Joined'
  OBVIOUS
<1>0. TypeOK /\ OnCpu /\ OnePlaceEach /\ StepsFit /\ TasksOK
      /\ state \in [Threads -> {"n", "r", "e", "s", "x"}]
  BY DEF PlacesInv, TypeOK, TasksOK
<1>1. ASSUME NEW t \in Threads, Task(t) PROVE Waiting' /\ Joined'
  BY <1>1, WaitingTask, JoinedTask
<1>2. ASSUME UNCHANGED <<prog, pc, queue>>, sleepQueue' \subseteq sleepQueue PROVE Waiting'
  BY <1>2 DEF Waiting, Op, Arg, Ins
<1>3. ASSUME UNCHANGED <<prog, pc>>, NEW t \in Threads,
             \A u \in Threads \ {t} : state'[u] = state[u],
             state[t] = "s" /\ state'[t] # "s" => Op(t) \in {"sleep", "nap"}
      PROVE  Joined'
  <2>1. ASSUME NEW u \in Threads, pc[u].step \in {"yield", "back"}, Op(u) = "join",
               state'[u] # "s"
        PROVE  Over(Arg(u))
    <3>1. pc[u].at \in DOMAIN prog.script[u]
      BY <1>0, <2>1 DEF StepsFit
    <3>2. Arg(u) \in Threads
      BY <1>0, <2>1, <3>1, Operands DEF Threads, TypeOK
    <3>3. state[u] # "s"
      BY <1>3, <2>1
    <3>. QED
      BY <1>3, <2>1, <3>2, <3>3 DEF Joined
  <2>. QED
    BY <1>3, <2>1 DEF Joined, Over, Op, Arg, Ins
<1>4. ASSUME NEW t \in Threads, Dispatch(t) PROVE Waiting' /\ Joined'
  <2>1. state[t] = "r" /\ (\A u \in Threads \ {t} : state'[u] = state[u])
    BY <1>0, <1>4 DEF Dispatch, OnePlaceEach, TasksOK
  <2>. QED
    BY <1>2, <1>3, <1>4, <2>1 DEF Dispatch
<1>5. ASSUME NEW t \in Threads, Wake(t) PROVE Waiting' /\ Joined'
  <2>1. state[t] = "s" /\ (\A u \in Threads \ {t} : state'[u] = state[u])
        /\ Op(t) \in {"sleep", "nap"}
    BY <1>0, <1>5 DEF Wake, OnePlaceEach, TasksOK, Waiting
  <2>. QED
    BY <1>2, <1>3, <1>5, <2>1 DEF Wake, cpu
<1>6. ASSUME NEW t \in Tasks, Preempt(t) PROVE Waiting' /\ Joined'
  <2>1. t \in Threads
    BY DEF Threads
  <2>2. (\A u \in Threads \ {t} : state'[u] = state[u]) /\ (state[t] = "s" => state'[t] = "s")
    BY <1>0, <1>6, <2>1 DEF Preempt, Requeue
  <2>. QED
    BY <1>2, <1>3, <1>6, <2>1, <2>2 DEF Preempt, ToDispatcher
<1>7. CASE UNCHANGED <<prog, pc, queue, sleepQueue, state>>
  BY <1>2, <1>7 DEF Joined, Over, Op, Arg, Ins
<1>. QED
  BY <1>1, <1>4, <1>5, <1>6, <1>7 DEF Next, Finish, Ended, vars, cpu, tasks

\* task_join returns when the task's code is over, and not before, wherever a quantum ends.
THEOREM JoinWaits == Spec => []JoinedHasEnded
<1>1. Init => Waiting /\ Joined
  BY DEF Init, Waiting, Joined
<1>2. PlacesInv /\ Joined => JoinedHasEnded
  BY DEF PlacesInv, OnCpu, Joined, JoinedHasEnded, At
<1>. QED
  BY <1>1, <1>2, JoinInductive, EndsAlways, PlacesAlways, PTL DEF Spec

-----------------------------------------------------------------------------
\* The end of a task when no quantum ends in task_exit: the one that is ending holds the
\* CPU and freeTask, and what has been freed is gone.
ExitsInv ==
    /\ freeTask # None => taskExec = freeTask /\ pc[freeTask].step \in Closing
    /\ \A t \in Threads :
         /\ pc[t].step \in Closing => taskExec = t /\ freeTask = t /\ t \notin freed
         /\ pc[t].step = "gone" => state[t] = "x" /\ taskExec # t
         /\ pc[t].step = "drain" => state[t] = "x"
         /\ state[t] = "x" => pc[t].step \in {"drain", "gone"}
         /\ t \in freed => pc[t].step = "gone"

\* While a thread that is not ending runs, no thread is ending.
LEMMA OneEnding ==
    ASSUME TypeOK, OnCpu, ExitsInv, NEW t \in Threads, taskExec = t
    PROVE  /\ pc[t].step \notin Closing => freeTask = None
           /\ pc[t].step # "gone" /\ t \notin freed
           /\ \A u \in Threads \ {t} : pc[u].step \notin Closing
BY DEF ExitsInv, Closing

\* A step keeps the invariant of the ends.
LEMMA ExitsTask ==
    ASSUME PlacesInv, ExitsInv, NEW t \in Threads, Task(t) PROVE ExitsInv'
<1>0. TypeOK /\ StepsFit /\ OnCpu /\ PcOK /\ taskExec = t /\ t # Disp /\ t # None
      /\ freed \subseteq Threads /\ state \in [Threads -> {"n", "r", "e", "s", "x"}]
  BY Running, ThreadsDiffer DEF PlacesInv, TypeOK, LifeOK, TasksOK
<1>1. \A u \in Threads \ {t} : pc'[u] = pc[u] /\ (state'[u] = "x" <=> state[u] = "x")
  BY <1>0, Moved, OthersEnd DEF TypeOK
<1>2. \A u \in Threads \ {t} : pc[u].step \notin Closing
      /\ (pc[u].step = "gone" => state[u] = "x") /\ (state[u] = "x" => pc[u].step = "gone")
      /\ (u \in freed => pc[u].step = "gone")
  BY <1>0, OneEnding DEF ExitsInv, Closing
<1>3. (pc[t].step \notin Closing => freeTask = None) /\ pc[t].step # "gone" /\ t \notin freed
      /\ (pc[t].step \in Closing => freeTask = t)
  BY <1>0, OneEnding DEF ExitsInv
<1>4. pc[t].step # "drain" => state[t] # "x"
  BY <1>0 DEF OnCpu
<1>5. ASSUME \/ taskExec' = t /\ freed' = freed
             \/ taskExec' = Disp /\ freed' = freed /\ pc'[t].step \notin Closing
             \/ taskExec' = Disp /\ freed' = freed \cup {t} /\ pc'[t].step = "gone",
             freeTask' = None \/ (taskExec' = t /\ freeTask' = t /\ pc'[t].step \in Closing),
             pc'[t].step \in Closing => taskExec' = t /\ freeTask' = t,
             pc'[t].step = "gone" => taskExec' = Disp,
             state'[t] = "x" <=> pc'[t].step \in {"drain", "gone"}
      PROVE  ExitsInv'
  <2>1. freeTask' # None => taskExec' = freeTask' /\ pc'[freeTask'].step \in Closing
    BY <1>5
  <2>2. ASSUME NEW u \in Threads
        PROVE  /\ pc'[u].step \in Closing => taskExec' = u /\ freeTask' = u /\ u \notin freed'
               /\ pc'[u].step = "gone" => state'[u] = "x" /\ taskExec' # u
               /\ pc'[u].step = "drain" => state'[u] = "x"
               /\ state'[u] = "x" => pc'[u].step \in {"drain", "gone"}
               /\ u \in freed' => pc'[u].step = "gone"
    <3>1. CASE u = t
      BY <1>0, <1>3, <1>5, <3>1 DEF Closing
    <3>2. CASE u # t
      BY <1>0, <1>1, <1>2, <1>5, <3>2, ThreadsDiffer DEF Closing
    <3>. QED
      BY <3>1, <3>2
  <2>. QED
    BY <2>1, <2>2 DEF ExitsInv
<1>6. ASSUME Alive(t), ~Exited(t) PROVE ExitsInv'
  <2>1. state'[t] # "x"
    <3>1. state[t] # "x"
      BY <1>4, <1>6 DEF Alive, Closing
    <3>2. ASSUME NEW q \in Queues, Suspended(t, q) PROVE state'[t] # "x"
      BY <1>0, <3>2 DEF Suspended
    <3>3. ASSUME NEW q \in Queues, Resumed(t, q) PROVE state'[t] # "x"
      BY <1>0, <3>1, <3>3, Heads DEF Resumed, ResumeHead, PlacesInv
    <3>4. ASSUME NEW v \in Tasks, Created(v) PROVE state'[t] # "x"
      BY <1>0, <3>1, <3>4 DEF Created
    <3>5. ASSUME NEW q \in Semaphores, Cleared(t, q) PROVE state'[t] # "x"
      BY <3>1, <3>5 DEF Cleared
    <3>6. ASSUME Unmoved \/ Slept(t) \/ Left(t) PROVE state'[t] # "x"
      BY <1>0, <3>1, <3>6 DEF Unmoved, Slept, Left, Requeue, tasks
    <3>7. \/ Unmoved \/ Slept(t) \/ Left(t)
          \/ \E q \in Queues : Suspended(t, q) \/ Resumed(t, q)
          \/ \E v \in Tasks : Created(v)
          \/ \E q \in Semaphores : Cleared(t, q)
      BY <1>0, <1>6, Effects DEF Calm
    <3>. QED
      BY <3>2, <3>3, <3>4, <3>5, <3>6, <3>7
  <2>. QED
    BY <1>0, <1>3, <1>5, <1>6, <2>1 DEF Alive, Closing
<1>7. ASSUME Away(t), pc[t].step \in {"start", "yield"}, pc'[t].step \in {"start", "back"}, Left(t)
      PROVE  ExitsInv'
  <2>1. state'[t] # "x"
    BY <1>0, <1>4, <1>7 DEF Left, Requeue
  <2>. QED
    BY <1>0, <1>3, <1>5, <1>7, <2>1 DEF Away, Closing
<1>8. ASSUME freeTask' = t, UNCHANGED <<freed, taskExec, state>>, pc[t].step = "start",
             pc'[t].step = "exiting"
      PROVE  ExitsInv'
  BY <1>0, <1>4, <1>5, <1>8 DEF Closing
<1>9. ASSUME UNCHANGED <<freeTask, freed, taskExec>>, Exited(t) PROVE ExitsInv'
  <2>1. pc'[t].step = "drain" /\ state'[t] = "x" /\ freeTask' = t
    BY <1>0, <1>3, <1>9 DEF Exited, Closing
  <2>. QED
    BY <1>0, <1>5, <1>9, <2>1 DEF Closing
<1>10. ASSUME UNCHANGED <<freeTask, freed, taskExec>>, pc' = pc, pc[t].step = "drain",
              ResumeHead(t)
       PROVE  ExitsInv'
  <2>1. state[t] = "x" /\ freeTask = t
    BY <1>3, <1>10 DEF ExitsInv, Closing
  <2>2. state'[t] = "x"
    BY <1>0, <1>10, <2>1, Heads DEF ResumeHead, PlacesInv, Queues
  <2>. QED
    BY <1>0, <1>5, <1>10, <2>1, <2>2 DEF Closing
<1>11. ASSUME Away(t), pc[t].step = "drain", pc'[t].step = "gone", UNCHANGED tasks
       PROVE  ExitsInv'
  <2>1. state[t] = "x" /\ freeTask = t
    BY <1>3, <1>11 DEF ExitsInv, Closing
  <2>. QED
    BY <1>0, <1>5, <1>11, <2>1 DEF Away, tasks, Closing
<1>. QED
  BY <1>0, <1>6, <1>7, <1>8, <1>9, <1>10, <1>11, LifeKinds DEF Lives

\* The invariant of the ends is inductive if no quantum ends inside task_exit.
LEMMA ExitsInductive ==
    ASSUME Closing \subseteq Quiet
    PROVE  PlacesInv /\ ExitsInv /\ [Next]_vars => ExitsInv'
<1>. SUFFICES ASSUME PlacesInv, ExitsInv, [Next]_vars PROVE ExitsInv'
  OBVIOUS
<1>0. TypeOK /\ OnCpu /\ OnePlaceEach /\ TasksOK
  BY DEF PlacesInv, TypeOK
<1>1. ASSUME NEW t \in Threads, Task(t) PROVE ExitsInv'
  BY <1>1, ExitsTask
<1>2. ASSUME NEW t \in Threads, Dispatch(t) PROVE ExitsInv'
  <2>1. state[t] = "r" /\ (\A u \in Threads : state'[u] = IF u = t THEN "e" ELSE state[u])
    BY <1>0, <1>2 DEF Dispatch, OnePlaceEach, TasksOK
  <2>2. \A u \in Threads : pc[u].step \notin Closing
    BY <1>2, ThreadsDiffer DEF ExitsInv, Dispatch
  <2>3. freeTask = None
    BY <1>2, <1>0, ThreadsDiffer DEF ExitsInv, Dispatch, TypeOK, LifeOK
  <2>. QED
    BY <1>2, <2>1, <2>2, <2>3 DEF ExitsInv, Dispatch, life, Closing
<1>3. ASSUME NEW t \in Threads, Wake(t) PROVE ExitsInv'
  <2>1. state[t] = "s" /\ (\A u \in Threads : state'[u] = IF u = t THEN "r" ELSE state[u])
    BY <1>0, <1>3 DEF Wake, OnePlaceEach, TasksOK
  <2>. QED
    BY <1>3, <2>1 DEF ExitsInv, Wake, life, cpu, Closing
<1>4. ASSUME NEW t \in Tasks, Preempt(t) PROVE ExitsInv'
  <2>1. t \in Threads /\ taskExec = t /\ pc[t].step \notin Closing
    BY <1>4 DEF Preempt, Threads
  <2>2. freeTask = None /\ \A u \in Threads : pc[u].step \notin Closing
    BY <1>0, <2>1, OneEnding
  <2>3. state[t] # "x" /\ pc[t].step # "gone"
    BY <2>1, <2>2 DEF ExitsInv, Closing
  <2>4. \A u \in Threads : state'[u] = "x" <=> state[u] = "x"
    BY <1>0, <1>4, <2>3 DEF Preempt, Requeue, TasksOK
  <2>5. taskExec' = Disp /\ freed' = freed /\ freeTask' = None /\ pc' = pc
    BY <1>4, <2>2 DEF Preempt, ToDispatcher
  <2>. QED
    BY <2>1, <2>2, <2>3, <2>4, <2>5, ThreadsDiffer DEF ExitsInv, Closing
<1>5. CASE UNCHANGED <<pc, state, taskExec, freeTask, freed>>
  BY <1>5 DEF ExitsInv
<1>. QED
  BY <1>1, <1>2, <1>3, <1>4, <1>5 DEF Next, Finish, Ended, vars, cpu, tasks, life

\* The invariant of the ends holds for ever.
LEMMA ExitsAlways ==
    ASSUME Closing \subseteq Quiet PROVE Spec => []ExitsInv
<1>1. Init => ExitsInv
  BY DEF Init, ExitsInv, Closing
<1>2. PlacesInv /\ ExitsInv /\ [Next]_vars => ExitsInv'
  BY ExitsInductive
<1>. QED
  BY <1>1, <1>2, PlacesAlways, PTL DEF Spec

-----------------------------------------------------------------------------
\* countTasks counts the dispatcher and the tasks created and not yet through the
\* critical region of task_exit; main is subtracted when it ends.
Living == {t \in Tasks : state[t] # "n" /\ pc[t].step \notin Past}
CountExact ==
    countTasks = 1 + Cardinality(Living) - (IF pc[Main].step \in Past THEN 1 ELSE 0)

\* The dispatcher ends the process when its count is used up.
EndsAtZero == halted /\ taskExec = Disp => countTasks <= 0

\* The living tasks can be counted.
LEMMA LivingFinite == IsFiniteSet(Living) /\ Cardinality(Living) \in Nat
<1>1. Living \subseteq Tasks
  BY DEF Living
<1>2. IsFiniteSet(Living)
  BY <1>1, ThreadsDiffer, FS_Subset
<1>. QED
  BY <1>2, FS_CardinalityType

\* A step counts a task in when it creates it, out when it ends, and else nothing.
LEMMA CountKinds ==
    ASSUME TypeOK, StepsFit, NEW t \in Threads, Task(t)
    PROVE  \/ /\ countTasks' = countTasks + 1 /\ Op(t) = "create" /\ pc[t].step = "start"
              /\ pc'[t].step = "start" /\ \E u \in Tasks : Created(u) /\ Ins(t) = <<"create", u, 0>>
           \/ /\ countTasks' = countTasks - 1 /\ pc[t].step = "start"
              /\ pc'[t].step = "exiting" /\ UNCHANGED state
           \/ /\ countTasks' = countTasks /\ Op(t) # "create"
              /\ pc[t].step \in Past <=> pc'[t].step \in Past
<1>0. PcOK /\ TasksOK /\ CpuOK /\ pc[t].at \in DOMAIN prog.script[t]
  BY Running DEF TypeOK
<1>1. CASE Create(t)
  <2>1. pc'[t].step = "start"
    BY <1>0, <1>1 DEF Create, Next1, Goto, MoveTo, PcOK
  <2>2. prog.script[t] \in Seq(Instr)
    BY <1>0, ProgramShape DEF CpuOK
  <2>3. Arg(t) \in Tasks /\ Ins(t) \in Instr /\ Op(t) = "create" /\ pc[t].step = "start"
    BY <1>0, <1>1, <2>2, Operands DEF Create, At, Ins
  <2>4. Ins(t) = <<"create", Arg(t), 0>>
    BY <2>3 DEF Op, Arg, Instr
  <2>. QED
    BY <1>1, <2>1, <2>3, <2>4 DEF Create, Created
<1>2. CASE Exit(t)
  <2>1. pc'[t].step = "exiting"
    BY <1>0, <1>2 DEF Exit, Step, MoveTo, PcOK
  <2>. QED
    BY <1>2, <2>1 DEF Exit, At, tasks
<1>3. CASE ~Create(t) /\ ~Exit(t)
  <2>1. countTasks' = countTasks
    BY <1>3 DEF Task, Yield, Join, Sleep, SwitchOut, Return, SemCreate, DownTest, DownRegion, Up,
       Destroy, DestroyLoop, BarrierArrive, BarrierRelease, MqueueFlag, Exiting, ExitDrain,
       ExitSwitch, Halt, Compute, life
  <2>2. Op(t) # "create"
    BY <1>3 DEF Task, Yield, Join, Sleep, SwitchOut, Return, SemCreate, DownTest, DownRegion, Up,
       Destroy, DestroyLoop, BarrierArrive, BarrierRelease, MqueueFlag, Exiting, ExitDrain,
       ExitSwitch, Halt, Compute, At
  <2>3. ~(pc[t].step = "start" /\ pc'[t].step = "exiting")
    <3>1. ASSUME NEW n, NEW s, MoveTo(t, n, s), s # "exiting" PROVE pc'[t].step # "exiting"
      BY <1>0, <3>1 DEF MoveTo, PcOK
    <3>2. CASE UNCHANGED pc \/ Exiting(t) \/ ExitDrain(t) \/ ExitSwitch(t) \/ Halt(t)
      BY <3>2 DEF Exiting, ExitDrain, ExitSwitch, Halt, At
    <3>3. CASE Yield(t) \/ SwitchOut(t) \/ Join(t) \/ Sleep(t) \/ Return(t) \/ SemCreate(t)
      BY <3>1, <3>3 DEF Yield, SwitchOut, Join, Sleep, Return, SemCreate, SuspendOn, Next1, Goto,
         Step
    <3>4. CASE DownTest(t) \/ DownRegion(t) \/ Up(t) \/ Destroy(t) \/ BarrierArrive(t)
               \/ MqueueFlag(t) \/ Compute(t)
      BY <3>1, <3>4 DEF DownTest, DownRegion, Up, Destroy, BarrierArrive, MqueueFlag, Compute,
         SuspendOn, Next1, Goto, Step
    <3>5. CASE DestroyLoop(t) \/ BarrierRelease(t)
      BY <3>5 DEF DestroyLoop, BarrierRelease, At
    <3>. QED
      BY <1>3, <3>2, <3>3, <3>4, <3>5 DEF Task
  <2>4. pc[t].step \in Past <=> pc'[t].step \in Past
    <3>1. Exited(t) => pc[t].step = "exiting" /\ pc'[t].step = "drain"
      BY DEF Exited
    <3>2. CASE Alive(t)
      BY <3>2 DEF Alive, Closing, Past
    <3>3. CASE ~Alive(t)
      <4>1. \/ pc[t].step \in {"start", "yield"} /\ pc'[t].step \in {"start", "back"}
            \/ Exited(t)
            \/ pc' = pc
            \/ pc[t].step = "drain" /\ pc'[t].step = "gone"
        BY <2>3, <3>3, LifeKinds DEF Lives
      <4>. QED
        BY <3>1, <4>1 DEF Past
    <3>. QED
      BY <3>2, <3>3
  <2>. QED
    BY <2>1, <2>2, <2>4
<1>. QED
  BY <1>1, <1>2, <1>3

\* A thread that runs is not new afterwards.
LEMMA NeverNewAgain ==
    ASSUME PlacesInv, NEW t \in Threads, Task(t) PROVE state'[t] # "n"
<1>0. TypeOK /\ OnCpu /\ taskExec = t /\ state \in [Threads -> {"n", "r", "e", "s", "x"}]
  BY Running DEF PlacesInv, TypeOK, TasksOK
<1>1. state[t] # "n"
  BY <1>0 DEF OnCpu
<1>2. ASSUME NEW q \in Queues, Suspended(t, q) PROVE state'[t] # "n"
  BY <1>0, <1>2 DEF Suspended
<1>3. ASSUME NEW q \in Queues, Resumed(t, q) PROVE state'[t] # "n"
  BY <1>0, <1>1, <1>3 DEF Resumed, ResumeHead
<1>4. ASSUME NEW v \in Tasks, Created(v) PROVE state'[t] # "n"
  BY <1>0, <1>1, <1>4 DEF Created
<1>5. ASSUME NEW q \in Semaphores, Cleared(t, q) PROVE state'[t] # "n"
  BY <1>1, <1>5 DEF Cleared
<1>6. ASSUME Unmoved \/ Slept(t) \/ Left(t) \/ Exited(t) PROVE state'[t] # "n"
  BY <1>0, <1>1, <1>6 DEF Unmoved, Slept, Left, Exited, Requeue, tasks
<1>7. \/ Unmoved \/ Slept(t) \/ Left(t) \/ Exited(t)
      \/ \E q \in Queues : Suspended(t, q) \/ Resumed(t, q)
      \/ \E v \in Tasks : Created(v)
      \/ \E q \in Semaphores : Cleared(t, q)
  BY <1>0, Effects DEF Calm
<1>. QED
  BY <1>2, <1>3, <1>4, <1>5, <1>6, <1>7

\* A step keeps the count of the living.
LEMMA CountTask ==
    ASSUME PlacesInv, ExitsInv, CountExact, NEW t \in Threads, Task(t) PROVE CountExact'
<1>0. TypeOK /\ StepsFit /\ OnCpu /\ taskExec = t /\ PcOK /\ CpuOK
      /\ state \in [Threads -> {"n", "r", "e", "s", "x"}]
      /\ Main \in Threads /\ Tasks \subseteq Threads /\ Main \notin Tasks
      /\ countTasks \in Int
  BY Running, ThreadsDiffer DEF PlacesInv, TypeOK, TasksOK, Threads, LifeOK
<1>1. \A u \in Threads \ {t} : pc'[u] = pc[u]
  BY <1>0, Moved
<1>2. state[t] # "n" /\ state'[t] # "n"
  BY <1>0, NeverNewAgain DEF OnCpu
<1>3. \A u \in Threads \ {t} :
        /\ state'[u] # "n" => state[u] # "n" \/ Ins(t) = <<"create", u, 0>>
        /\ state[u] # "n" => state'[u] # "n"
  BY OthersEnd
<1>4. ASSUME countTasks' = countTasks + 1, pc[t].step = "start", pc'[t].step = "start",
             NEW v \in Tasks, Created(v), Ins(t) = <<"create", v, 0>>
      PROVE  CountExact'
  <2>1. state[v] = "n" /\ v # t /\ v \in Threads
    BY <1>0, <1>2, <1>4, NewOne DEF PlacesInv
  <2>2. pc[v].step \notin Past
    BY <1>0, <2>1 DEF ExitsInv, Past, Closing
  <2>3. \A u \in Threads : u # v => Ins(t) # <<"create", u, 0>>
    BY <1>4
  <2>4. state'[v] = "r"
    BY <1>0, <1>4, <2>1 DEF Created
  <2>5. Living' = Living \cup {v} /\ v \notin Living
    BY <1>0, <1>1, <1>2, <1>3, <1>4, <2>1, <2>2, <2>3, <2>4 DEF Living, Past
  <2>6. Cardinality(Living') = Cardinality(Living) + 1
    BY <2>5, LivingFinite, FS_AddElement
  <2>7. pc'[Main].step \in Past <=> pc[Main].step \in Past
    BY <1>0, <1>1, <1>4 DEF Past
  <2>. QED
    BY <1>0, <1>4, <2>6, <2>7, LivingFinite DEF CountExact
<1>5. ASSUME countTasks' = countTasks - 1, pc[t].step = "start", pc'[t].step = "exiting",
             UNCHANGED state
      PROVE  CountExact'
  <2>1. CASE t = Main
    <3>1. Living' = Living
      BY <1>0, <1>1, <1>5, <2>1 DEF Living
    <3>. QED
      BY <1>0, <1>5, <2>1, <3>1, LivingFinite DEF CountExact, Past
  <2>2. CASE t # Main
    <3>1. t \in Tasks
      BY <2>2 DEF Threads
    <3>2. Living' = Living \ {t} /\ t \in Living
      BY <1>0, <1>1, <1>2, <1>5, <3>1 DEF Living, Past
    <3>3. Cardinality(Living') = Cardinality(Living) - 1
      BY <3>2, LivingFinite, FS_RemoveElement
    <3>4. pc'[Main] = pc[Main]
      BY <1>0, <1>1, <2>2
    <3>. QED
      BY <1>0, <1>5, <3>3, <3>4, LivingFinite DEF CountExact
  <2>. QED
    BY <2>1, <2>2
<1>6. ASSUME countTasks' = countTasks, Op(t) # "create",
             pc[t].step \in Past <=> pc'[t].step \in Past
      PROVE  CountExact'
  <2>1. \A u \in Threads : Ins(t) # <<"create", u, 0>>
    BY <1>6 DEF Op
  <2>2. \A u \in Threads : (state'[u] # "n" <=> state[u] # "n")
                        /\ (pc'[u].step \in Past <=> pc[u].step \in Past)
    BY <1>1, <1>2, <1>3, <1>6, <2>1
  <2>3. Living' = Living
    BY <1>0, <2>2 DEF Living
  <2>. QED
    BY <1>0, <1>6, <2>2, <2>3 DEF CountExact
<1>. QED
  BY <1>0, <1>4, <1>5, <1>6, CountKinds

\* The count is inductive, and only a used-up count ends the dispatcher's loop.
LEMMA CountInductive ==
    PlacesInv /\ ExitsInv /\ CountExact /\ EndsAtZero /\ [Next]_vars => CountExact' /\ EndsAtZero'
<1>. SUFFICES ASSUME PlacesInv, ExitsInv, CountExact, EndsAtZero, [Next]_vars
              PROVE  CountExact' /\ EndsAtZero'
  OBVIOUS
<1>0. OnCpu /\ OnePlaceEach /\ TasksOK /\ Tasks \subseteq Threads
  BY DEF PlacesInv, TypeOK, Threads
<1>1. ASSUME NEW t \in Threads, Task(t) PROVE CountExact' /\ EndsAtZero'
  <2>1. taskExec = t /\ t # Disp /\ ~halted
    BY <1>1, Running, ThreadsDiffer
  <2>2. halted' = halted \/ taskExec' = taskExec
    BY <1>1 DEF Task, Create, Yield, Join, Sleep, SwitchOut, Return, SemCreate, DownTest,
       DownRegion, Up, Destroy, DestroyLoop, BarrierArrive, BarrierRelease, MqueueFlag, Exit,
       Exiting, ExitDrain, ExitSwitch, Halt, Compute, Stay, SuspendOn, ToDispatcher
  <2>. QED
    BY <1>1, <2>1, <2>2, CountTask DEF EndsAtZero
<1>2. ASSUME UNCHANGED <<pc, countTasks>>,
             \A u \in Threads : state'[u] # "n" <=> state[u] # "n"
      PROVE  CountExact'
  <2>1. Living' = Living
    BY <1>0, <1>2 DEF Living
  <2>. QED
    BY <1>2, <2>1 DEF CountExact
<1>3. ASSUME NEW t \in Threads, Dispatch(t) PROVE CountExact' /\ EndsAtZero'
  <2>1. \A u \in Threads : state'[u] # "n" <=> state[u] # "n"
    BY <1>0, <1>3 DEF Dispatch, OnePlaceEach, TasksOK
  <2>. QED
    BY <1>2, <1>3, <2>1 DEF Dispatch, life, EndsAtZero
<1>4. ASSUME NEW t \in Threads, Wake(t) PROVE CountExact' /\ EndsAtZero'
  <2>1. \A u \in Threads : state'[u] # "n" <=> state[u] # "n"
    BY <1>0, <1>4 DEF Wake, OnePlaceEach, TasksOK
  <2>. QED
    BY <1>2, <1>4, <2>1 DEF Wake, life, cpu, EndsAtZero
<1>5. ASSUME NEW t \in Tasks, Preempt(t) PROVE CountExact' /\ EndsAtZero'
  <2>1. \A u \in Threads : state'[u] # "n" <=> state[u] # "n"
    BY <1>0, <1>5 DEF Preempt, Requeue, OnCpu, TasksOK
  <2>. QED
    BY <1>2, <1>5, <2>1 DEF Preempt, ToDispatcher, EndsAtZero
<1>6. CASE Finish
  BY <1>2, <1>6 DEF Finish, tasks, life, EndsAtZero
<1>7. CASE Ended \/ UNCHANGED vars
  BY <1>2, <1>7 DEF Ended, vars, cpu, tasks, life, EndsAtZero
<1>. QED
  BY <1>1, <1>3, <1>4, <1>5, <1>6, <1>7 DEF Next

\* When the count is used up nobody is left.
LEMMA NothingLeft ==
    ASSUME PlacesInv, ExitsInv, CountExact, EndsAtZero PROVE NothingLeftAtTheEnd
<1>1. SUFFICES ASSUME halted, taskExec = Disp
               PROVE  /\ \A t \in Threads : state[t] \in {"n", "x"}
                      /\ readyQueue \cup sleepQueue = {} /\ \A q \in Queues : queue[q] = <<>>
  BY DEF NothingLeftAtTheEnd
<1>2. countTasks <= 0 /\ countTasks \in Int
  BY <1>1 DEF EndsAtZero, PlacesInv, TypeOK, LifeOK
<1>3. pc[Main].step \in Past /\ Cardinality(Living) = 0
  BY <1>2, LivingFinite DEF CountExact
<1>4. Living = {}
  BY <1>3, LivingFinite, FS_EmptySet
<1>5. \A t \in Threads : pc[t].step \in Past => state[t] = "x"
  BY <1>1, ThreadsDiffer DEF ExitsInv, Past, Closing
<1>6. \A t \in Threads : state[t] \in {"n", "x"}
  BY <1>3, <1>4, <1>5 DEF Living, Threads
<1>7. readyQueue \cup sleepQueue = {}
  BY <1>6 DEF PlacesInv, TypeOK, TasksOK, OnePlaceEach
<1>8. \A q \in Queues : queue[q] = <<>>
  <2>1. ASSUME NEW q \in Queues, queue[q] # <<>> PROVE FALSE
    <3>1. Head(queue[q]) \in Threads /\ state[Head(queue[q])] = "s"
      BY <2>1, Heads DEF PlacesInv
    <3>. QED
      BY <1>6, <3>1
  <2>. QED
    BY <2>1
<1>. QED
  BY <1>6, <1>7, <1>8

\* If no quantum ends in task_exit, the dispatcher's loop ends only when every task has ended.
THEOREM LastTask ==
    ASSUME {"exiting", "drain"} \subseteq Quiet PROVE Spec => []NothingLeftAtTheEnd
<1>1. Init => CountExact /\ EndsAtZero
  <2>1. SUFFICES ASSUME Init PROVE CountExact /\ EndsAtZero
    OBVIOUS
  <2>2. Living = {}
    BY <2>1, ThreadsDiffer DEF Init, Living, Threads
  <2>3. pc[Main].step \notin Past /\ countTasks = 1 /\ ~halted
    BY <2>1 DEF Init, Past, Threads
  <2>. QED
    BY <2>2, <2>3, FS_EmptySet DEF CountExact, EndsAtZero
<1>2. Spec => []ExitsInv
  BY ExitsAlways DEF Closing
<1>. QED
  BY <1>1, <1>2, NothingLeft, CountInductive, PlacesAlways, PTL DEF Spec

-----------------------------------------------------------------------------
\* A step leads to the next instruction, to where a jump goes, or stays; from a
\* barrier it does not start again.
LEMMA Goes ==
    ASSUME TypeOK, NEW t \in Threads, Task(t)
    PROVE  /\ \/ pc'[t].at = pc[t].at
              \/ pc'[t].at = pc[t].at + 1
              \/ Op(t) \in {"down", "test", "goto", "again"} /\ pc'[t].at = Num(t)
           /\ Op(t) = "barrier_join" =>
                \/ pc'[t].at = pc[t].at /\ pc'[t].step # "start"
                \/ pc'[t].at = pc[t].at + 1
                \/ pc'[t] = pc[t]
<1>1. \A n, s : MoveTo(t, n, s) => pc'[t].at = n /\ pc'[t].step = s
  BY DEF MoveTo, TypeOK, PcOK
<1>2. CASE Create(t) \/ SemCreate(t) \/ Yield(t) \/ Up(t)
  BY <1>1, <1>2 DEF Create, SemCreate, Yield, Up, Next1, Goto
<1>3. CASE Join(t) \/ DownRegion(t) \/ BarrierArrive(t)
  BY <1>1, <1>3 DEF Join, DownRegion, BarrierArrive, SuspendOn, Next1, Goto, Step
<1>4. CASE Sleep(t) \/ SwitchOut(t)
  BY <1>1, <1>4 DEF Sleep, SwitchOut, Next1, Goto, Step
<1>5. CASE Return(t)
  BY <1>1, <1>5 DEF Return, At, Goto
<1>6. CASE DownTest(t)
  BY <1>1, <1>6 DEF DownTest, At, Goto, Step
<1>7. CASE Destroy(t) \/ DestroyLoop(t) \/ BarrierRelease(t)
  BY <1>1, <1>7 DEF Destroy, DestroyLoop, BarrierRelease, At, Next1, Goto, Step
<1>8. CASE MqueueFlag(t) \/ Compute(t)
  BY <1>1, <1>8 DEF MqueueFlag, Compute, At, Next1, Goto
<1>9. CASE Exit(t) \/ Exiting(t) \/ ExitDrain(t) \/ ExitSwitch(t) \/ Halt(t)
  BY <1>1, <1>9 DEF Exit, Exiting, ExitDrain, ExitSwitch, Halt, At, Step
<1>. QED
  BY <1>2, <1>3, <1>4, <1>5, <1>6, <1>7, <1>8, <1>9 DEF Task

\* What a step does to a barrier: nothing, unless it is of a thread at it.
LEMMA BarrierSteps ==
    ASSUME PlacesInv, NEW t \in Threads, Task(t), NEW b \in Barriers
    PROVE  \/ value'[b] = value[b] /\ queue'[b] = queue[b]
           \/ BarrierArrive(t) /\ Arg(t) = b
           \/ BarrierRelease(t) /\ Arg(t) = b
<1>0. /\ TypeOK /\ b \in Queues /\ b \notin Semaphores /\ b \notin Threads
      /\ value \in [Semaphores \cup Barriers -> Int] /\ queue \in [Queues -> Seq(Threads)]
      /\ pc[t].at \in DOMAIN prog.script[t] /\ CpuOK
  BY Running, QueuesDiffer DEF PlacesInv, TypeOK, SyncOK, TasksOK, Queues
<1>1. /\ Op(t) \in {"create", "join"} => Arg(t) \in Tasks
      /\ Op(t) \in {"sem_create", "down", "up", "sem_destroy"} => Arg(t) \in Semaphores
  BY <1>0, Operands
<1>2. \A q \in Queues : q # b /\ (SuspendOn(t, q) \/ ResumeHead(q)) => queue'[b] = queue[b]
  BY <1>0 DEF SuspendOn, ResumeHead
<1>3. Arg(t) \in Tasks \cup Semaphores => Arg(t) \in Queues /\ Arg(t) # b
  BY <1>0 DEF Queues, Threads
<1>4. CASE Create(t) \/ SemCreate(t)
  BY <1>0, <1>1, <1>3, <1>4 DEF Create, SemCreate, At, sync
<1>5. CASE Join(t) \/ DownRegion(t) \/ Up(t) \/ DestroyLoop(t)
  BY <1>0, <1>1, <1>2, <1>3, <1>5 DEF Join, DownRegion, Up, DestroyLoop, At, sync, tasks
<1>6. CASE ExitDrain(t)
  BY <1>0, <1>2, <1>6 DEF ExitDrain, sync, Queues
<1>7. CASE Yield(t) \/ Sleep(t) \/ SwitchOut(t) \/ Return(t) \/ DownTest(t) \/ Destroy(t)
           \/ MqueueFlag(t) \/ Exit(t) \/ Exiting(t) \/ ExitSwitch(t) \/ Halt(t) \/ Compute(t)
  BY <1>7 DEF Yield, Sleep, SwitchOut, Return, DownTest, Destroy, MqueueFlag, Exit, Exiting,
     ExitSwitch, Halt, Compute, sync, tasks
<1>8. CASE BarrierArrive(t) \/ BarrierRelease(t)
  <2>1. Arg(t) \in Barriers
    BY <1>0, <1>8, Operands DEF BarrierArrive, BarrierRelease, At
  <2>2. Arg(t) # b => value'[b] = value[b]
    BY <1>0, <1>8, <2>1 DEF BarrierArrive, BarrierRelease
  <2>3. Arg(t) # b => queue'[b] = queue[b]
    BY <1>0, <1>2, <1>8, <2>1 DEF BarrierArrive, BarrierRelease, tasks, Queues
  <2>. QED
    BY <1>8, <2>2, <2>3
<1>. QED
  BY <1>4, <1>5, <1>6, <1>7, <1>8 DEF Task

\* t waits at barrier b.
AtBarrier(t, b) ==
    /\ pc[t].step \in {"yield", "back"} /\ Comes(t, b, pc[t].at)
    /\ state[t] = "s" /\ \E j \in DOMAIN queue[b] : queue[b][j] = t

Came(b) == {t \in Partners(b) : Arrived(t, b)}

\* Either everybody has come to b, or those who have are counted and wait.
Meeting(b) ==
    \/ Came(b) = Partners(b)
    \/ value[b] = Cardinality(Came(b)) /\ \A t \in Came(b) : AtBarrier(t, b)

MeetInv == \A b \in Barriers : OneMeeting(b) => Meeting(b)

\* A partner that comes once has come when it is past its instruction or inside it.
LEMMA WhenArrived ==
    ASSUME TypeOK, StepsFit, NEW b \in Barriers, OneMeeting(b), NEW t \in Partners(b)
    PROVE  \E i \in DOMAIN prog.script[t] :
              /\ i \in Nat /\ Comes(t, b, i)
              /\ \A j \in DOMAIN prog.script[t] : Comes(t, b, j) => j = i
              /\ Arrived(t, b) <=> pc[t].at > i \/ (pc[t].at = i /\ pc[t].step # "start")
              /\ \A j \in DOMAIN prog.script[t] :
                    prog.script[t][j][1] \in {"down", "test", "goto", "again"} =>
                      (j < i <=> prog.script[t][j][3] <= i)
<1>1. t \in Threads /\ prog.script[t] \in Seq(Instr) /\ pc[t].at \in Nat
  BY ProgramShape DEF Partners, TypeOK, CpuOK, PcOK
<1>2. PICK i \in DOMAIN prog.script[t] : Comes(t, b, i)
  BY DEF Partners
<1>3. i \in Nat /\ \A j \in DOMAIN prog.script[t] : j \in Nat
  BY <1>1
<1>4. \A j \in DOMAIN prog.script[t] :
         /\ Comes(t, b, j) => j = i
         /\ prog.script[t][j][1] \in {"down", "test", "goto", "again"} =>
              (j < i <=> prog.script[t][j][3] <= i)
  BY <1>2 DEF OneMeeting
<1>5. pc[t].step # "start" => pc[t].at \in DOMAIN prog.script[t]
  BY <1>1 DEF StepsFit
<1>6. Passed(t, b) <=> pc[t].at > i
  BY <1>1, <1>2, <1>3, <1>4 DEF Passed
<1>7. Arrived(t, b) <=> pc[t].at > i \/ (pc[t].at = i /\ pc[t].step # "start")
  BY <1>2, <1>4, <1>5, <1>6 DEF Arrived
<1>. QED
  BY <1>2, <1>3, <1>4, <1>7

\* Where a thread stands when it arrives at a barrier or releases one.
LEMMA BarrierPlace ==
    ASSUME CpuOK, NEW t \in Threads, BarrierArrive(t) \/ BarrierRelease(t), NEW b, Arg(t) = b
    PROVE  /\ Comes(t, b, pc[t].at) /\ pc[t].at \in DOMAIN prog.script[t] /\ t \in Partners(b)
           /\ BarrierArrive(t) => pc[t].step = "start"
           /\ BarrierRelease(t) => pc[t].step = "release"
<1>1. pc[t].at \in DOMAIN prog.script[t] /\ Op(t) = "barrier_join"
      /\ (BarrierArrive(t) => pc[t].step = "start")
      /\ (BarrierRelease(t) => pc[t].step = "release")
  BY DEF BarrierArrive, BarrierRelease, At
<1>2. prog.script[t] \in Seq(Instr)
  BY ProgramShape DEF CpuOK
<1>3. Ins(t) \in Instr
  BY <1>1, <1>2 DEF Ins
<1>4. Ins(t) = <<"barrier_join", b, 0>>
  BY <1>1, <1>3 DEF Instr, Op, Arg
<1>. QED
  BY <1>1, <1>4 DEF Comes, Partners, Ins

\* The first step of barrier_join is to arrive.
LEMMA BarrierStart ==
    ASSUME NEW t \in Threads, Task(t), Op(t) = "barrier_join", pc[t].step = "start"
    PROVE  BarrierArrive(t)
BY DEF Task, Create, Yield, Join, Sleep, SwitchOut, Return, SemCreate, DownTest, DownRegion, Up,
   Destroy, DestroyLoop, BarrierRelease, MqueueFlag, Exit, Exiting, ExitDrain, ExitSwitch, Halt,
   Compute, At

\* Arriving, a thread goes into the operation.
LEMMA BarrierEntered ==
    ASSUME TypeOK, NEW t \in Threads, BarrierArrive(t)
    PROVE  pc'[t].at = pc[t].at /\ pc'[t].step \in {"release", "yield"}
BY DEF BarrierArrive, SuspendOn, Step, MoveTo, TypeOK, PcOK

\* Who has come stays so, and nobody comes but by arriving at the barrier.
LEMMA ComingStep ==
    ASSUME PlacesInv, PlacesInv', NEW b \in Barriers, OneMeeting(b), NEW t \in Threads, Task(t)
    PROVE  /\ OneMeeting(b)' /\ Partners(b)' = Partners(b)
           /\ \A u \in Threads \ {t} : Arrived(u, b)' <=> Arrived(u, b)
           /\ t \in Partners(b) /\ Arrived(t, b) => Arrived(t, b)'
           /\ t \in Partners(b) /\ ~Arrived(t, b) /\ Arrived(t, b)' =>
                BarrierArrive(t) /\ Arg(t) = b
           /\ BarrierArrive(t) /\ Arg(t) = b => t \in Partners(b) /\ ~Arrived(t, b) /\ Arrived(t, b)'
<1>1. prog' = prog /\ pc[t].at \in DOMAIN prog.script[t] /\ TypeOK /\ StepsFit
      /\ TypeOK' /\ StepsFit' /\ prog \in Programs
  BY Running DEF PlacesInv, TypeOK, CpuOK
<1>2. OneMeeting(b)' /\ Partners(b)' = Partners(b)
      /\ \A u \in Threads : \A i : Comes(u, b, i)' <=> Comes(u, b, i)
  BY <1>1 DEF OneMeeting, Partners, Comes
<1>3. \A u \in Threads \ {t} : pc'[u] = pc[u]
  BY <1>1, Moved DEF TypeOK
<1>4. \A u \in Threads \ {t} : Arrived(u, b)' <=> Arrived(u, b)
  BY <1>1, <1>2, <1>3 DEF Arrived, Passed
<1>5. ASSUME t \in Partners(b)
      PROVE  /\ Arrived(t, b) => Arrived(t, b)'
             /\ ~Arrived(t, b) /\ Arrived(t, b)' => BarrierArrive(t) /\ Arg(t) = b
             /\ BarrierArrive(t) /\ Arg(t) = b => ~Arrived(t, b) /\ Arrived(t, b)'
  <2> DEFINE S == prog.script[t]
             n == pc[t].at
             m == pc'[t].at
  <2>1. PICK i \in DOMAIN S :
           /\ i \in Nat /\ Comes(t, b, i)
           /\ \A j \in DOMAIN S : Comes(t, b, j) => j = i
           /\ Arrived(t, b) <=> n > i \/ (n = i /\ pc[t].step # "start")
           /\ \A j \in DOMAIN S :
                 S[j][1] \in {"down", "test", "goto", "again"} => (j < i <=> S[j][3] <= i)
    BY <1>1, <1>5, WhenArrived
  <2>2. n \in DOMAIN S /\ n \in Nat /\ m \in Nat
    BY <1>1 DEF TypeOK, PcOK
  <2>3. Arrived(t, b)' <=> m > i \/ (m = i /\ pc'[t].step # "start")
    <3>1. Passed(t, b)' <=> m > i
      BY <1>1, <1>2, <2>1, <2>2 DEF Passed
    <3>2. pc'[t].step # "start" => m \in DOMAIN S
      BY <1>1 DEF StepsFit
    <3>3. Comes(t, b, pc[t].at)' <=> Comes(t, b, m)
      BY <1>1 DEF Comes
    <3>. QED
      BY <2>1, <3>1, <3>2, <3>3 DEF Arrived
  <2>4. Comes(t, b, n) <=> n = i
    BY <2>1, <2>2
  <2>5. n = i => Op(t) = "barrier_join" /\ Arg(t) = b
    BY <2>4 DEF Comes, Op, Arg, Ins
  <2>6. Op(t) \in {"down", "test", "goto", "again"} => Num(t) \in Nat /\ (n < i <=> Num(t) <= i)
    BY <1>1, <2>1, <2>2, Operands DEF Op, Num, Ins, TypeOK
  <2>7. /\ m = n \/ m = n + 1 \/ (Op(t) \in {"down", "test", "goto", "again"} /\ m = Num(t))
        /\ Op(t) = "barrier_join" =>
             (m = n /\ pc'[t].step # "start") \/ m = n + 1 \/ pc'[t] = pc[t]
    BY <1>1, Goes
  <2>8. pc'[t] = pc[t] \/ pc'[t].step = "start" \/ m = n
    BY <1>1, Moved DEF TypeOK
  <2>12. n # i => ~(BarrierArrive(t) /\ Arg(t) = b)
    BY <1>1, <2>4, BarrierPlace DEF TypeOK
  <2>9. CASE n > i
    <3>1. m > i
      BY <2>1, <2>2, <2>6, <2>7, <2>9
    <3>. QED
      BY <2>1, <2>2, <2>3, <2>9, <2>12, <3>1
  <2>10. CASE n < i
    <3>1. m < i \/ (m = i /\ pc'[t].step = "start")
      BY <2>1, <2>2, <2>6, <2>7, <2>8, <2>10
    <3>. QED
      BY <2>1, <2>2, <2>3, <2>10, <2>12, <3>1
  <2>11. CASE n = i
    <3>1. CASE pc[t].step # "start"
      <4>1. ~BarrierArrive(t)
        BY <3>1, <1>1, BarrierPlace DEF TypeOK
      <4>. QED
        BY <2>1, <2>2, <2>3, <2>5, <2>7, <2>11, <3>1, <4>1
    <3>2. CASE pc[t].step = "start"
      <4>1. BarrierArrive(t) /\ Arg(t) = b
        BY <2>5, <2>11, <3>2, BarrierStart
      <4>2. m = n /\ pc'[t].step # "start"
        BY <4>1, <1>1, BarrierEntered
      <4>. QED
        BY <2>1, <2>2, <2>3, <2>11, <3>2, <4>1, <4>2
    <3>. QED
      BY <3>1, <3>2
  <2>. QED
    BY <2>2, <2>1, <2>9, <2>10, <2>11
<1>6. BarrierArrive(t) /\ Arg(t) = b => t \in Partners(b)
  BY <1>1, BarrierPlace DEF TypeOK
<1>. QED
  BY <1>2, <1>4, <1>5, <1>6

\* A thread that waits at a barrier goes on waiting unless its queue loses somebody.
LEMMA AtBarrierStays ==
    ASSUME PlacesInv, PlacesInv', NEW b \in Barriers, NEW u \in Threads, AtBarrier(u, b),
           prog' = prog, NEW t,
           queue'[b] = queue[b] \/ queue'[b] = Append(queue[b], t),
           pc'[u].at = pc[u].at, pc'[u].step \in {"yield", "back"}
    PROVE  AtBarrier(u, b)'
<1>1. PICK j \in DOMAIN queue[b] : queue[b][j] = u
  BY DEF AtBarrier
<1>2. b \in Queues /\ queue[b] \in Seq(Threads) /\ OnePlaceEach'
  BY DEF PlacesInv, TypeOK, TasksOK, Queues
<1>3. j \in DOMAIN queue'[b] /\ queue'[b][j] = u
  BY <1>1, <1>2
<1>4. state'[u] = "s"
  BY <1>2, <1>3 DEF OnePlaceEach
<1>. QED
  BY <1>3, <1>4 DEF AtBarrier, Comes

\* So it does when another thread runs, and when it leaves the CPU itself.
LEMMA AtBarrierTask ==
    ASSUME PlacesInv, PlacesInv', NEW t \in Threads, Task(t),
           NEW b \in Barriers, NEW u \in Threads, AtBarrier(u, b),
           queue'[b] = queue[b] \/ queue'[b] = Append(queue[b], t)
    PROVE  AtBarrier(u, b)'
<1>1. TypeOK /\ StepsFit /\ OnCpu /\ taskExec = t /\ prog' = prog
  BY Running DEF PlacesInv
<1>2. state[u] = "s" /\ pc[u].step \in {"yield", "back"}
  BY DEF AtBarrier
<1>3. pc'[u].at = pc[u].at /\ pc'[u].step \in {"yield", "back"}
  <2>1. CASE u = t
    <3>1. pc[t].step = "yield"
      BY <1>1, <1>2, <2>1 DEF OnCpu
    <3>. QED
      BY <1>1, <2>1, <3>1, YieldsBack
  <2>2. CASE u # t
    BY <1>1, <1>2, <2>2, Moved DEF TypeOK
  <2>. QED
    BY <2>1, <2>2
<1>. QED
  BY <1>1, <1>3, AtBarrierStays

\* The partners of a barrier are finitely many.
LEMMA PartnersFinite ==
    ASSUME NEW b PROVE IsFiniteSet(Partners(b)) /\ IsFiniteSet(Came(b)) /\ Came(b) \subseteq Partners(b)
<1>1. IsFiniteSet(Threads)
  <2>1. IsFiniteSet({Main}) /\ IsFiniteSet(Tasks)
    BY ThreadsDiffer, FS_Singleton
  <2>. QED
    BY <2>1, FS_Union DEF Threads
<1>2. Partners(b) \subseteq Threads /\ Came(b) \subseteq Partners(b)
  BY DEF Partners, Came
<1>. QED
  BY <1>1, <1>2, FS_Subset

\* A step keeps the count of those who have come to a barrier, or is the last arrival.
LEMMA MeetTask ==
    ASSUME PlacesInv, PlacesInv', MeetInv, NEW t \in Threads, Task(t) PROVE MeetInv'
<1>0. TypeOK /\ CpuOK /\ prog' = prog
  BY Running DEF PlacesInv, TypeOK
<1>1. SUFFICES ASSUME NEW b \in Barriers, OneMeeting(b)' PROVE Meeting(b)'
  BY DEF MeetInv
<1>2. OneMeeting(b)
  BY <1>0, <1>1 DEF OneMeeting, Partners, Comes
<1>3. Meeting(b)
  BY <1>2 DEF MeetInv
<1>4. /\ Partners(b)' = Partners(b)
      /\ \A u \in Threads \ {t} : Arrived(u, b)' <=> Arrived(u, b)
      /\ t \in Partners(b) /\ Arrived(t, b) => Arrived(t, b)'
      /\ t \in Partners(b) /\ ~Arrived(t, b) /\ Arrived(t, b)' =>
           BarrierArrive(t) /\ Arg(t) = b
      /\ BarrierArrive(t) /\ Arg(t) = b => t \in Partners(b) /\ ~Arrived(t, b) /\ Arrived(t, b)'
  BY <1>2, ComingStep
<1>5. Partners(b) \subseteq Threads
  BY DEF Partners
<1>6. Came(b)' = {u \in Partners(b) : Arrived(u, b)'}
  BY <1>4 DEF Came
<1>7. CASE Came(b) = Partners(b)
  <2>1. Came(b)' = Partners(b)
    BY <1>4, <1>5, <1>6, <1>7 DEF Came
  <2>. QED
    BY <1>4, <2>1 DEF Meeting
<1>8. CASE /\ value[b] = Cardinality(Came(b)) /\ \A u \in Came(b) : AtBarrier(u, b)
           /\ BarrierArrive(t) /\ Arg(t) = b
  <2>1. Came(b)' = Came(b) \cup {t} /\ t \notin Came(b)
    BY <1>4, <1>5, <1>6, <1>8 DEF Came
  <2>2. Cardinality(Came(b)') = Cardinality(Came(b)) + 1
    BY <2>1, PartnersFinite, FS_AddElement
  <2>3. value'[b] = value[b] + 1
    BY <1>0, <1>8 DEF BarrierArrive, TypeOK, SyncOK
  <2>4. CASE value[b] + 1 = prog.parties
    <3>1. Cardinality(Came(b)') = Cardinality(Partners(b))
      BY <1>2, <1>8, <2>2, <2>4 DEF OneMeeting
    <3>2. Came(b)' \subseteq Partners(b)
      BY <1>6
    <3>3. Came(b)' = Partners(b)
      BY <3>1, <3>2, PartnersFinite, FS_Subset
    <3>. QED
      BY <1>4, <3>3 DEF Meeting
  <2>5. CASE value[b] + 1 # prog.parties
    <3>1. SuspendOn(t, b)
      BY <1>8, <2>5 DEF BarrierArrive
    <3>2. b \in Queues /\ queue[b] \in Seq(Threads)
      BY <1>0 DEF TypeOK, TasksOK, Queues
    <3>3. queue'[b] = Append(queue[b], t) /\ state'[t] = "s"
      BY <1>0, <3>1, <3>2 DEF SuspendOn, TypeOK, TasksOK
    <3>4. pc'[t].at = pc[t].at /\ pc'[t].step = "yield"
      BY <1>0, <3>1 DEF SuspendOn, Step, MoveTo, TypeOK, PcOK
    <3>5. Comes(t, b, pc[t].at)'
      BY <1>0, <1>8, <3>4, BarrierPlace DEF Comes
    <3>6. \E j \in DOMAIN queue'[b] : queue'[b][j] = t
      BY <3>2, <3>3
    <3>7. AtBarrier(t, b)'
      BY <3>3, <3>4, <3>5, <3>6 DEF AtBarrier
    <3>8. \A u \in Came(b) : AtBarrier(u, b)'
      BY <1>5, <1>8, <3>3, AtBarrierTask DEF Came
    <3>. QED
      BY <1>8, <2>1, <2>2, <2>3, <3>7, <3>8 DEF Meeting
  <2>. QED
    BY <2>4, <2>5
<1>9. CASE /\ value[b] = Cardinality(Came(b)) /\ \A u \in Came(b) : AtBarrier(u, b)
           /\ ~(BarrierArrive(t) /\ Arg(t) = b)
  <2>1. Came(b)' = Came(b)
    BY <1>4, <1>5, <1>6, <1>9 DEF Came
  <2>2. ~(BarrierRelease(t) /\ Arg(t) = b)
    <3>1. SUFFICES ASSUME BarrierRelease(t), Arg(t) = b PROVE FALSE
      OBVIOUS
    <3>2. t \in Partners(b) /\ pc[t].step = "release" /\ Comes(t, b, pc[t].at)
      BY <1>0, <3>1, BarrierPlace
    <3>3. t \in Came(b)
      BY <3>2 DEF Came, Arrived
    <3>. QED
      BY <1>9, <3>2, <3>3 DEF AtBarrier
  <2>3. value'[b] = value[b] /\ queue'[b] = queue[b]
    BY <1>9, <2>2, BarrierSteps
  <2>4. \A u \in Came(b) : AtBarrier(u, b)'
    BY <1>5, <1>9, <2>3, AtBarrierTask DEF Came
  <2>. QED
    BY <1>9, <2>1, <2>3, <2>4 DEF Meeting
<1>. QED
  BY <1>3, <1>7, <1>8, <1>9 DEF Meeting

\* The invariant of the meetings is inductive.
LEMMA MeetInductive == PlacesInv /\ PlacesInv' /\ MeetInv /\ [Next]_vars => MeetInv'
<1>. SUFFICES ASSUME PlacesInv, PlacesInv', MeetInv, [Next]_vars PROVE MeetInv'
  OBVIOUS
<1>1. ASSUME NEW t \in Threads, Task(t) PROVE MeetInv'
  BY <1>1, MeetTask
<1>2. ASSUME UNCHANGED <<prog, pc, value, queue>> PROVE MeetInv'
  <2>1. SUFFICES ASSUME NEW b \in Barriers, OneMeeting(b)' PROVE Meeting(b)'
    BY DEF MeetInv
  <2>2. OneMeeting(b) /\ Partners(b)' = Partners(b) /\ Came(b)' = Came(b)
    BY <1>2, <2>1 DEF OneMeeting, Partners, Came, Arrived, Passed, Comes
  <2>3. Partners(b) \subseteq Threads
    BY DEF Partners
  <2>4. \A u \in Threads : AtBarrier(u, b) => AtBarrier(u, b)'
    <3>1. SUFFICES ASSUME NEW u \in Threads, AtBarrier(u, b) PROVE AtBarrier(u, b)'
      OBVIOUS
    <3>2. pc'[u].at = pc[u].at /\ pc'[u].step \in {"yield", "back"}
          /\ queue'[b] = queue[b] /\ prog' = prog
      BY <1>2, <3>1 DEF AtBarrier
    <3>. QED
      BY <3>1, <3>2, AtBarrierStays
  <2>5. Came(b) \subseteq Threads
    BY <2>3 DEF Came
  <2>. QED
    BY <1>2, <2>2, <2>4, <2>5 DEF MeetInv, Meeting
<1>. QED
  BY <1>1, <1>2 DEF Next, Dispatch, Wake, Preempt, ToDispatcher, Finish, Ended, vars, cpu, tasks,
     sync

\* Nobody passes a barrier before everybody has come to it, in any program that uses the
\* barrier for one meeting and whatever quanta end in between.
THEOREM BarrierMeets == Spec => []BarrierHolds
<1>1. Init => MeetInv
  <2>1. SUFFICES ASSUME Init, NEW b \in Barriers PROVE Meeting(b)
    BY DEF MeetInv
  <2>2. \A t \in Partners(b) : ~Arrived(t, b)
    <3>1. SUFFICES ASSUME NEW t \in Partners(b) PROVE ~Arrived(t, b)
      OBVIOUS
    <3>2. t \in Threads /\ pc[t].at = 1 /\ pc[t].step = "start" /\ prog.script[t] \in Seq(Instr)
      BY <2>1, ProgramShape DEF Init, Partners
    <3>. QED
      BY <3>2 DEF Arrived, Passed
  <2>3. Came(b) = {} /\ value[b] = 0
    BY <2>1, <2>2 DEF Came, Init
  <2>. QED
    BY <2>3, FS_EmptySet DEF Meeting
<1>2. PlacesInv /\ MeetInv => BarrierHolds
  <2>1. SUFFICES ASSUME PlacesInv, MeetInv, NEW b \in Barriers, OneMeeting(b),
                        NEW t \in Partners(b), Passed(t, b)
                 PROVE  Came(b) = Partners(b)
    BY DEF BarrierHolds, Came
  <2>2. t \in Came(b) /\ t \in Threads
    BY <2>1 DEF Came, Arrived, Partners
  <2>3. ~AtBarrier(t, b)
    <3>1. SUFFICES ASSUME AtBarrier(t, b) PROVE FALSE
      OBVIOUS
    <3>2. PICK i \in DOMAIN prog.script[t] : i < pc[t].at /\ Comes(t, b, i)
      BY <2>1 DEF Passed
    <3>3. Comes(t, b, pc[t].at) /\ pc[t].at \in DOMAIN prog.script[t]
      BY <2>1, <2>2, <3>1 DEF AtBarrier, PlacesInv, StepsFit
    <3>4. pc[t].at = i
      BY <2>1, <3>2, <3>3 DEF OneMeeting
    <3>5. pc[t].at \in Nat
      BY <2>1, <2>2 DEF PlacesInv, TypeOK, PcOK
    <3>. QED
      BY <3>2, <3>4, <3>5
  <2>. QED
    BY <2>1, <2>2, <2>3 DEF MeetInv, Meeting
<1>. QED
  BY <1>1, <1>2, MeetInductive, PlacesAlways, PTL DEF Spec
-----------------------------------------------------------------------------
\* All rings, those made of smaller ones included: the proof needs no smallest ones.
AllRings == [p \in Programs |-> {Marked(p, r) : r \in RingsOf(p)}]
Units(r) == Cardinality(Free(r)) + Cardinality(Holders(r)) + Content(r)
UnitsKept == \A r \in AllRings[prog] :
    (InUse => Units(r) = r.units) /\ (r.firm => Units(r) <= r.units)

\* What is known of a ring of the program that runs.
LEMMA RingFacts ==
    ASSUME CpuOK, NEW r \in AllRings[prog]
    PROVE  /\ r.sems \subseteq Sems(prog) /\ r.sems # {} /\ Sems(prog) \subseteq Semaphores
           /\ r.cell = None \/ r.cell \in Guarded[prog]
           /\ r.gain \in {1, -1}
           /\ Prepared(prog) /\ Closed(prog, r)
           /\ \A t \in Tasks : r.held[t] = Held(r, prog.script[t])
           /\ r.units = Cardinality(Supply(prog, r))
           /\ r.firm => Honest(prog, r) /\ (r.cell = None \/ r.cell \in Safe[prog])
<1>1. prog \in Programs
  BY DEF CpuOK
<1>2. PICK q \in RingsOf(prog) : r = Marked(prog, q)
  BY <1>1 DEF AllRings
<1>3. /\ q.sems \subseteq Sems(prog) /\ q.sems # {} /\ (q.cell = None \/ q.cell \in Guarded[prog])
      /\ q.gain \in {1, -1} /\ Prepared(prog) /\ Closed(prog, q)
  BY <1>2 DEF RingsOf
<1>4. /\ r.sems = q.sems /\ r.cell = q.cell /\ r.gain = q.gain
      /\ r.held = [t \in Tasks |-> Held(q, prog.script[t])]
      /\ r.units = Cardinality(Supply(prog, q))
      /\ r.firm => Honest(prog, q) /\ (q.cell = None \/ q.cell \in Safe[prog])
  BY <1>2 DEF Marked
<1>5. \A ins : (Takes(r, ins) <=> Takes(q, ins)) /\ (Gives(r, ins) <=> Gives(q, ins))
  BY <1>4 DEF Takes, Gives
<1>6. \A s : Held(r, s) = Held(q, s)
  BY <1>5 DEF Held
<1>7. Supply(prog, r) = Supply(prog, q)
  BY <1>4 DEF Supply
<1>8. Closed(prog, r)
  BY <1>3, <1>4, <1>5, <1>6 DEF Closed
<1>9. Honest(prog, r) <=> Honest(prog, q)
  BY <1>6 DEF Honest
<1>10. Sems(prog) \subseteq Semaphores
  <2>1. prog.script[Main] \in Seq(Instr)
    BY <1>1, ProgramShape DEF Threads
  <2>2. \A i \in Makes(prog) : prog.script[Main][i] \in Instr /\ prog.script[Main][i][1] = "sem_create"
    BY <2>1 DEF Makes
  <2>3. \A i \in Makes(prog) : prog.script[Main][i][2] \in Semaphores
    BY <2>2 DEF Instr
  <2>. QED
    BY <2>3 DEF Sems
<1>. QED
  BY <1>3, <1>4, <1>6, <1>7, <1>8, <1>9, <1>10

\* Behind an instruction that takes a unit it is held, behind one that gives it back it
\* is not, and behind any other as before it.
LEMMA HeldNext ==
    ASSUME NEW r, r.gain \in {1, -1}, NEW script, Len(script) \in Nat, NEW i \in 1 .. Len(script)
    PROVE  /\ Takes(r, script[i]) => i + 1 \in Held(r, script)
           /\ Gives(r, script[i]) => i + 1 \notin Held(r, script)
           /\ ~Takes(r, script[i]) /\ ~Gives(r, script[i]) =>
                (i + 1 \in Held(r, script) <=> i \in Held(r, script))
<1>1. i \in 1 .. Len(script) + 1 /\ i + 1 \in 1 .. Len(script) + 1 /\ i \in 1 .. (i + 1) - 1
  OBVIOUS
<1>2. Takes(r, script[i]) => ~Gives(r, script[i])
  BY DEF Takes, Gives
<1>3. Takes(r, script[i]) => i + 1 \in Held(r, script)
  <2>1. \A k \in i .. (i + 1) - 1 : k = i
    OBVIOUS
  <2>. QED
    BY <1>1, <1>2, <2>1 DEF Held
<1>4. Gives(r, script[i]) => i + 1 \notin Held(r, script)
  <2>1. \A j \in 1 .. (i + 1) - 1 : i \in j .. (i + 1) - 1
    OBVIOUS
  <2>. QED
    BY <2>1 DEF Held
<1>5. ASSUME ~Takes(r, script[i]), ~Gives(r, script[i])
      PROVE  i + 1 \in Held(r, script) <=> i \in Held(r, script)
  <2>1. \A j \in 1 .. (i + 1) - 1 : j # i => j \in 1 .. i - 1
    OBVIOUS
  <2>2. \A j \in 1 .. i - 1 : /\ j \in 1 .. (i + 1) - 1
                              /\ \A k \in j .. (i + 1) - 1 : k # i => k \in j .. i - 1
                              /\ \A k \in j .. i - 1 : k \in j .. (i + 1) - 1
    OBVIOUS
  <2>. QED
    BY <1>1, <1>5, <2>1, <2>2 DEF Held
<1>. QED
  BY <1>3, <1>4, <1>5

\* So it is for the instruction a task is at.
LEMMA HeldHere ==
    ASSUME TypeOK, NEW r \in AllRings[prog], NEW t \in Tasks, pc[t].at \in DOMAIN prog.script[t]
    PROVE  /\ Takes(r, Ins(t)) => pc[t].at \notin r.held[t] /\ pc[t].at + 1 \in r.held[t]
           /\ Gives(r, Ins(t)) => pc[t].at \in r.held[t] /\ pc[t].at + 1 \notin r.held[t]
           /\ ~Takes(r, Ins(t)) /\ ~Gives(r, Ins(t)) =>
                (pc[t].at + 1 \in r.held[t] <=> pc[t].at \in r.held[t])
           /\ Op(t) \in {"test", "goto", "again"} =>
                (Num(t) \in r.held[t] <=> pc[t].at \in r.held[t])
           /\ r.firm /\ Op(t) = "down" /\ Num(t) \in r.held[t] => pc[t].at \in r.held[t]
<1>1. /\ CpuOK /\ t \in Threads /\ prog.script[t] \in Seq(Instr)
      /\ r.gain \in {1, -1} /\ Closed(prog, r) /\ r.held[t] = Held(r, prog.script[t])
      /\ r.firm => Honest(prog, r)
  BY RingFacts, ProgramShape DEF TypeOK, CpuOK, Threads
<1>2. pc[t].at \in 1 .. Len(prog.script[t]) /\ Len(prog.script[t]) \in Nat
  BY <1>1
<1>3. /\ Takes(r, Ins(t)) => pc[t].at \notin r.held[t]
      /\ Gives(r, Ins(t)) => pc[t].at \in r.held[t]
      /\ Op(t) \in {"test", "goto", "again"} =>
           (Num(t) \in r.held[t] <=> pc[t].at \in r.held[t])
      /\ r.firm /\ Op(t) = "down" /\ Num(t) \in r.held[t] => pc[t].at \in r.held[t]
  BY <1>1 DEF Closed, Honest, Ins, Op, Num
<1>. QED
  BY <1>1, <1>2, <1>3, HeldNext DEF Ins

\* The steps that move a unit of a ring.
TakesUnit(t, r) ==
    \/ DownRegion(t) /\ Arg(t) \in r.sems /\ value[Arg(t)] > 0
    \/ Compute(t) /\ Op(t) = "store" /\ Takes(r, Ins(t))
GivesUnit(t, r) ==
    \/ Up(t) /\ Arg(t) \in r.sems
    \/ Compute(t) /\ Op(t) = "store" /\ Gives(r, Ins(t))

\* What the steps of sem_down do to the thread, and those of sem_up and of a store.
LEMMA DownSteps ==
    ASSUME TypeOK, OnCpu, NEW t \in Threads, Task(t), Op(t) = "down"
    PROVE  \/ DownTest(t) /\ pc[t].step = "start" /\ pc'[t].at = pc[t].at /\ pc'[t].step = "region"
           \/ /\ DownRegion(t) /\ value[Arg(t)] > 0 /\ pc[t].step = "region"
              /\ pc'[t].at = pc[t].at + 1 /\ pc'[t].step = "start"
           \/ /\ DownRegion(t) /\ ~(value[Arg(t)] > 0) /\ pc[t].step = "region"
              /\ pc'[t].at = pc[t].at /\ pc'[t].step = "yield" /\ state'[t] = "s"
           \/ /\ SwitchOut(t) /\ pc[t].step = "yield" /\ pc'[t].at = pc[t].at
              /\ pc'[t].step = "back" /\ (state'[t] = "s" <=> state[t] = "s")
           \/ /\ Return(t) /\ pc[t].step = "back" /\ state[t] # "s"
              /\ pc'[t].at = pc[t].at + 1 /\ pc'[t].step = "start" /\ active[Arg(t)]
           \/ /\ DownTest(t) \/ Return(t)
              /\ ~active[Arg(t)] /\ pc'[t].at = Num(t) /\ pc'[t].step = "start"
<1>0. PcOK /\ state \in [Threads -> {"n", "r", "e", "s", "x"}] /\ taskExec = t
      /\ pc[t].at \in DOMAIN prog.script[t]
  BY Running DEF TypeOK, TasksOK
<1>1. \A n, s : MoveTo(t, n, s) => pc'[t].at = n /\ pc'[t].step = s
  BY <1>0 DEF MoveTo, PcOK
<1>2. DownTest(t) \/ DownRegion(t) \/ SwitchOut(t) \/ Return(t)
  BY DEF Task, Create, Yield, Join, Sleep, SemCreate, Up, Destroy, DestroyLoop, BarrierArrive,
     BarrierRelease, MqueueFlag, Exit, Exiting, ExitDrain, ExitSwitch, Halt, Compute, At
<1>3. CASE DownTest(t)
  BY <1>1, <1>3 DEF DownTest, At, Step, Goto
<1>4. CASE DownRegion(t)
  <2>1. value[Arg(t)] \in Int
    BY <1>0, Operands DEF TypeOK, SyncOK
  <2>2. CASE value[Arg(t)] > 0
    BY <1>1, <1>4, <2>1, <2>2 DEF DownRegion, At, Next1, Goto
  <2>3. CASE ~(value[Arg(t)] > 0)
    BY <1>0, <1>1, <1>4, <2>1, <2>3 DEF DownRegion, At, SuspendOn, Step
  <2>. QED
    BY <2>2, <2>3
<1>5. CASE SwitchOut(t)
  BY <1>0, <1>1, <1>5 DEF SwitchOut, At, Step, Requeue
<1>6. CASE Return(t)
  <2>1. pc[t].step = "back"
    BY <1>6 DEF Return, At
  <2>2. state[t] # "s"
    BY <1>0, <2>1 DEF OnCpu
  <2>3. Goto(t, IF active[Arg(t)] THEN pc[t].at + 1 ELSE Num(t))
    BY <1>6 DEF Return, At
  <2>. QED
    BY <1>1, <1>6, <2>1, <2>2, <2>3 DEF Goto
<1>. QED
  BY <1>2, <1>3, <1>4, <1>5, <1>6

LEMMA UpStoreSteps ==
    ASSUME TypeOK, NEW t \in Threads, Task(t)
    PROVE  /\ Op(t) = "up" => Up(t)
           /\ Op(t) = "store" => Compute(t)
           /\ Up(t) => Op(t) = "up"
           /\ Op(t) \in {"up", "store"} =>
                pc[t].step = "start" /\ pc'[t].at = pc[t].at + 1 /\ pc'[t].step = "start"
<1>1. Op(t) = "up" => Up(t)
  BY DEF Task, Create, Yield, Join, Sleep, SwitchOut, Return, SemCreate, DownTest, DownRegion,
     Destroy, DestroyLoop, BarrierArrive, BarrierRelease, MqueueFlag, Exit, Exiting, ExitDrain,
     ExitSwitch, Halt, Compute, At
<1>2. Op(t) = "store" => Compute(t)
  BY DEF Task, Create, Yield, Join, Sleep, SwitchOut, Return, SemCreate, DownTest, DownRegion,
     Up, Destroy, DestroyLoop, BarrierArrive, BarrierRelease, MqueueFlag, Exit, Exiting,
     ExitDrain, ExitSwitch, Halt, At
<1>3. \A n, s : MoveTo(t, n, s) => pc'[t].at = n /\ pc'[t].step = s
  BY DEF MoveTo, TypeOK, PcOK
<1>4. Up(t) => Op(t) = "up" /\ pc[t].step = "start" /\ Next1(t)
  BY DEF Up, At
<1>5. Compute(t) /\ Op(t) = "store" => pc[t].step = "start" /\ Next1(t)
  BY DEF Compute, At
<1>. QED
  BY <1>1, <1>2, <1>3, <1>4, <1>5 DEF Next1, Goto

\* Of a task that runs: it gets a unit by taking one and loses it by giving it back, or
\* in a sem_down that fails.
LEMMA HasMover ==
    ASSUME PlacesInv, NEW r \in AllRings[prog], InUse \/ r.firm, NEW t \in Tasks, Task(t)
    PROVE  /\ TakesUnit(t, r) => ~Has(t, r) /\ Has(t, r)'
           /\ GivesUnit(t, r) => Has(t, r) /\ ~Has(t, r)'
           /\ ~TakesUnit(t, r) /\ ~GivesUnit(t, r) =>
                (Has(t, r)' => Has(t, r)) /\ (InUse /\ Has(t, r) => Has(t, r)')
<1>0. /\ TypeOK /\ OnCpu /\ CpuOK /\ t \in Threads /\ prog' = prog
      /\ pc[t].at \in DOMAIN prog.script[t] /\ pc[t].at \in Nat
  BY Running DEF PlacesInv, TypeOK, Threads, PcOK
<1>1. /\ Takes(r, Ins(t)) => pc[t].at \notin r.held[t] /\ pc[t].at + 1 \in r.held[t]
      /\ Gives(r, Ins(t)) => pc[t].at \in r.held[t] /\ pc[t].at + 1 \notin r.held[t]
      /\ ~Takes(r, Ins(t)) /\ ~Gives(r, Ins(t)) =>
           (pc[t].at + 1 \in r.held[t] <=> pc[t].at \in r.held[t])
      /\ Op(t) \in {"test", "goto", "again"} =>
           (Num(t) \in r.held[t] <=> pc[t].at \in r.held[t])
  BY <1>0, HeldHere
<1>2. pc'[t].at = pc[t].at => Op(t)' = Op(t) /\ Arg(t)' = Arg(t)
  BY <1>0, SameOps
<1>3. pc'[t] = pc[t] \/ pc'[t].step = "start" \/ pc'[t].at = pc[t].at
  BY <1>0, Moved DEF TypeOK
<1>4. Op(t) = "down" /\ ~active[Arg(t)] =>
        ~InUse /\ (Num(t) \in r.held[t] => pc[t].at \in r.held[t])
  <2>1. Prepared(prog) /\ (Op(t) = "down" => Arg(t) \in Sems(prog))
    BY <1>0, RingFacts DEF Prepared, Op, Arg, Ins
  <2>2. Op(t) = "down" /\ ~active[Arg(t)] => ~InUse /\ r.firm
    BY <2>1 DEF InUse
  <2>. QED
    BY <1>0, <2>2, HeldHere
<1>5. ASSUME Op(t) = "down", Arg(t) \in r.sems
      PROVE  /\ TakesUnit(t, r) => ~Has(t, r) /\ Has(t, r)'
             /\ ~TakesUnit(t, r) =>
                  (Has(t, r)' => Has(t, r)) /\ (InUse /\ Has(t, r) => Has(t, r)')
             /\ ~GivesUnit(t, r)
  <2>1. Takes(r, Ins(t)) /\ ~Up(t) /\ ~GivesUnit(t, r)
    BY <1>5, UpStoreSteps, <1>0 DEF Takes, Op, Arg, GivesUnit
  <2>2. TakesUnit(t, r) <=> DownRegion(t) /\ value[Arg(t)] > 0
    BY <1>5 DEF TakesUnit
  <2>3. Has(t, r) <=> pc[t].step \in {"yield", "back"} /\ state[t] # "s" /\ active[Arg(t)]
    BY <1>1, <1>5, <2>1 DEF Has
  <2>4. active' = active
    BY <1>0, <1>5, DownSteps DEF DownTest, DownRegion, SwitchOut, Return, sync
  <2>5. pc'[t].at = pc[t].at =>
          (Has(t, r)' <=> pc'[t].step \in {"yield", "back"} /\ state'[t] # "s" /\ active[Arg(t)])
    BY <1>1, <1>2, <1>5, <2>1, <2>4 DEF Has
  <2>6. pc'[t].at = pc[t].at + 1 => Has(t, r)'
    BY <1>1, <2>1 DEF Has
  <2>7. CASE /\ DownTest(t) \/ Return(t)
             /\ ~active[Arg(t)] /\ pc'[t].at = Num(t) /\ pc'[t].step = "start"
    <3>1. ~DownRegion(t)
      BY <2>7 DEF DownTest, Return, DownRegion, At
    <3>2. ~Has(t, r)'
      BY <1>1, <1>4, <1>5, <2>1, <2>7 DEF Has
    <3>. QED
      BY <1>4, <1>5, <2>1, <2>2, <2>7, <3>1, <3>2
  <2>8. CASE DownRegion(t)
    <3>1. pc[t].step = "region"
      BY <2>8 DEF DownRegion, At
    <3>2. ~DownTest(t) /\ ~SwitchOut(t) /\ ~Return(t)
      BY <3>1 DEF DownTest, SwitchOut, Return, At
    <3>. QED
      BY <1>0, <1>5, <2>1, <2>2, <2>3, <2>5, <2>6, <3>1, <3>2, DownSteps
  <2>9. CASE ~DownRegion(t) /\ pc'[t].at = pc[t].at
    BY <1>0, <1>5, <2>1, <2>2, <2>3, <2>5, <2>7, <2>9, DownSteps
  <2>10. CASE ~DownRegion(t) /\ Return(t) /\ pc[t].step = "back" /\ state[t] # "s"
              /\ pc'[t].at = pc[t].at + 1 /\ active[Arg(t)]
    BY <2>1, <2>2, <2>3, <2>6, <2>10
  <2>. QED
    BY <1>0, <1>5, <2>7, <2>8, <2>9, <2>10, DownSteps
<1>6. ASSUME ~(Op(t) = "down" /\ Arg(t) \in r.sems)
      PROVE  /\ Has(t, r) <=> pc[t].at \in r.held[t]
             /\ Has(t, r)' <=> pc'[t].at \in r.held[t]
  BY <1>2, <1>3, <1>6 DEF Has
<1>7. CASE Op(t) \in {"up", "store"}
  <2>1. pc'[t].at = pc[t].at + 1 /\ ~DownRegion(t) /\ (Op(t) = "store" => ~Up(t))
        /\ (Op(t) = "up" => Up(t)) /\ (Op(t) = "store" => Compute(t))
    BY <1>0, <1>7, UpStoreSteps DEF DownRegion, At
  <2>2. CASE Op(t) = "up"
    <3>1. /\ Gives(r, Ins(t)) <=> Arg(t) \in r.sems
          /\ ~Takes(r, Ins(t)) /\ ~TakesUnit(t, r)
          /\ GivesUnit(t, r) <=> Arg(t) \in r.sems
      BY <2>1, <2>2 DEF Gives, Takes, Op, Arg, TakesUnit, GivesUnit
    <3>. QED
      BY <1>1, <1>6, <2>1, <2>2, <3>1
  <2>3. CASE Op(t) = "store"
    <3>1. /\ TakesUnit(t, r) <=> Takes(r, Ins(t))
          /\ GivesUnit(t, r) <=> Gives(r, Ins(t))
      BY <2>1, <2>3 DEF TakesUnit, GivesUnit
    <3>. QED
      BY <1>1, <1>6, <2>1, <2>3, <3>1
  <2>. QED
    BY <1>7, <2>2, <2>3
<1>8. CASE Op(t) \notin {"up", "store"} /\ ~(Op(t) = "down" /\ Arg(t) \in r.sems)
  <2>1. ~Takes(r, Ins(t)) /\ ~Gives(r, Ins(t)) /\ ~TakesUnit(t, r) /\ ~GivesUnit(t, r)
    BY <1>8 DEF Takes, Gives, TakesUnit, GivesUnit, Op, Arg, DownRegion, Up, At
  <2>2. Op(t) = "down" => \/ pc'[t].at = pc[t].at \/ pc'[t].at = pc[t].at + 1
                          \/ ~active[Arg(t)] /\ pc'[t].at = Num(t)
    BY <1>0, DownSteps
  <2>3. \/ pc'[t].at = pc[t].at \/ pc'[t].at = pc[t].at + 1
        \/ Op(t) \in {"test", "goto", "again"} /\ pc'[t].at = Num(t)
        \/ Op(t) = "down" /\ ~active[Arg(t)] /\ pc'[t].at = Num(t)
    BY <1>0, <2>2, Goes
  <2>. QED
    BY <1>1, <1>4, <1>6, <1>8, <2>1, <2>3
<1>. QED
  BY <1>5, <1>7, <1>8

\* sem_up of a semaphore of the ring wakes the one that has waited longest.
HandsOver(t, r) == Up(t) /\ Arg(t) \in r.sems /\ active[Arg(t)] /\ value[Arg(t)] < 0

\* A step creates another thread, or resumes one that does not wait at a semaphore in
\* use, or is the sem_up it waits for, or leaves it as it is.
LEMMA OthersState ==
    ASSUME PlacesInv, Waiting, Freeing, NEW t \in Threads, Task(t), NEW u \in Threads \ {t}
    PROVE  \/ state'[u] = state[u]
           \/ state[u] = "n" /\ state'[u] = "r" /\ Create(t) /\ Arg(t) = u
           \/ /\ state[u] = "s" /\ state'[u] = "r" /\ pc[u].step \in {"yield", "back"}
              /\ \/ Op(u) # "down"
                 \/ ~active[Arg(u)]
                 \/ /\ Up(t) /\ Arg(t) = Arg(u) /\ active[Arg(t)] /\ value[Arg(t)] < 0
                    /\ queue[Arg(t)] # <<>> /\ u = Head(queue[Arg(t)])
<1>0. /\ TypeOK /\ StepsFit /\ OnePlaceEach /\ NotYet /\ CpuOK /\ u \in Threads
      /\ state \in [Threads -> {"n", "r", "e", "s", "x"}]
      /\ pc[t].at \in DOMAIN prog.script[t]
  BY Running DEF PlacesInv, TypeOK, TasksOK
<1>1. /\ Op(t) \in {"create", "join"} => Arg(t) \in Tasks
      /\ Op(t) \in {"sem_create", "down", "up", "sem_destroy"} => Arg(t) \in Semaphores
      /\ Op(t) = "barrier_join" => Arg(t) \in Barriers
  BY <1>0, Operands
<1>2. ASSUME NEW q \in Queues, ResumeHead(q), state'[u] # state[u]
      PROVE  /\ u = Head(queue[q]) /\ queue[q] # <<>>
             /\ state[u] = "s" /\ state'[u] = "r" /\ pc[u].step \in {"yield", "back"}
             /\ Arg(u) = q /\ (Op(u) = "down" => q \in Semaphores)
  <2>1. queue[q] # <<>> /\ u = Head(queue[q]) /\ state'[u] = "r"
    BY <1>0, <1>2, Heads DEF ResumeHead
  <2>2. state[u] = "s" /\ u = queue[q][1] /\ 1 \in DOMAIN queue[q]
    BY <1>0, <2>1, Heads
  <2>3. pc[u].step \in {"yield", "back"} /\ Arg(u) = q
    BY <2>2 DEF Waiting
  <2>4. pc[u].at \in DOMAIN prog.script[u]
    BY <1>0, <2>3 DEF StepsFit
  <2>. QED
    BY <1>0, <2>1, <2>2, <2>3, <2>4, Operands
<1>3. CASE Up(t)
  <2>1. Arg(t) \in Queues
    BY <1>1, <1>3 DEF Up, At, Queues
  <2>. QED
    BY <1>2, <1>3, <2>1 DEF Up, tasks
<1>4. CASE DestroyLoop(t)
  <2>1. Arg(t) \in Queues /\ ~active[Arg(t)]
    BY <1>1, <1>4 DEF DestroyLoop, At, Queues, Freeing
  <2>. QED
    BY <1>2, <1>4, <2>1 DEF DestroyLoop, tasks
<1>5. CASE BarrierRelease(t)
  <2>1. Arg(t) \in Queues /\ Arg(t) \notin Semaphores
    BY <1>1, <1>5, QueuesDiffer DEF BarrierRelease, At, Queues
  <2>. QED
    BY <1>2, <1>5, <2>1 DEF BarrierRelease, tasks
<1>6. CASE ExitDrain(t)
  <2>1. t \in Queues /\ t \notin Semaphores
    BY QueuesDiffer DEF Queues
  <2>. QED
    BY <1>2, <1>6, <2>1 DEF ExitDrain
<1>7. CASE Create(t)
  <2>1. state' = [state EXCEPT ![Arg(t)] = "r"] /\ Op(t) = "create"
    BY <1>7 DEF Create, At
  <2>2. CASE u = Arg(t)
    <3>1. Ins(t) = <<"create", u, 0>>
      <4>1. prog.script[t] \in Seq(Instr)
        BY <1>0, ProgramShape DEF CpuOK
      <4>2. Ins(t) \in Instr
        BY <1>0, <4>1 DEF Ins
      <4>. QED
        BY <2>1, <2>2, <4>2 DEF Instr, Op, Arg
    <3>2. u \in Tasks
      BY <1>1, <2>1, <2>2
    <3>. QED
      BY <1>0, <1>7, <2>1, <2>2, <3>1, <3>2, NewOne
  <2>3. CASE u # Arg(t)
    BY <1>0, <2>1, <2>3
  <2>. QED
    BY <2>2, <2>3
<1>8. CASE \/ Yield(t) \/ Join(t) \/ Sleep(t) \/ SwitchOut(t) \/ Return(t) \/ SemCreate(t)
           \/ DownTest(t) \/ DownRegion(t) \/ Destroy(t) \/ BarrierArrive(t) \/ MqueueFlag(t)
           \/ Exit(t) \/ Exiting(t) \/ ExitSwitch(t) \/ Halt(t) \/ Compute(t)
  BY <1>0, <1>8 DEF Yield, Join, Sleep, SwitchOut, Return, SemCreate, DownTest, DownRegion,
     Destroy, BarrierArrive, MqueueFlag, Exit, Exiting, ExitSwitch, Halt, Compute, SuspendOn,
     Requeue, tasks
<1>. QED
  BY <1>3, <1>4, <1>5, <1>6, <1>7, <1>8 DEF Task

\* What a step does to the values of the semaphores, to the cells and what is read of them.
LEMMA DataSteps ==
    ASSUME TypeOK, NEW t \in Threads, Task(t)
    PROVE  /\ \A s \in Semaphores :
                \/ value'[s] = value[s]
                \/ DownRegion(t) /\ Arg(t) = s
                \/ Up(t) /\ Arg(t) = s /\ active[s]
                \/ SemCreate(t) /\ Arg(t) = s
           /\ DownRegion(t) => value'[Arg(t)] = value[Arg(t)] - 1
           /\ Up(t) /\ active[Arg(t)] => value'[Arg(t)] = value[Arg(t)] + 1
           /\ \A s \in Semaphores : active'[s] /\ ~active[s] => SemCreate(t) /\ Arg(t) = s
           /\ cell' # cell => Compute(t) /\ Op(t) = "store"
           /\ Compute(t) /\ Op(t) = "store" =>
                reg' = reg /\ cell' = [cell EXCEPT ![Arg(t)] = reg[t] + Num(t)]
           /\ Compute(t) /\ Op(t) = "load" => reg'[t] = cell[Arg(t)] /\ cell' = cell
           /\ \A u \in Threads \ {t} : reg'[u] = reg[u]
<1>0. /\ value \in [Semaphores \cup Barriers -> Int] /\ reg \in [Threads -> Int] /\ CpuOK
      /\ active \in [Semaphores \cup Mqueues -> BOOLEAN]
      /\ pc[t].at \in DOMAIN prog.script[t] /\ Semaphores \cap (Barriers \cup Mqueues) = {}
  BY Running, QueuesDiffer DEF TypeOK, SyncOK, DataOK
<1>1. /\ Op(t) \in {"sem_create", "down", "up", "sem_destroy"} => Arg(t) \in Semaphores
      /\ Op(t) = "barrier_join" => Arg(t) \in Barriers
      /\ Op(t) \in {"open", "close"} => Arg(t) \in Mqueues
  BY <1>0, Operands
<1>2. CASE SemCreate(t)
  BY <1>0, <1>1, <1>2 DEF SemCreate, At, data, DownRegion, Up, Compute
<1>3. CASE DownRegion(t)
  BY <1>0, <1>1, <1>3 DEF SemCreate, At, data, DownRegion, Up, Compute
<1>4. CASE Up(t)
  BY <1>0, <1>1, <1>4 DEF SemCreate, At, data, DownRegion, Up, Compute
<1>5. CASE Destroy(t) \/ BarrierArrive(t) \/ BarrierRelease(t) \/ MqueueFlag(t)
  BY <1>0, <1>1, <1>5 DEF Destroy, BarrierArrive, BarrierRelease, MqueueFlag, At, data,
     DownRegion, Up, Compute
<1>6. CASE Compute(t)
  BY <1>0, <1>6 DEF Compute, DownRegion, Up, At, sync
<1>7. CASE \/ Create(t) \/ Yield(t) \/ Join(t) \/ Sleep(t) \/ SwitchOut(t) \/ Return(t)
           \/ DownTest(t) \/ DestroyLoop(t) \/ Exit(t) \/ Exiting(t) \/ ExitDrain(t)
           \/ ExitSwitch(t) \/ Halt(t)
  <2>1. UNCHANGED <<sync, data>> \/ UNCHANGED <<value, active, cell, reg>>
    BY <1>7 DEF Create, Yield, Join, Sleep, SwitchOut, Return, DownTest, DestroyLoop, Exit,
       Exiting, ExitDrain, ExitSwitch, Halt
  <2>2. ~DownRegion(t) /\ ~Up(t) /\ ~Compute(t)
    BY <1>7 DEF Create, Yield, Join, Sleep, SwitchOut, Return, DownTest, DestroyLoop, Exit,
       Exiting, ExitDrain, ExitSwitch, Halt, DownRegion, Up, Compute, At
  <2>. QED
    BY <2>1, <2>2 DEF sync, data
<1>. QED
  BY <1>2, <1>3, <1>4, <1>5, <1>6, <1>7 DEF Task

\* Of the others only the one that is handed a unit gets one, and none loses his while
\* the semaphores are in use.
LEMMA HasOthers ==
    ASSUME PlacesInv, Waiting, Freeing, SemaphoresExact, NEW r \in AllRings[prog],
           NEW t \in Threads, Task(t), ~SemCreate(t)
    PROVE  /\ \A u \in Tasks \ {t} : ~(HandsOver(t, r) /\ u = Head(queue[Arg(t)])) =>
                (Has(u, r)' => Has(u, r)) /\ (InUse' /\ Has(u, r) => Has(u, r)')
           /\ HandsOver(t, r) => \E h \in Tasks \ {t} :
                h = Head(queue[Arg(t)]) /\ ~Has(h, r) /\ Has(h, r)'
<1>0. /\ TypeOK /\ OnePlaceEach /\ OnCpu /\ StepsFit /\ CpuOK /\ prog' = prog /\ taskExec = t
      /\ pc[t].at \in DOMAIN prog.script[t] /\ (\A u \in Threads \ {t} : pc'[u] = pc[u])
      /\ state \in [Threads -> {"n", "r", "e", "s", "x"}]
  BY Running, Moved DEF PlacesInv, TypeOK, TasksOK
<1>1. /\ r.sems \subseteq Sems(prog) /\ Sems(prog) \subseteq Semaphores
      /\ \A s \in r.sems : active'[s] => active[s]
      /\ InUse' => \A s \in r.sems : active'[s]
  <2>1. r.sems \subseteq Sems(prog) /\ Sems(prog) \subseteq Semaphores
    BY <1>0, RingFacts
  <2>2. \A s \in Semaphores : active'[s] => active[s]
    BY <1>0, DataSteps
  <2>. QED
    BY <1>0, <2>1, <2>2 DEF InUse
<1>2. ASSUME NEW u \in Tasks \ {t}, ~(HandsOver(t, r) /\ u = Head(queue[Arg(t)]))
      PROVE  (Has(u, r)' => Has(u, r)) /\ (InUse' /\ Has(u, r) => Has(u, r)')
  <2>1. u \in Threads \ {t} /\ pc'[u] = pc[u]
    BY <1>0 DEF Threads
  <2>2. Op(u)' = Op(u) /\ Arg(u)' = Arg(u)
    BY <1>0, <2>1, SameOps
  <2>3. pc[u].step \in {"yield", "back"} /\ Op(u) = "down" /\ Arg(u) \in r.sems =>
          /\ active'[Arg(u)] /\ state'[u] # "s" => state[u] # "s"
          /\ state[u] # "s" => state'[u] # "s"
    BY <1>1, <1>2, <2>1, OthersState DEF HandsOver
  <2>. QED
    BY <1>1, <2>1, <2>2, <2>3 DEF Has
<1>3. ASSUME HandsOver(t, r), NEW h, h = Head(queue[Arg(t)])
      PROVE  h \in Tasks \ {t} /\ ~Has(h, r) /\ Has(h, r)'
  <2>1. Arg(t) \in r.sems /\ Arg(t) \in Semaphores /\ Arg(t) \in Queues /\ active[Arg(t)]
        /\ value[Arg(t)] < 0 /\ Up(t) /\ value[Arg(t)] \in Int /\ active' = active
    BY <1>0, <1>1, <1>3 DEF HandsOver, Queues, TypeOK, SyncOK, Up
  <2>2. queue[Arg(t)] # <<>>
    <3>1. Len(queue[Arg(t)]) = -value[Arg(t)]
      BY <2>1 DEF SemaphoresExact
    <3>. QED
      BY <2>1, <3>1
  <2>3. h \in Threads /\ state[h] = "s" /\ h = queue[Arg(t)][1] /\ 1 \in DOMAIN queue[Arg(t)]
    BY <1>0, <1>3, <2>1, <2>2, Heads
  <2>4. pc[h].step \in {"yield", "back"} /\ Op(h) \in {"join", "down", "barrier_join"}
        /\ Arg(h) = Arg(t)
    BY <2>1, <2>3 DEF Waiting
  <2>5. pc[h].at \in DOMAIN prog.script[h]
    BY <1>0, <2>3, <2>4 DEF StepsFit
  <2>6. Op(h) = "down"
    BY <1>0, <2>1, <2>3, <2>4, <2>5, Operands, QueuesDiffer DEF Threads
  <2>7. h # t
    BY <1>0, <2>1, <2>3 DEF OnCpu, Up, At
  <2>8. state'[h] = "r"
    <3>1. ResumeHead(Arg(t))
      BY <2>1 DEF Up
    <3>. QED
      BY <1>0, <1>3, <2>3, <3>1 DEF ResumeHead
  <2>9. h \in Tasks
    BY <1>0, <2>3, <2>5, <2>6, ProgramShape DEF Threads, CpuOK, Op, Ins
  <2>10. ~Has(h, r) /\ Has(h, r)'
    <3>1. Takes(r, Ins(h))
      BY <2>1, <2>4, <2>6 DEF Takes, Op, Arg
    <3>2. pc[h].at \notin r.held[h]
      BY <1>0, <2>5, <2>9, <3>1, HeldHere
    <3>3. pc'[h] = pc[h] /\ Op(h)' = Op(h) /\ Arg(h)' = Arg(h)
      BY <1>0, <2>3, <2>7, SameOps
    <3>. QED
      BY <2>1, <2>3, <2>4, <2>6, <2>8, <3>2, <3>3 DEF Has
  <2>. QED
    BY <2>7, <2>9, <2>10
<1>. QED
  BY <1>2, <1>3

\* The free units as pairs, and that they are finitely many.
LEMMA FreeIs ==
    ASSUME NEW S, NEW v, \A s \in S : v[s] \in Int
    PROVE  UNION {{s} \X (1 .. v[s]) : s \in S} =
             {x \in S \X Nat : 1 <= x[2] /\ x[2] <= v[x[1]]}
<1>1. ASSUME NEW s \in S, NEW n \in 1 .. v[s]
      PROVE  /\ <<s, n>> \in S \X Nat /\ 1 <= <<s, n>>[2]
             /\ <<s, n>>[2] <= v[<<s, n>>[1]]
  <2>1. v[s] \in Int
    OBVIOUS
  <2>. QED
    BY <2>1, <1>1
<1>2. ASSUME NEW x \in S \X Nat, 1 <= x[2], x[2] <= v[x[1]]
      PROVE  x[1] \in S /\ x[2] \in 1 .. v[x[1]] /\ x = <<x[1], x[2]>>
  <2>1. x[1] \in S /\ x[2] \in Nat /\ x = <<x[1], x[2]>>
    OBVIOUS
  <2>2. v[x[1]] \in Int
    BY <2>1
  <2>. QED
    BY <1>2, <2>1, <2>2
<1>. QED
  BY <1>1, <1>2

LEMMA UnitsFinite ==
    ASSUME CpuOK, NEW r \in AllRings[prog], NEW v, \A s \in r.sems : v[s] \in Int
    PROVE  LET U == UNION {{s} \X (1 .. v[s]) : s \in r.sems}
           IN  IsFiniteSet(U) /\ Cardinality(U) \in Nat
<1>1. r.sems \subseteq Sems(prog)
  BY RingFacts
<1>2. IsFiniteSet(Sems(prog))
  <2>1. prog.script[Main] \in Seq(Instr)
    BY ProgramShape DEF CpuOK, Threads
  <2>2. IsFiniteSet(Makes(prog))
    <3>1. IsFiniteSet(1 .. Len(prog.script[Main]))
      BY <2>1, FS_Interval
    <3>2. Makes(prog) \in SUBSET (1 .. Len(prog.script[Main]))
      BY <2>1 DEF Makes
    <3>. QED
      BY <3>1, <3>2, FS_Subset
  <2> DEFINE f == [i \in Makes(prog) |-> prog.script[Main][i][2]]
  <2>3. f \in Surjection(Makes(prog), Sems(prog))
    BY DEF Sems, Surjection
  <2>. QED
    BY <2>2, <2>3, FS_Surjection
<1>3. IsFiniteSet(r.sems)
  BY <1>1, <1>2, FS_Subset
<1> DEFINE g == [s \in r.sems |-> {s} \X (1 .. v[s])]
           G == {{s} \X (1 .. v[s]) : s \in r.sems}
<1>4. IsFiniteSet(G)
  <2>1. g \in Surjection(r.sems, G)
    BY DEF Surjection
  <2>. QED
    BY <1>3, <2>1, FS_Surjection
<1>5. \A T \in G : IsFiniteSet(T)
  <2>1. ASSUME NEW s \in r.sems PROVE IsFiniteSet({s} \X (1 .. v[s]))
    <3>1. v[s] \in Int
      OBVIOUS
    <3>2. IsFiniteSet({s})
      BY FS_Singleton
    <3>3. IsFiniteSet(1 .. v[s])
      BY <3>1, FS_Interval
    <3>. QED
      BY <3>2, <3>3, FS_Product
  <2>. QED
    BY <2>1
<1>6. IsFiniteSet(UNION G)
  BY <1>4, <1>5, FS_UNION
<1>. QED
  BY <1>6, FS_CardinalityType

LEMMA FreeFinite ==
    ASSUME TypeOK, NEW r \in AllRings[prog] PROVE IsFiniteSet(Free(r)) /\ Cardinality(Free(r)) \in Nat
<1>1. CpuOK /\ \A s \in r.sems : value[s] \in Int
  BY RingFacts DEF TypeOK, SyncOK
<1>. QED
  BY <1>1, UnitsFinite DEF Free

\* A unit that is taken from a semaphore or put back is one free unit less or more.
LEMMA FreeChanges ==
    ASSUME TypeOK, TypeOK', NEW r \in AllRings[prog], r.sems \subseteq Semaphores,
           NEW s \in r.sems, \A q \in r.sems \ {s} : value'[q] = value[q]
    PROVE  /\ value'[s] = value[s] - 1 /\ value[s] > 0 =>
                Cardinality(Free(r)') = Cardinality(Free(r)) - 1
           /\ value'[s] = value[s] + 1 /\ value[s] >= 0 =>
                Cardinality(Free(r)') = Cardinality(Free(r)) + 1
           /\ value[s] <= 0 /\ value'[s] <= 0 => Free(r)' = Free(r)
<1>1. \A q \in r.sems : value[q] \in Int /\ value'[q] \in Int
  BY DEF TypeOK, SyncOK
<1>2. /\ Free(r) = {x \in r.sems \X Nat : 1 <= x[2] /\ x[2] <= value[x[1]]}
      /\ Free(r)' = {x \in r.sems \X Nat : 1 <= x[2] /\ x[2] <= value'[x[1]]}
  BY <1>1, FreeIs DEF Free
<1>3. \A x \in r.sems \X Nat : /\ x[1] \in r.sems /\ x[2] \in Nat /\ x = <<x[1], x[2]>>
                               /\ x[1] # s => value'[x[1]] = value[x[1]]
  OBVIOUS
<1>4. IsFiniteSet(Free(r)) /\ Cardinality(Free(r)) \in Nat
  BY FreeFinite
<1>5. ASSUME value'[s] = value[s] - 1, value[s] > 0
      PROVE  Cardinality(Free(r)') = Cardinality(Free(r)) - 1
  <2> DEFINE u == <<s, value[s]>>
  <2>1. u \in Free(r)
    BY <1>1, <1>2, <1>5
  <2>2. \A x \in r.sems \X Nat : x[1] = s => (x[2] <= value'[s] <=> x[2] <= value[s] /\ x # u)
    BY <1>1, <1>3, <1>5
  <2>3. Free(r)' = Free(r) \ {u}
    BY <1>2, <1>3, <2>2
  <2>. QED
    BY <1>4, <2>1, <2>3, FS_RemoveElement
<1>6. ASSUME value'[s] = value[s] + 1, value[s] >= 0
      PROVE  Cardinality(Free(r)') = Cardinality(Free(r)) + 1
  <2> DEFINE u == <<s, value[s] + 1>>
  <2>1. u \notin Free(r) /\ u \in r.sems \X Nat /\ u[1] = s /\ u[2] = value[s] + 1
    BY <1>1, <1>2, <1>6
  <2>2. \A x \in r.sems \X Nat : x[1] = s => (x[2] <= value'[s] <=> x[2] <= value[s] \/ x = u)
    BY <1>1, <1>3, <1>6
  <2>3. Free(r)' = Free(r) \cup {u}
    BY <1>1, <1>2, <1>3, <1>6, <2>1, <2>2
  <2>. QED
    BY <1>4, <2>1, <2>3, FS_AddElement
<1>7. ASSUME value[s] <= 0, value'[s] <= 0 PROVE Free(r)' = Free(r)
  <2>1. \A x \in r.sems \X Nat : x[1] = s /\ 1 <= x[2] => ~(x[2] <= value'[s]) /\ ~(x[2] <= value[s])
    BY <1>1, <1>3, <1>7
  <2>. QED
    BY <1>2, <1>3, <2>1
<1>. QED
  BY <1>5, <1>6, <1>7

\* A step changes the number of holders by the unit it moves, if it changes nothing else.
LEMMA HoldersStep ==
    ASSUME PlacesInv, Waiting, Freeing, SemaphoresExact, NEW r \in AllRings[prog],
           InUse \/ r.firm, NEW t \in Threads, Task(t), ~SemCreate(t)
    PROVE  LET was == Cardinality(Holders(r))
               is == Cardinality(Holders(r)')
               n == IF TakesUnit(t, r) THEN was + 1
                    ELSE IF GivesUnit(t, r) /\ ~HandsOver(t, r) THEN was - 1 ELSE was
           IN  was \in Nat /\ is \in Nat /\ is <= n /\ (InUse /\ InUse' => is = n)
<1>0. CpuOK /\ TypeOK /\ pc[t].at \in DOMAIN prog.script[t] /\ prog \in Programs
  BY Running DEF PlacesInv, TypeOK, CpuOK
<1>1. TakesUnit(t, r) \/ GivesUnit(t, r) => t \in Tasks
  <2>1. TakesUnit(t, r) \/ GivesUnit(t, r) => Op(t) \in {"down", "store", "up"}
    BY DEF TakesUnit, GivesUnit, DownRegion, Up, At
  <2>2. Prepared(prog)
    BY <1>0, RingFacts
  <2>3. Op(Main) \notin {"down", "store", "up"} \/ t # Main
    BY <1>0, <2>2, ProgramShape DEF Prepared, Op, Ins
  <2>. QED
    BY <2>1, <2>3 DEF Threads
<1>2. /\ t \in Tasks /\ TakesUnit(t, r) => ~Has(t, r) /\ Has(t, r)'
      /\ t \in Tasks /\ GivesUnit(t, r) => Has(t, r) /\ ~Has(t, r)'
      /\ t \in Tasks /\ ~TakesUnit(t, r) /\ ~GivesUnit(t, r) =>
           (Has(t, r)' => Has(t, r)) /\ (InUse /\ Has(t, r) => Has(t, r)')
  BY HasMover
<1>3. /\ \A u \in Tasks \ {t} : ~(HandsOver(t, r) /\ u = Head(queue[Arg(t)])) =>
           (Has(u, r)' => Has(u, r)) /\ (InUse' /\ Has(u, r) => Has(u, r)')
      /\ HandsOver(t, r) => \E h \in Tasks \ {t} :
           h = Head(queue[Arg(t)]) /\ ~Has(h, r) /\ Has(h, r)'
  BY HasOthers
<1>4. HandsOver(t, r) => GivesUnit(t, r) /\ ~TakesUnit(t, r)
  BY DEF HandsOver, GivesUnit, TakesUnit, Up, DownRegion, At
<1>5. /\ IsFiniteSet(Holders(r)) /\ Cardinality(Holders(r)) \in Nat
      /\ IsFiniteSet(Holders(r)') /\ Cardinality(Holders(r)') \in Nat
  <2>1. Holders(r) \subseteq Tasks /\ Holders(r)' \subseteq Tasks
    BY DEF Holders
  <2>. QED
    BY <2>1, ThreadsDiffer, FS_Subset, FS_CardinalityType
<1>6. ASSUME NEW E, IsFiniteSet(E), Holders(r)' \subseteq E, InUse /\ InUse' => Holders(r)' = E
      PROVE  /\ Cardinality(Holders(r)') <= Cardinality(E)
             /\ InUse /\ InUse' => Cardinality(Holders(r)') = Cardinality(E)
  BY <1>6, FS_Subset
<1>7. CASE TakesUnit(t, r)
  <2> DEFINE E == Holders(r) \cup {t}
  <2>1. Holders(r)' \subseteq E /\ (InUse /\ InUse' => Holders(r)' = E) /\ t \notin Holders(r)
    BY <1>1, <1>2, <1>3, <1>4, <1>7 DEF Holders
  <2>2. IsFiniteSet(E) /\ Cardinality(E) = Cardinality(Holders(r)) + 1
    BY <1>5, <2>1, FS_AddElement
  <2>. QED
    BY <1>5, <1>6, <1>7, <2>1, <2>2
<1>8. CASE GivesUnit(t, r) /\ ~HandsOver(t, r) /\ ~TakesUnit(t, r)
  <2> DEFINE E == Holders(r) \ {t}
  <2>1. Holders(r)' \subseteq E /\ (InUse /\ InUse' => Holders(r)' = E) /\ t \in Holders(r)
    BY <1>1, <1>2, <1>3, <1>8 DEF Holders
  <2>2. IsFiniteSet(E) /\ Cardinality(E) = Cardinality(Holders(r)) - 1
    BY <1>5, <2>1, FS_RemoveElement
  <2>. QED
    BY <1>5, <1>6, <1>8, <2>1, <2>2
<1>9. CASE HandsOver(t, r)
  <2>1. PICK h \in Tasks \ {t} : h = Head(queue[Arg(t)]) /\ ~Has(h, r) /\ Has(h, r)'
    BY <1>3, <1>9
  <2> DEFINE D == Holders(r) \ {t}
             E == D \cup {h}
  <2>2. /\ Holders(r)' \subseteq E /\ (InUse /\ InUse' => Holders(r)' = E)
        /\ t \in Holders(r) /\ h \notin D
    BY <1>1, <1>2, <1>3, <1>4, <1>9, <2>1 DEF Holders
  <2>3. IsFiniteSet(D) /\ Cardinality(D) = Cardinality(Holders(r)) - 1
    BY <1>5, <2>2, FS_RemoveElement
  <2>4. IsFiniteSet(E) /\ Cardinality(E) = Cardinality(D) + 1
    BY <2>2, <2>3, FS_AddElement
  <2>5. Cardinality(E) = Cardinality(Holders(r))
    BY <1>5, <2>3, <2>4
  <2>. QED
    BY <1>4, <1>5, <1>6, <1>9, <2>2, <2>4, <2>5
<1>10. CASE ~TakesUnit(t, r) /\ ~GivesUnit(t, r)
  <2>1. Holders(r)' \subseteq Holders(r) /\ (InUse /\ InUse' => Holders(r)' = Holders(r))
    BY <1>2, <1>3, <1>4, <1>10 DEF Holders
  <2>. QED
    BY <1>4, <1>5, <1>6, <1>10, <2>1
<1>. QED
  BY <1>7, <1>8, <1>9, <1>10

\* A step moves units round: it makes none, and keeps their number while the semaphores
\* are in use.
LEMMA UnitsStep ==
    ASSUME PlacesInv, PlacesInv', Waiting, Freeing, SemaphoresExact, NoUpdateLost,
           NEW r \in AllRings[prog], InUse \/ r.firm, NEW t \in Threads, Task(t), ~SemCreate(t)
    PROVE  Units(r)' <= Units(r) /\ (InUse /\ InUse' => Units(r)' = Units(r))
<1>0. /\ TypeOK /\ TypeOK' /\ CpuOK /\ pc[t].at \in DOMAIN prog.script[t] /\ prog \in Programs
      /\ value \in [Semaphores \cup Barriers -> Int] /\ cell \in [Cells -> Int]
      /\ reg \in [Threads -> Int] /\ prog' = prog
  BY Running DEF PlacesInv, TypeOK, CpuOK, SyncOK, DataOK
<1>1. /\ r.sems \subseteq Sems(prog) /\ r.sems \subseteq Semaphores
      /\ r.cell = None \/ r.cell \in (IF InUse THEN Guarded[prog] ELSE Safe[prog])
      /\ r.cell = None \/ r.cell \in Cells
      /\ r.gain \in {1, -1} /\ Closed(prog, r) /\ Prepared(prog)
  BY <1>0, RingFacts DEF Guarded
<1> DEFINE H == Cardinality(Holders(r))
           F == Cardinality(Free(r))
           C == Content(r)
<1>2. /\ H \in Nat /\ H' \in Nat
      /\ TakesUnit(t, r) => H' <= H + 1 /\ (InUse /\ InUse' => H' = H + 1)
      /\ GivesUnit(t, r) /\ ~TakesUnit(t, r) /\ ~HandsOver(t, r) =>
           H' <= H - 1 /\ (InUse /\ InUse' => H' = H - 1)
      /\ ~TakesUnit(t, r) /\ (HandsOver(t, r) \/ ~GivesUnit(t, r)) =>
           H' <= H /\ (InUse /\ InUse' => H' = H)
  BY HoldersStep
<1>3. F \in Nat /\ F' \in Nat
  <2>1. r \in AllRings[prog']
    BY <1>0
  <2>2. Cardinality(Free(r)') \in Nat
    <3>1. \A s \in r.sems : value'[s] \in Int
      BY <1>0, <1>1 DEF TypeOK, SyncOK
    <3>. QED
      BY <1>0, <3>1, UnitsFinite DEF Free
  <2>. QED
    BY <1>0, <2>2, FreeFinite
<1>4. C \in Int
  BY <1>0, <1>1 DEF Content
<1>5. \A s \in r.sems : \/ value'[s] = value[s]
                        \/ DownRegion(t) /\ Arg(t) = s
                        \/ Up(t) /\ Arg(t) = s /\ active[s]
  BY <1>0, <1>1, DataSteps
<1>6. ASSUME cell' = cell PROVE C' = C
  BY <1>6 DEF Content
<1>u. Units(r) = F + H + C /\ Units(r)' = F' + H' + C'
  BY DEF Units
<1>7. CASE DownRegion(t) /\ Arg(t) \in r.sems
  <2>1. Op(t) = "down" /\ ~Up(t) /\ ~Compute(t)
    BY <1>7 DEF DownRegion, Up, Compute, At
  <2>2. C' = C /\ value'[Arg(t)] = value[Arg(t)] - 1 /\ value[Arg(t)] \in Int
    BY <1>0, <1>1, <1>6, <1>7, <2>1, DataSteps
  <2>3. \A q \in r.sems \ {Arg(t)} : value'[q] = value[q]
    BY <1>5, <2>1
  <2>4. ~GivesUnit(t, r) /\ ~HandsOver(t, r) /\ (TakesUnit(t, r) <=> value[Arg(t)] > 0)
    BY <1>7, <2>1 DEF GivesUnit, HandsOver, TakesUnit
  <2>5. /\ value[Arg(t)] > 0 => F' = F - 1
        /\ value[Arg(t)] <= 0 => F' = F
    BY <1>0, <1>1, <1>7, <2>2, <2>3, FreeChanges
  <2>6. CASE value[Arg(t)] > 0
    <3>1. F' = F - 1 /\ H' <= H + 1 /\ (InUse /\ InUse' => H' = H + 1)
      BY <1>2, <2>4, <2>5, <2>6
    <3>2. H \in Nat /\ H' \in Nat /\ F \in Nat /\ F' \in Nat /\ C \in Int /\ C' = C
      BY <1>2, <1>3, <1>4, <2>2
    <3>3. F' + H' + C' <= F + H + C
      BY <3>1, <3>2
    <3>4. H' = H + 1 => F' + H' + C' = F + H + C
      BY <3>1, <3>2
    <3>. QED
      BY <1>u, <3>1, <3>3, <3>4
  <2>7. CASE ~(value[Arg(t)] > 0)
    <3>1. value[Arg(t)] <= 0
      BY <2>2, <2>7
    <3>2. F' = F /\ H' <= H /\ (InUse /\ InUse' => H' = H)
      BY <1>2, <2>4, <2>5, <2>7, <3>1
    <3>. QED
      BY <1>u, <1>2, <1>3, <1>4, <2>2, <3>2
  <2>. QED
    BY <2>6, <2>7
<1>8. CASE Up(t) /\ Arg(t) \in r.sems /\ active[Arg(t)]
  <2>1. Op(t) = "up" /\ ~DownRegion(t) /\ ~Compute(t)
    BY <1>8 DEF DownRegion, Up, Compute, At
  <2>3. C' = C /\ value'[Arg(t)] = value[Arg(t)] + 1 /\ value[Arg(t)] \in Int
    BY <1>0, <1>1, <1>6, <1>8, <2>1, DataSteps
  <2>4. \A q \in r.sems \ {Arg(t)} : value'[q] = value[q]
    BY <1>5, <2>1
  <2>5. GivesUnit(t, r) /\ ~TakesUnit(t, r) /\ (HandsOver(t, r) <=> value[Arg(t)] < 0)
    BY <1>8, <2>1 DEF GivesUnit, HandsOver, TakesUnit
  <2>6. /\ value[Arg(t)] >= 0 => F' = F + 1
        /\ value[Arg(t)] < 0 => F' = F
    BY <1>0, <1>1, <1>8, <2>3, <2>4, FreeChanges
  <2>. QED
    BY <1>u, <1>2, <1>3, <1>4, <2>3, <2>5, <2>6
<1>8a. CASE Up(t) /\ Arg(t) \in r.sems /\ ~active[Arg(t)]
  <2>1. Op(t) = "up" /\ ~DownRegion(t) /\ ~Compute(t) /\ ~InUse
    BY <1>1, <1>8a DEF DownRegion, Up, Compute, At, InUse
  <2>2. C' = C
    BY <1>0, <1>6, <2>1, DataSteps
  <2>3. F' = F
    BY <1>5, <1>8a, <2>1 DEF Free
  <2>4. GivesUnit(t, r) /\ ~TakesUnit(t, r) /\ ~HandsOver(t, r)
    BY <1>8a, <2>1 DEF GivesUnit, HandsOver, TakesUnit
  <2>5. H' <= H - 1
    BY <1>2, <2>4
  <2>. QED
    BY <1>u, <1>2, <1>3, <1>4, <2>1, <2>2, <2>3, <2>5
<1>9. CASE /\ ~(DownRegion(t) /\ Arg(t) \in r.sems) /\ ~(Up(t) /\ Arg(t) \in r.sems)
           /\ Compute(t) /\ Op(t) = "store" /\ Arg(t) = r.cell
  <2>1. /\ Arg(t) \in Cells /\ r.cell # None
        /\ r.cell \in (IF InUse THEN Guarded[prog] ELSE Safe[prog])
    BY <1>0, <1>1, <1>9, Operands, NoneIsNoCell
  <2>2. t \in Tasks
    <3>1. t # Main
      BY <1>0, <1>1, <1>9 DEF Prepared, Op, Ins
    <3>. QED
      BY <3>1 DEF Threads
  <2>3. reg[t] = cell[r.cell]
    BY <1>0, <1>9, <2>1, <2>2 DEF NoUpdateLost
  <2>4. Num(t) \in {r.gain, -r.gain}
    BY <1>0, <1>1, <1>9, <2>2 DEF Closed, Op, Arg, Num, Ins
  <2>5. cell'[r.cell] = cell[r.cell] + Num(t) /\ cell[r.cell] \in Int
    BY <1>0, <1>9, <2>1, <2>3, DataSteps
  <2>6. /\ ~HandsOver(t, r)
        /\ TakesUnit(t, r) <=> Num(t) = -r.gain
        /\ GivesUnit(t, r) <=> Num(t) = r.gain
    BY <1>9 DEF HandsOver, TakesUnit, GivesUnit, Takes, Gives, Op, Arg, Num
  <2>7. F' = F
    <3>1. \A s \in r.sems : value'[s] = value[s]
      BY <1>5, <1>9
    <3>. QED
      BY <3>1 DEF Free
  <2>8. C' = r.gain * cell'[r.cell] /\ C = r.gain * cell[r.cell]
    BY <2>1 DEF Content
  <2>9. CASE r.gain = 1
    BY <1>u, <1>2, <1>3, <2>4, <2>5, <2>6, <2>7, <2>8, <2>9
  <2>10. CASE r.gain = -1
    BY <1>u, <1>2, <1>3, <2>4, <2>5, <2>6, <2>7, <2>8, <2>10
  <2>. QED
    BY <1>1, <2>9, <2>10
<1>10. CASE /\ ~(DownRegion(t) /\ Arg(t) \in r.sems) /\ ~(Up(t) /\ Arg(t) \in r.sems)
            /\ ~(Compute(t) /\ Op(t) = "store" /\ Arg(t) = r.cell)
  <2>1. ~TakesUnit(t, r) /\ ~GivesUnit(t, r)
    BY <1>10 DEF TakesUnit, GivesUnit, Takes, Gives, Op, Arg
  <2>2. \A s \in r.sems : value'[s] = value[s]
    BY <1>5, <1>10
  <2>3. F' = F
    BY <2>2 DEF Free
  <2>4. C' = C
    <3>1. r.cell # None => cell'[r.cell] = cell[r.cell]
      BY <1>0, <1>1, <1>10, DataSteps
    <3>. QED
      BY <3>1 DEF Content
  <2>. QED
    BY <1>u, <1>2, <1>3, <1>4, <2>1, <2>3, <2>4
<1>. QED
  BY <1>7, <1>8, <1>8a, <1>9, <1>10

-----------------------------------------------------------------------------
\* Before main creates the first task the semaphores are as it made them.
AllNew == \A t \in Tasks : state[t] = "n"
NewInv == Prepared(prog) =>
    /\ \A i \in Makes(prog) : i >= pc[Main].at => AllNew
    /\ \A t \in Tasks : state[t] = "n" => pc[t].at = 1 /\ pc[t].step = "start"
    /\ \A i \in Makes(prog) : active[prog.script[Main][i][2]] =>
         /\ i < pc[Main].at
         /\ AllNew => value[prog.script[Main][i][2]] = prog.script[Main][i][3]
    /\ AllNew => \A i \in Makes(prog) :
         value[prog.script[Main][i][2]] \in {0, prog.script[Main][i][3]}
    /\ AllNew => \A c \in Cells : cell[c] = 0

\* What main makes is a semaphore, and it gets there by its script.
LEMMA MakesFacts ==
    ASSUME CpuOK
    PROVE  \A i \in Makes(prog) : /\ i \in Nat /\ i \in DOMAIN prog.script[Main]
                                  /\ prog.script[Main][i][1] = "sem_create"
                                  /\ prog.script[Main][i][2] \in Semaphores
<1>1. prog.script[Main] \in Seq(Instr)
  BY ProgramShape DEF CpuOK, Threads
<1>2. \A i \in Makes(prog) : /\ i \in Nat /\ i \in DOMAIN prog.script[Main]
                             /\ prog.script[Main][i] \in Instr
                             /\ prog.script[Main][i][1] = "sem_create"
  BY <1>1 DEF Makes
<1>. QED
  BY <1>2 DEF Instr

LEMMA NewTask ==
    ASSUME PlacesInv, Waiting, Freeing, NewInv, NEW t \in Threads, Task(t) PROVE NewInv'
<1>0. /\ TypeOK /\ OnCpu /\ CpuOK /\ taskExec = t /\ prog' = prog /\ prog \in Programs
      /\ pc[t].at \in DOMAIN prog.script[t] /\ Main \in Threads
      /\ \A u \in Threads \ {t} : pc'[u] = pc[u]
      /\ \A u \in Threads : pc[u].at \in Nat
      /\ cell \in [Cells -> Int]
  BY Running, Moved DEF PlacesInv, TypeOK, CpuOK, PcOK, DataOK, Threads
<1>1. SUFFICES ASSUME Prepared(prog)
               PROVE  /\ \A i \in Makes(prog) : i >= pc'[Main].at => AllNew'
                      /\ \A u \in Tasks : state'[u] = "n" => pc'[u].at = 1 /\ pc'[u].step = "start"
                      /\ \A i \in Makes(prog) : active'[prog.script[Main][i][2]] =>
                           /\ i < pc'[Main].at
                           /\ AllNew' => value'[prog.script[Main][i][2]] = prog.script[Main][i][3]
                      /\ AllNew' => \A i \in Makes(prog) :
                           value'[prog.script[Main][i][2]] \in {0, prog.script[Main][i][3]}
                      /\ AllNew' => \A c \in Cells : cell'[c] = 0
  BY <1>0 DEF NewInv
<1>2. state[t] # "n" /\ state'[t] # "n"
  BY <1>0, NeverNewAgain DEF OnCpu
<1>3. \A u \in Tasks : state'[u] = "n" => u # t /\ state[u] = "n"
  BY <1>2, OthersState DEF Threads
<1>4. /\ AllNew' => AllNew
      /\ AllNew => t = Main
  BY <1>2, <1>3 DEF AllNew, Threads
<1>5. pc'[Main].at >= pc[Main].at /\ pc'[Main].at \in Nat
  <2>1. t = Main => pc'[Main].at \in {pc[Main].at, pc[Main].at + 1}
    BY <1>0, MainGoesOn
  <2>. QED
    BY <1>0, <2>1
<1>6. \A i \in Makes(prog) : /\ i \in Nat /\ i \in DOMAIN prog.script[Main]
                             /\ prog.script[Main][i][1] = "sem_create"
                             /\ prog.script[Main][i][2] \in Semaphores
  BY <1>0, MakesFacts
<1>7. t = Main => Op(t) \notin {"up", "store", "down"}
  BY <1>0, <1>1, ProgramShape DEF Prepared, Op, Ins
<1>8. ASSUME NEW i \in Makes(prog), i >= pc'[Main].at PROVE AllNew'
  <2>1. AllNew /\ t = Main
    BY <1>0, <1>1, <1>4, <1>5, <1>6, <1>8 DEF NewInv
  <2>2. ASSUME NEW u \in Tasks PROVE state'[u] = "n"
    <3>1. state[u] = "n" /\ u \in Threads \ {t}
      BY <1>2, <2>1 DEF AllNew, Threads
    <3>2. ~Create(t)
      <4>1. SUFFICES ASSUME Create(t) PROVE FALSE
        OBVIOUS
      <4>2. prog.script[Main][pc[Main].at][1] = "create" /\ pc[Main].at \in DOMAIN prog.script[Main]
        BY <1>0, <2>1, <4>1 DEF Create, At, Op, Ins
      <4>3. i < pc[Main].at
        BY <1>1, <4>2 DEF Prepared
      <4>. QED
        BY <1>0, <1>5, <1>6, <1>8, <4>3
    <3>. QED
      BY <3>1, <3>2, OthersState
  <2>. QED
    BY <2>2 DEF AllNew
<1>9. ASSUME NEW u \in Tasks, state'[u] = "n" PROVE pc'[u].at = 1 /\ pc'[u].step = "start"
  BY <1>0, <1>1, <1>3, <1>9 DEF NewInv, Threads
<1>10. ASSUME NEW i \in Makes(prog)
       PROVE  /\ active'[prog.script[Main][i][2]] =>
                /\ i < pc'[Main].at
                /\ AllNew' => value'[prog.script[Main][i][2]] = prog.script[Main][i][3]
              /\ AllNew' => value'[prog.script[Main][i][2]] \in {0, prog.script[Main][i][3]}
  <2> DEFINE s == prog.script[Main][i][2]
  <2>1. s \in Semaphores /\ i \in Nat
    BY <1>6
  <2>2. ASSUME SemCreate(t), Arg(t) = s
        PROVE  /\ t = Main /\ pc[Main].at = i /\ pc'[Main].at = i + 1
               /\ value'[s] = prog.script[Main][i][3]
    <3>1. Op(t) = "sem_create" /\ Next1(t) /\ value' = [value EXCEPT ![Arg(t)] = Num(t)]
      BY <2>2 DEF SemCreate, At
    <3>2. t = Main
      BY <1>0, <3>1, OnlyMain
    <3>3. pc[Main].at \in Makes(prog) /\ prog.script[Main][pc[Main].at][2] = s
      BY <1>0, <2>2, <3>1, <3>2 DEF Makes, Op, Arg, Ins
    <3>4. pc[Main].at = i
      BY <1>1, <3>3 DEF Prepared, Makes
    <3>5. pc'[Main].at = i + 1
      BY <1>0, <3>1, <3>2, <3>4 DEF Next1, Goto, MoveTo, TypeOK, PcOK
    <3>6. value'[s] = Num(t)
      BY <1>0, <2>1, <2>2, <3>1 DEF TypeOK, SyncOK
    <3>. QED
      BY <3>2, <3>4, <3>5, <3>6 DEF Num, Ins
  <2>3. CASE SemCreate(t) /\ Arg(t) = s
    BY <2>1, <2>2, <2>3
  <2>4. CASE ~(SemCreate(t) /\ Arg(t) = s)
    <3>1. active'[s] => active[s]
      BY <1>0, <2>1, <2>4, DataSteps
    <3>2. /\ active'[s] => i < pc[Main].at /\ (AllNew => value[s] = prog.script[Main][i][3])
          /\ AllNew => value[s] \in {0, prog.script[Main][i][3]}
      BY <1>1, <3>1 DEF NewInv
    <3>3. t = Main => ~DownRegion(t) /\ ~Up(t)
      BY <1>7 DEF DownRegion, Up, At
    <3>4. AllNew' => value'[s] = value[s]
      BY <1>0, <1>4, <2>1, <2>4, <3>3, DataSteps
    <3>. QED
      BY <1>0, <1>4, <1>5, <2>1, <3>2, <3>4
  <2>. QED
    BY <2>3, <2>4
<1>11. AllNew' => \A c \in Cells : cell'[c] = 0
  <2>1. t = Main => cell' = cell
    BY <1>0, <1>7, DataSteps
  <2>. QED
    BY <1>1, <1>4, <2>1 DEF NewInv
<1>. QED
  BY <1>8, <1>9, <1>10, <1>11

LEMMA SupplyFinite == ASSUME CpuOK, NEW r PROVE IsFiniteSet(Supply(prog, r))
<1> DEFINE M == {j \in Makes(prog) : prog.script[Main][j][2] \in r.sems}
           g == [i \in M |-> {prog.script[Main][i][2]} \X (1 .. prog.script[Main][i][3])]
           G == {{prog.script[Main][i][2]} \X (1 .. prog.script[Main][i][3]) : i \in M}
<1>1. prog.script[Main] \in Seq(Instr)
  BY ProgramShape DEF CpuOK, Threads
<1>2. IsFiniteSet(M)
  <2>1. IsFiniteSet(1 .. Len(prog.script[Main]))
    BY <1>1, FS_Interval
  <2>2. M \in SUBSET (1 .. Len(prog.script[Main]))
    BY <1>1 DEF Makes
  <2>. QED
    BY <2>1, <2>2, FS_Subset
<1>3. IsFiniteSet(G)
  <2>1. g \in Surjection(M, G)
    BY DEF Surjection
  <2>. QED
    BY <1>2, <2>1, FS_Surjection
<1>4. ASSUME NEW i \in M
      PROVE  IsFiniteSet({prog.script[Main][i][2]} \X (1 .. prog.script[Main][i][3]))
  <2>1. prog.script[Main][i] \in Instr /\ prog.script[Main][i][1] = "sem_create"
    BY <1>1 DEF Makes
  <2>2. prog.script[Main][i][3] \in Nat
    BY <2>1 DEF Instr
  <2>3. IsFiniteSet({prog.script[Main][i][2]}) /\ IsFiniteSet(1 .. prog.script[Main][i][3])
    <3>1. IsFiniteSet(1 .. prog.script[Main][i][3])
      BY <2>2, FS_Interval
    <3>2. IsFiniteSet({prog.script[Main][i][2]})
      BY FS_Singleton
    <3>. QED
      BY <3>1, <3>2
  <2>. QED
    BY <2>3, FS_Product
<1>5. \A T \in G : IsFiniteSet(T)
  BY <1>4
<1>. QED
  BY <1>3, <1>5, FS_UNION DEF Supply

\* After a step that leaves all tasks new, every unit is where main has put it.
LEMMA NewBalance ==
    ASSUME CpuOK, prog' = prog, NewInv', AllNew', NEW r \in AllRings[prog]
    PROVE  /\ Free(r)' \subseteq Supply(prog, r) /\ (InUse' => Free(r)' = Supply(prog, r))
           /\ Holders(r)' = {} /\ Content(r)' = 0
<1>1. /\ r.sems \subseteq Sems(prog) /\ Prepared(prog) /\ r.gain \in {1, -1}
      /\ r.cell = None \/ r.cell \in Cells
      /\ \A t \in Tasks : r.held[t] = Held(r, prog.script[t])
  BY RingFacts DEF Guarded, CpuOK
<1>2. /\ \A t \in Tasks : pc'[t].at = 1 /\ pc'[t].step = "start"
      /\ \A i \in Makes(prog) : active'[prog.script[Main][i][2]] =>
           value'[prog.script[Main][i][2]] = prog.script[Main][i][3]
      /\ \A i \in Makes(prog) :
           value'[prog.script[Main][i][2]] \in {0, prog.script[Main][i][3]}
      /\ \A c \in Cells : cell'[c] = 0
  BY <1>1 DEF NewInv, AllNew
<1>3. Holders(r)' = {}
  <2>1. \A t \in Tasks : 1 \notin r.held[t]
    <3>1. 1 .. 1 - 1 = {}
      OBVIOUS
    <3>. QED
      BY <1>1, <3>1 DEF Held
  <2>. QED
    BY <1>2, <2>1 DEF Holders, Has
<1>4. Content(r)' = 0
  BY <1>1, <1>2 DEF Content
<1> DEFINE M == {j \in Makes(prog) : prog.script[Main][j][2] \in r.sems}
<1>5. \A s \in r.sems : \E i \in M : prog.script[Main][i][2] = s
  BY <1>1 DEF Sems
<1>6. Free(r)' \subseteq Supply(prog, r)
  <2>1. SUFFICES ASSUME NEW s \in r.sems, NEW x \in {s} \X (1 .. value'[s])
                 PROVE  x \in Supply(prog, r)
    BY DEF Free
  <2>2. PICK i \in M : prog.script[Main][i][2] = s
    BY <1>5
  <2>3. value'[s] # 0
    BY <2>1
  <2>4. x \in {prog.script[Main][i][2]} \X (1 .. prog.script[Main][i][3])
    BY <1>2, <2>2, <2>3
  <2>. QED
    BY <2>4 DEF Supply
<1>7. ASSUME InUse' PROVE Free(r)' = Supply(prog, r)
  <2>1. \A i \in M : value'[prog.script[Main][i][2]] = prog.script[Main][i][3]
    BY <1>2, <1>7 DEF InUse, Sems
  <2>2. {{s} \X (1 .. value'[s]) : s \in r.sems}
          = {{prog.script[Main][i][2]} \X (1 .. prog.script[Main][i][3]) : i \in M}
    BY <1>5, <2>1
  <2>. QED
    BY <2>2 DEF Free, Supply
<1>. QED
  BY <1>3, <1>4, <1>6, <1>7

LEMMA UnitsTask ==
    ASSUME PlacesInv, PlacesInv', Waiting, Freeing, SemaphoresExact, NewInv, NewInv', UnitsKept,
           NoUpdateLost, NEW t \in Threads, Task(t)
    PROVE  UnitsKept'
<1>0. /\ CpuOK /\ TypeOK /\ prog' = prog /\ pc[t].at \in DOMAIN prog.script[t]
      /\ state \in [Threads -> {"n", "r", "e", "s", "x"}] /\ \A u \in Threads : pc[u].at \in Nat
  BY Running DEF PlacesInv, TypeOK, TasksOK, PcOK
<1>1. SUFFICES ASSUME NEW r \in AllRings[prog]
               PROVE  (InUse' => Units(r)' = r.units) /\ (r.firm => Units(r)' <= r.units)
  BY <1>0 DEF UnitsKept
<1>2. /\ r.sems \subseteq Sems(prog) /\ Sems(prog) \subseteq Semaphores /\ Prepared(prog)
      /\ r.units = Cardinality(Supply(prog, r))
  BY <1>0, RingFacts
<1>3. CASE SemCreate(t)
  <2>1. t = Main /\ pc[Main].at \in Makes(prog) /\ state' = state
    <3>1. Op(t) = "sem_create" /\ state' = state
      BY <1>3 DEF SemCreate, At
    <3>2. t = Main
      BY <1>0, <3>1, OnlyMain
    <3>. QED
      BY <1>0, <3>1, <3>2 DEF Makes, Op, Ins
  <2>2. AllNew'
    BY <1>0, <1>2, <2>1 DEF NewInv, AllNew
  <2>3. /\ Free(r)' \subseteq Supply(prog, r) /\ (InUse' => Free(r)' = Supply(prog, r))
        /\ Holders(r)' = {} /\ Content(r)' = 0
    BY <1>0, <2>2, NewBalance
  <2>4. Cardinality(Holders(r)') = 0
    BY <2>3, FS_EmptySet
  <2>5. /\ Cardinality(Free(r)') \in Nat /\ r.units \in Nat
        /\ Cardinality(Free(r)') <= r.units /\ (InUse' => Cardinality(Free(r)') = r.units)
    BY <1>0, <1>2, <2>3, SupplyFinite, FS_Subset, FS_CardinalityType
  <2>. QED
    BY <2>3, <2>4, <2>5 DEF Units
<1>4. CASE ~SemCreate(t)
  <2>1. InUse' => InUse
    BY <1>0, <1>2, <1>4, DataSteps DEF InUse
  <2>2. InUse \/ r.firm => Units(r)' <= Units(r) /\ (InUse /\ InUse' => Units(r)' = Units(r))
    BY <1>4, UnitsStep
  <2>3. (InUse => Units(r) = r.units) /\ (r.firm => Units(r) <= r.units)
    BY DEF UnitsKept
  <2>4. Units(r) \in Int /\ Units(r)' \in Int /\ r.units \in Nat
    <3>1. \A s \in r.sems : value[s] \in Int /\ value'[s] \in Int
      BY <1>2 DEF PlacesInv, TypeOK, SyncOK
    <3>2. Cardinality(Free(r)) \in Nat /\ Cardinality(Free(r)') \in Nat
      BY <1>0, <3>1, UnitsFinite DEF Free
    <3>3. Cardinality(Holders(r)) \in Nat /\ Cardinality(Holders(r)') \in Nat
      <4>1. Holders(r) \subseteq Tasks /\ Holders(r)' \subseteq Tasks
        BY DEF Holders
      <4>. QED
        BY <4>1, ThreadsDiffer, FS_Subset, FS_CardinalityType
    <3>4. Content(r) \in Int /\ Content(r)' \in Int
      BY <1>0, RingFacts DEF Content, PlacesInv, TypeOK, DataOK, Guarded, CpuOK
    <3>5. r.units \in Nat
      BY <1>0, <1>2, SupplyFinite, FS_CardinalityType
    <3>. QED
      BY <3>2, <3>3, <3>4, <3>5 DEF Units
  <2>. QED
    BY <2>1, <2>2, <2>3, <2>4
<1>. QED
  BY <1>3, <1>4

\* The lock of a cell is a ring of its own.
LEMMA LockRing ==
    ASSUME CpuOK, Prepared(prog), NEW s \in Sems(prog), Closed(prog, Lock(s))
    PROVE  /\ Marked(prog, Lock(s)) \in AllRings[prog]
           /\ Honest(prog, Lock(s)) => Marked(prog, Lock(s)).firm
<1>1. prog \in Programs
  BY DEF CpuOK
<1>2. Lock(s) \in RingsOf(prog)
  <2>1. {s} \in (SUBSET Sems(prog)) \ {{}}
    OBVIOUS
  <2>. QED
    BY <2>1 DEF RingsOf, Lock
<1>3. Marked(prog, Lock(s)) \in AllRings[prog]
  BY <1>1, <1>2 DEF AllRings
<1>4. Lock(s).cell = None
  BY DEF Lock
<1>5. Honest(prog, Lock(s)) => Marked(prog, Lock(s)).firm
  BY <1>4 DEF Marked
<1>. QED
  BY <1>3, <1>5

\* A lock has one holder at most.
LEMMA OneHolder ==
    ASSUME TypeOK, UnitsKept, NEW r \in AllRings[prog], InUse \/ r.firm, r.cell = None,
           r.units = 1, NEW t \in Tasks, NEW u \in Tasks, Has(t, r), Has(u, r)
    PROVE  t = u
<1>1. IsFiniteSet(Holders(r)) /\ Cardinality(Holders(r)) \in Nat
  <2>1. IsFiniteSet(Holders(r))
    BY ThreadsDiffer, FS_Subset DEF Holders
  <2>. QED
    BY <2>1, FS_CardinalityType
<1>2. Cardinality(Holders(r)) <= 1
  <2>1. Content(r) = 0
    BY DEF Content
  <2>2. Units(r) <= 1
    BY DEF UnitsKept
  <2>. QED
    BY <1>1, <2>1, <2>2, FreeFinite DEF Units
<1>3. Holders(r) # {} /\ t \in Holders(r) /\ u \in Holders(r)
  BY DEF Holders
<1>4. Cardinality(Holders(r)) = 1
  BY <1>1, <1>2, <1>3, FS_EmptySet
<1>. QED
  BY <1>1, <1>3, <1>4, FS_Singleton

\* Nobody stores what is out of date: the one that stores has the lock since it read.
LEMMA UpdateTask ==
    ASSUME PlacesInv, PlacesInv', Waiting, Freeing, SemaphoresExact, NewInv, NewInv', UnitsKept,
           NoUpdateLost, NEW t \in Threads, Task(t)
    PROVE  NoUpdateLost'
<1>0. /\ CpuOK /\ TypeOK /\ prog' = prog /\ prog \in Programs /\ t \in Threads
      /\ pc[t].at \in DOMAIN prog.script[t]
      /\ \A u \in Threads \ {t} : pc'[u] = pc[u]
      /\ \A u \in Threads : prog.script[u] \in Seq(Instr) /\ pc[u].at \in Nat
      /\ state \in [Threads -> {"n", "r", "e", "s", "x"}]
  BY Running, Moved, ProgramShape DEF PlacesInv, TypeOK, CpuOK, PcOK, TasksOK
<1>1. SUFFICES ASSUME NEW u \in Tasks, pc'[u].at \in DOMAIN prog.script[u],
                      Op(u)' = "store",
                      Arg(u)' \in (IF InUse' THEN Guarded[prog] ELSE Safe[prog])
               PROVE  reg'[u] = cell'[Arg(u)']
  BY <1>0 DEF NoUpdateLost
<1> DEFINE n == pc'[u].at
           c == Arg(u)'
<1>2. c \in Cells /\ Prepared(prog) /\ u \in Threads
  BY <1>0, <1>1 DEF Guarded, Safe, Threads
<1>3. PICK s \in Sems(prog) : Guards(prog, s, c) /\ (InUse' \/ Honest(prog, Lock(s)))
  BY <1>0, <1>1 DEF Guarded, Safe
<1>4. prog.script[u][n][1] = "store" /\ prog.script[u][n][2] = c
  BY <1>0, <1>1 DEF Op, Arg, Ins
<1>5. /\ n > 1 /\ prog.script[u][n - 1] = <<"load", c, 0>>
      /\ \A j \in DOMAIN prog.script[u] :
           prog.script[u][j][1] \in {"down", "test", "goto", "again"} => prog.script[u][j][3] # n
  BY <1>1, <1>3, <1>4 DEF Guards
<1>6. CASE SemCreate(t)
  <2>1. t = Main /\ pc[Main].at \in Makes(prog) /\ state' = state
    <3>1. Op(t) = "sem_create" /\ state' = state
      BY <1>6 DEF SemCreate, At
    <3>2. t = Main
      BY <1>0, <3>1, OnlyMain
    <3>. QED
      BY <1>0, <3>1, <3>2 DEF Makes, Op, Ins
  <2>2. state'[u] = "n"
    BY <1>0, <1>2, <2>1 DEF NewInv, AllNew
  <2>3. n = 1
    BY <1>0, <1>2, <2>2 DEF NewInv
  <2>. QED
    BY <1>5, <2>3
<1>7. CASE ~SemCreate(t) /\ u # t
  <2>0. InUse' => InUse
    <3>1. Sems(prog) \subseteq Semaphores
      BY <1>0, MakesFacts DEF Sems
    <3>. QED
      BY <1>0, <1>1, <1>7, <3>1, DataSteps DEF InUse
  <2>1. pc'[u] = pc[u] /\ Op(u) = "store" /\ Arg(u) = c /\ reg'[u] = reg[u]
    BY <1>0, <1>1, <1>2, <1>7, SameOps, DataSteps
  <2>2. reg[u] = cell[c]
    <3>1. c \in (IF InUse THEN Guarded[prog] ELSE Safe[prog])
      BY <1>0, <1>1, <1>2, <1>3, <2>0 DEF Guarded
    <3>. QED
      BY <1>1, <2>1, <3>1 DEF NoUpdateLost
  <2>3. CASE Compute(t) /\ Op(t) = "store" /\ Arg(t) = c
    <3>1. t \in Tasks
      BY <1>0, <1>2, <2>3 DEF Prepared, Op, Ins, Threads
    <3> DEFINE r == Marked(prog, Lock(s))
    <3>2. /\ Closed(prog, Lock(s)) /\ Cardinality(Supply(prog, Lock(s))) = 1
          /\ pc[t].at \in Held(Lock(s), prog.script[t])
          /\ pc[u].at \in Held(Lock(s), prog.script[u])
      BY <1>0, <1>1, <1>3, <1>4, <2>1, <2>3, <3>1 DEF Guards, Op, Arg, Ins
    <3>3. r \in AllRings[prog] /\ r.cell = None /\ r.units = 1 /\ (InUse \/ r.firm)
          /\ r.held = [x \in Tasks |-> Held(Lock(s), prog.script[x])]
      <4>1. r.cell = None /\ r.units = 1
            /\ r.held = [x \in Tasks |-> Held(Lock(s), prog.script[x])]
        BY <3>2 DEF Marked, Lock
      <4>. QED
        BY <1>0, <1>2, <1>3, <2>0, <3>2, <4>1, LockRing
    <3>4. Has(t, r) /\ Has(u, r)
      BY <3>1, <3>2, <3>3 DEF Has
    <3>5. t = u
      BY <1>0, <3>1, <3>3, <3>4, OneHolder
    <3>. QED
      BY <1>7, <3>5
  <2>4. CASE ~(Compute(t) /\ Op(t) = "store" /\ Arg(t) = c)
    <3>1. cell'[c] = cell[c]
      BY <1>0, <1>2, <2>4, DataSteps DEF TypeOK, DataOK
    <3>. QED
      BY <2>1, <2>2, <3>1
  <2>. QED
    BY <2>3, <2>4
<1>8. CASE u = t
  <2>1. pc[t].at # n
    <3>1. SUFFICES ASSUME pc[t].at = n PROVE FALSE
      OBVIOUS
    <3>2. Op(t) = "store"
      BY <1>0, <1>4, <1>8, <3>1 DEF Op, Ins
    <3>. QED
      BY <1>0, <1>8, <3>1, <3>2, UpStoreSteps
  <2>2. n = pc[t].at + 1
    <3>1. Op(t) \in {"down", "test", "goto", "again"} => Num(t) # n
      BY <1>0, <1>5, <1>8 DEF Op, Num, Ins
    <3>. QED
      BY <1>0, <1>8, <2>1, <3>1, Goes
  <2>3. Op(t) = "load" /\ Arg(t) = c
    <3>1. pc[t].at = n - 1
      BY <1>0, <1>8, <2>2
    <3>. QED
      BY <1>5, <1>8, <3>1 DEF Op, Arg, Ins
  <2>4. Compute(t)
    BY <2>3 DEF Task, Create, Yield, Join, Sleep, SwitchOut, Return, SemCreate, DownTest,
       DownRegion, Up, Destroy, DestroyLoop, BarrierArrive, BarrierRelease, MqueueFlag, Exit,
       Exiting, ExitDrain, ExitSwitch, Halt, At
  <2>. QED
    BY <1>0, <1>8, <2>3, <2>4, DataSteps
<1>. QED
  BY <1>6, <1>7, <1>8

UnitsInv == Waiting /\ Freeing /\ SemaphoresExact /\ NewInv /\ UnitsKept /\ NoUpdateLost

\* Dispatching, waking and preempting resume nobody who waits at a semaphore and leave
\* the units where they are.
LEMMA UnitsIdle ==
    ASSUME PlacesInv, UnitsInv, UNCHANGED <<prog, pc, value, active, cell, reg, queue>>,
           sleepQueue' \subseteq sleepQueue, NEW w \in Threads,
           \A u \in Threads \ {w} : state'[u] = state[u],
           state'[w] = state[w]
             \/ /\ state[w] # "n" /\ state'[w] # "n"
                /\ (state[w] = "s" <=> state'[w] = "s") \/ Op(w) \in {"sleep", "nap"}
    PROVE  UnitsInv'
<1>1. Waiting' /\ Freeing' /\ SemaphoresExact'
  <2>1. Waiting'
    <3>1. \A u : Op(u)' = Op(u) /\ Arg(u)' = Arg(u) /\ pc'[u] = pc[u]
      BY DEF Op, Arg, Ins
    <3>. QED
      BY <3>1 DEF UnitsInv, Waiting
  <2>2. Freeing'
    BY DEF UnitsInv, Freeing, Arg, Ins
  <2>3. SemaphoresExact'
    BY DEF UnitsInv, SemaphoresExact
  <2>. QED
    BY <2>1, <2>2, <2>3
<1>2. \A u \in Threads : /\ state'[u] = "n" <=> state[u] = "n"
                         /\ Op(u) = "down" => (state'[u] = "s" <=> state[u] = "s")
  OBVIOUS
<1>3. AllNew' <=> AllNew
  BY <1>2 DEF AllNew, Threads
<1>4. NewInv'
  BY <1>2, <1>3 DEF UnitsInv, NewInv, Threads
<1>5. \A r : Holders(r)' = Holders(r)
  BY <1>2 DEF Holders, Has, Op, Arg, Ins, Threads
<1>6. UnitsKept'
  BY <1>5 DEF UnitsInv, UnitsKept, Units, InUse, Free, Content
<1>7. NoUpdateLost'
  BY DEF UnitsInv, NoUpdateLost, InUse, Op, Arg, Ins
<1>. QED
  BY <1>1, <1>4, <1>6, <1>7 DEF UnitsInv

LEMMA UnitsInductive == PlacesInv /\ PlacesInv' /\ UnitsInv /\ [Next]_vars => UnitsInv'
<1>. SUFFICES ASSUME PlacesInv, PlacesInv', UnitsInv, [Next]_vars PROVE UnitsInv'
  OBVIOUS
<1>0. TypeOK /\ StepsFit /\ OnCpu /\ OnePlaceEach /\ Main \in Threads
      /\ state \in [Threads -> {"n", "r", "e", "s", "x"}] /\ sleepQueue \subseteq Threads
  BY DEF PlacesInv, TypeOK, TasksOK, Threads
<1>1. ASSUME NEW t \in Threads, Task(t) PROVE UnitsInv'
  <2>1. Waiting' /\ Freeing' /\ SemaphoresExact'
    BY <1>0, <1>1, WaitingTask, FreeingTask, SemTask DEF UnitsInv, SemInv
  <2>2. NewInv'
    BY <1>1, NewTask DEF UnitsInv
  <2>3. UnitsKept' /\ NoUpdateLost'
    BY <1>1, <2>2, UnitsTask, UpdateTask DEF UnitsInv
  <2>. QED
    BY <2>1, <2>2, <2>3 DEF UnitsInv
<1>2. ASSUME NEW t \in Threads, Dispatch(t) PROVE UnitsInv'
  <2>1. state[t] = "r" /\ state' = [state EXCEPT ![t] = "e"]
    BY <1>0, <1>2 DEF Dispatch, OnePlaceEach
  <2>2. UNCHANGED <<prog, pc, value, active, cell, reg, queue, sleepQueue>>
    BY <1>2 DEF Dispatch, sync, data
  <2>. QED
    BY <1>0, <2>1, <2>2, UnitsIdle
<1>3. ASSUME NEW t \in Threads, Wake(t) PROVE UnitsInv'
  <2>1. state[t] = "s" /\ state' = [state EXCEPT ![t] = "r"] /\ Op(t) \in {"sleep", "nap"}
    BY <1>0, <1>3 DEF Wake, OnePlaceEach, UnitsInv, Waiting
  <2>2. UNCHANGED <<prog, pc, value, active, cell, reg, queue>> /\ sleepQueue' \subseteq sleepQueue
    BY <1>3 DEF Wake, sync, data
  <2>. QED
    BY <1>0, <2>1, <2>2, UnitsIdle
<1>4. ASSUME NEW t \in Tasks, Preempt(t) PROVE UnitsInv'
  <2>1. t \in Threads /\ state[t] \in {"e", "s", "x"}
    BY <1>0, <1>4 DEF Preempt, OnCpu, Threads
  <2>2. state' = IF state[t] = "s" THEN state ELSE [state EXCEPT ![t] = "r"]
    BY <1>4 DEF Preempt, Requeue
  <2>3. UNCHANGED <<prog, pc, value, active, cell, reg, queue, sleepQueue>>
    BY <1>4 DEF Preempt, ToDispatcher, sync, data
  <2>. QED
    BY <1>0, <2>1, <2>2, <2>3, UnitsIdle
<1>5. CASE UNCHANGED <<prog, pc, value, active, cell, reg, queue, sleepQueue, state>>
  BY <1>0, <1>5, UnitsIdle
<1>. QED
  BY <1>1, <1>2, <1>3, <1>4, <1>5 DEF Next, Finish, Ended, vars, cpu, tasks, sync, data

LEMMA UnitsAlways == Spec => []UnitsInv
<1>1. Init => UnitsInv
  <2>1. SUFFICES ASSUME Init PROVE UnitsInv
    OBVIOUS
  <2>2. Waiting /\ Freeing /\ SemaphoresExact
    BY <2>1 DEF Init, Waiting, Freeing, SemaphoresExact
  <2>3. CpuOK /\ PlacesInv
    BY <2>1, InitPlaces DEF PlacesInv, TypeOK
  <2>4. NewInv
    <3>1. \A i \in Makes(prog) : prog.script[Main][i][2] \in Semaphores
      BY <2>3, MakesFacts
    <3>2. \A i \in Makes(prog) : ~active[prog.script[Main][i][2]]
      BY <2>1, <3>1 DEF Init
    <3>3. AllNew
      BY <2>1, ThreadsDiffer DEF Init, AllNew, Threads
    <3>. QED
      <4>1. \A i \in Makes(prog) : i \in Nat /\ 1 <= i
        <5>1. prog.script[Main] \in Seq(Instr)
          BY <2>3, ProgramShape DEF CpuOK, Threads
        <5>. QED
          BY <5>1 DEF Makes
      <4>2. \A i \in Makes(prog) : value[prog.script[Main][i][2]] = 0
        BY <2>1, <3>1 DEF Init
      <4>3. \A t \in Tasks : pc[t].at = 1 /\ pc[t].step = "start"
        BY <2>1 DEF Init, Threads
      <4>4. \A c \in Cells : cell[c] = 0
        BY <2>1 DEF Init
      <4>. QED
        BY <3>2, <3>3, <4>2, <4>3, <4>4 DEF NewInv
  <2>5. UnitsKept
    <3>1. SUFFICES ASSUME NEW r \in AllRings[prog]
                   PROVE  ~InUse /\ Units(r) <= r.units
      BY DEF UnitsKept
    <3>2. /\ r.sems \subseteq Sems(prog) /\ Sems(prog) \subseteq Semaphores /\ r.sems # {}
          /\ r.cell = None \/ r.cell \in Cells
          /\ r.gain \in {1, -1} /\ r.units = Cardinality(Supply(prog, r))
          /\ \A t \in Tasks : r.held[t] = Held(r, prog.script[t])
      BY <2>3, RingFacts DEF Guarded, CpuOK
    <3>3. ~InUse
      BY <2>1, <3>2 DEF Init, InUse
    <3>4. Free(r) = {}
      <4>1. \A s \in r.sems : value[s] = 0 /\ 1 .. 0 = {}
        BY <2>1, <3>2 DEF Init
      <4>. QED
        BY <4>1 DEF Free
    <3>5. Holders(r) = {}
      <4>1. \A t \in Tasks : 1 \notin r.held[t]
        <5>1. 1 .. 1 - 1 = {}
          OBVIOUS
        <5>. QED
          BY <3>2, <5>1 DEF Held
      <4>. QED
        BY <2>1, <4>1 DEF Init, Holders, Has, Threads
    <3>6. Content(r) = 0
      BY <2>1, <3>2 DEF Init, Content
    <3>7. r.units \in Nat
      BY <2>3, <3>2, SupplyFinite, FS_CardinalityType
    <3>. QED
      BY <3>3, <3>4, <3>5, <3>6, <3>7, FS_EmptySet DEF Units
  <2>6. NoUpdateLost
    <3>1. \A t \in Tasks : pc[t].at = 1
      BY <2>1 DEF Init, Threads
    <3>2. SUFFICES ASSUME NEW t \in Tasks, pc[t].at \in DOMAIN prog.script[t],
                          Op(t) = "store", Arg(t) \in Guarded[prog] \cup Safe[prog]
                   PROVE  FALSE
      BY DEF NoUpdateLost
    <3>3. PICK s \in Sems(prog) : Guards(prog, s, Arg(t))
      BY <2>3, <3>2 DEF Guarded, Safe, CpuOK
    <3>4. pc[t].at > 1
      BY <3>2, <3>3 DEF Guards, Op, Arg, Ins
    <3>. QED
      BY <3>1, <3>4
  <2>. QED
    BY <2>2, <2>4, <2>5, <2>6 DEF UnitsInv
<1>. QED
  BY <1>1, UnitsInductive, PlacesAlways, PTL DEF Spec

\* What a cell holds in the units of a firm ring is not more than there are.
LEMMA FirmCells ==
    ASSUME PlacesInv, UnitsInv
    PROVE  \A r \in AllRings[prog] : r.firm /\ r.cell # None => r.gain * cell[r.cell] <= r.units
<1>1. SUFFICES ASSUME NEW r \in AllRings[prog], r.firm, r.cell # None
               PROVE  r.gain * cell[r.cell] <= r.units
  OBVIOUS
<1>2. TypeOK /\ CpuOK
  BY DEF PlacesInv, TypeOK
<1>3. Units(r) <= r.units /\ r.units \in Nat
  <2>1. r.units = Cardinality(Supply(prog, r))
    BY <1>2, RingFacts
  <2>2. r.units \in Nat
    BY <1>2, <2>1, SupplyFinite, FS_CardinalityType
  <2>. QED
    BY <1>1, <2>2 DEF UnitsInv, UnitsKept
<1>4. Cardinality(Free(r)) \in Nat /\ Cardinality(Holders(r)) \in Nat
  <2>1. IsFiniteSet(Holders(r))
    BY ThreadsDiffer, FS_Subset DEF Holders
  <2>. QED
    BY <1>2, <2>1, FreeFinite, FS_CardinalityType
<1>5. Content(r) = r.gain * cell[r.cell] /\ Content(r) \in Int
  <2>1. r.gain \in {1, -1} /\ r.cell \in Guarded[prog] /\ prog \in Programs
    BY <1>1, <1>2, RingFacts DEF CpuOK
  <2>2. cell[r.cell] \in Int
    BY <1>2, <2>1 DEF TypeOK, DataOK, Guarded
  <2>. QED
    BY <1>1, <2>1, <2>2 DEF Content
<1>. QED
  BY <1>3, <1>4, <1>5 DEF Units

\* While no semaphore is destroyed no unit of a ring of semaphores and cells is lost and
\* none is made, in any program, by sem_down and sem_up or by what the tasks store; and
\* none is made after that if the tasks look at what sem_down returns.
THEOREM UnitsConserved == Spec => []UnitsGoRound
<1>1. PlacesInv /\ UnitsInv => UnitsGoRound
  <2>1. PlacesInv => Rings[prog] \subseteq AllRings[prog]
    BY DEF PlacesInv, TypeOK, CpuOK, Rings, AllRings
  <2>. QED
    BY <2>1 DEF UnitsInv, UnitsKept, UnitsGoRound, Units
<1>. QED
  BY <1>1, UnitsAlways, PlacesAlways, PTL

\* A semaphore of one unit that the tasks take and give back keeps them apart: no two of
\* them are between its sem_down and its sem_up, nor after it has been destroyed if they
\* look at what sem_down returns.
THEOREM MutualExclusion ==
    Spec => [](\A r \in AllRings[prog] : (InUse \/ r.firm) /\ r.cell = None /\ r.units = 1 =>
                 \A t, u \in Tasks : Has(t, r) /\ Has(u, r) => t = u)
<1>1. PlacesInv /\ UnitsInv =>
        (\A r \in AllRings[prog] : (InUse \/ r.firm) /\ r.cell = None /\ r.units = 1 =>
           \A t, u \in Tasks : Has(t, r) /\ Has(u, r) => t = u)
  BY OneHolder DEF PlacesInv, UnitsInv
<1>. QED
  BY <1>1, UnitsAlways, PlacesAlways, PTL

\* A task that stores into a cell guarded by a semaphore adds to what the cell holds, also
\* after semaphores are destroyed if nobody has the lock by a sem_down that failed.
THEOREM UpdatesKept == Spec => []NoUpdateLost
<1>1. UnitsInv => NoUpdateLost
  BY DEF UnitsInv
<1>. QED
  BY <1>1, UnitsAlways, PTL
=============================================================================
