-------------------------- MODULE AccountingProofs ---------------------------
(***************************************************************************)
(* Machine-checked facts about Accounting, for every set of user tasks and *)
(* every length of run.                                                    *)
(***************************************************************************)
EXTENDS Accounting, ListsAndSums

Lost(t) == spent[t] # proc_time[t] + SliceSoFar(t)

\* A task not yet created has no account, nor the CPU; no date is in the future.
Books ==
    /\ TypeOK
    /\ \A t \in UserTasks :
          /\ exec_start[t] <= systemTime /\ last_proc[t] <= systemTime
          /\ state[t] = "new" => /\ taskExec # t /\ switchTo # t
                                 /\ spent[t] = 0 /\ proc_time[t] = 0

\* Who runs on a slice begun at time 0 is the only one with ticks not charged.
OneLoser ==
    /\ systemTime = 0 => \A t \in UserTasks : ~Lost(t)
    /\ \A t \in UserTasks : Running(t) /\ last_proc[t] = 0 =>
          \A u \in UserTasks : Lost(u) => u = t
    /\ \A t, u \in UserTasks : Lost(t) /\ Lost(u) => t = u

AccInv == Books /\ WithinLifetime /\ OneLoser

LEMMA InitAcc == Init => AccInv
<1> SUFFICES ASSUME Init PROVE AccInv
  OBVIOUS
<1>1. Books
  BY AccountingParameters DEF Init, Books, TypeOK, NoReport
<1>2. WithinLifetime
  BY DEF Init, WithinLifetime, NoReport
<1>3. \A t \in UserTasks : ~Lost(t)
  BY AccountingParameters DEF Init, Lost, SliceSoFar, Running
<1> QED
  BY <1>1, <1>2, <1>3 DEF AccInv, OneLoser

\* The accounts of each task as numbers, and what it would be charged now.
LEMMA Numbers ==
    ASSUME Books, NEW t \in UserTasks
    PROVE  /\ systemTime \in Nat /\ exec_start[t] \in Nat /\ proc_time[t] \in Nat
           /\ last_proc[t] \in Nat /\ activations[t] \in Nat /\ spent[t] \in Nat
           /\ SliceSoFar(t) \in Nat
           /\ exec_start[t] <= systemTime /\ last_proc[t] <= systemTime
  BY DEF Books, TypeOK, SliceSoFar

LEMMA TickAcc == AccInv /\ Tick => AccInv'
<1> SUFFICES ASSUME AccInv, Tick PROVE AccInv'
  OBVIOUS
<1>0. Books /\ WithinLifetime /\ OneLoser /\ TypeOK
  BY DEF AccInv, Books
<1>1. /\ systemTime' = systemTime + 1 /\ systemTime \in Nat
      /\ UNCHANGED <<taskExec, switchTo, state, exec_start, proc_time, last_proc,
                     activations, report>>
      /\ spent' = [t \in UserTasks |-> IF Running(t) THEN spent[t] + 1 ELSE spent[t]]
  BY <1>0 DEF Tick, fields, TypeOK
<1>2. \A t \in UserTasks : Running(t)' <=> Running(t)
  BY <1>1 DEF Running, Switching
<1>3. Books'
  <2>1. spent' \in [UserTasks -> Nat]
    BY <1>0, <1>1 DEF TypeOK
  <2>2. TypeOK'
    BY <1>0, <1>1, <2>1 DEF TypeOK
  <2>3. ASSUME NEW t \in UserTasks
        PROVE  /\ exec_start'[t] <= systemTime' /\ last_proc'[t] <= systemTime'
               /\ state'[t] = "new" => /\ taskExec' # t /\ switchTo' # t
                                       /\ spent'[t] = 0 /\ proc_time'[t] = 0
    BY <1>0, <1>1, Numbers DEF Books, Running
  <2> QED
    BY <2>2, <2>3 DEF Books
<1>4. ASSUME NEW t \in UserTasks
      PROVE  /\ SliceSoFar(t)' \in Nat /\ SliceSoFar(t)' <= SliceSoFar(t) + 1
             /\ ~(Running(t) /\ last_proc[t] = 0) => (Lost(t)' <=> Lost(t))
  <2>1. CASE Running(t) /\ last_proc[t] > 0
    BY <1>0, <1>1, <1>2, <2>1, Numbers DEF SliceSoFar, Lost
  <2>2. CASE ~(Running(t) /\ last_proc[t] > 0)
    BY <1>0, <1>1, <1>2, <2>2, Numbers DEF SliceSoFar, Lost
  <2> QED
    BY <2>1, <2>2
<1>5. WithinLifetime'
  <2>1. ASSUME NEW t \in UserTasks, state'[t] # "new"
        PROVE  proc_time'[t] + SliceSoFar(t)' <= systemTime' - exec_start'[t]
    <3>1. proc_time[t] + SliceSoFar(t) <= systemTime - exec_start[t]
      BY <1>0, <1>1, <2>1 DEF WithinLifetime
    <3> QED
      BY <1>0, <1>1, <1>4, <3>1, Numbers
  <2>2. \A t \in UserTasks : report'[t].proc <= report'[t].total
    BY <1>0, <1>1 DEF WithinLifetime
  <2> QED
    BY <2>1, <2>2 DEF WithinLifetime
<1>6. OneLoser'
  <2>1. \A t, u \in UserTasks : Running(t) /\ Running(u) => t = u
    BY DEF Running
  <2> QED
    BY <1>0, <1>1, <1>2, <1>4, <2>1 DEF OneLoser
<1> QED
  BY <1>3, <1>5, <1>6 DEF AccInv

LEMMA CreateAcc == \A t \in UserTasks : AccInv /\ TaskCreate(t) => AccInv'
<1> SUFFICES ASSUME NEW t \in UserTasks, AccInv, TaskCreate(t) PROVE AccInv'
  OBVIOUS
<1>0. Books /\ WithinLifetime /\ OneLoser /\ TypeOK
  BY DEF AccInv, Books
<1>1. /\ UNCHANGED <<systemTime, taskExec, switchTo, report, spent>>
      /\ state[t] = "new" /\ state' = [state EXCEPT ![t] = "r"]
      /\ exec_start' = [exec_start EXCEPT ![t] = systemTime]
      /\ proc_time' = [proc_time EXCEPT ![t] = 0]
      /\ last_proc' = [last_proc EXCEPT ![t] = 0]
      /\ activations' = [activations EXCEPT ![t] = 0]
  BY DEF TaskCreate
<1>2. ~Running(t) /\ \A u \in UserTasks : Running(u)' <=> Running(u)
  BY <1>0, <1>1 DEF Running, Switching, Books
<1>3. Books'
  <2>1. TypeOK'
    BY <1>0, <1>1 DEF TypeOK
  <2>2. ASSUME NEW u \in UserTasks
        PROVE  /\ exec_start'[u] <= systemTime' /\ last_proc'[u] <= systemTime'
               /\ state'[u] = "new" => /\ taskExec' # u /\ switchTo' # u
                                       /\ spent'[u] = 0 /\ proc_time'[u] = 0
    BY <1>0, <1>1, Numbers DEF Books, TypeOK
  <2> QED
    BY <2>1, <2>2 DEF Books
<1>4. \A u \in UserTasks : SliceSoFar(u)' = SliceSoFar(u)
  BY <1>0, <1>1, <1>2 DEF SliceSoFar, TypeOK
<1>5. \A u \in UserTasks : proc_time'[u] = proc_time[u]
  BY <1>0, <1>1 DEF Books, TypeOK
<1>6. \A u \in UserTasks : Lost(u)' <=> Lost(u)
  BY <1>1, <1>4, <1>5 DEF Lost
<1>7. WithinLifetime'
  <2>1. ASSUME NEW u \in UserTasks, state'[u] # "new"
        PROVE  proc_time'[u] + SliceSoFar(u)' <= systemTime' - exec_start'[u]
    <3>1. CASE u = t
      <4>1. SliceSoFar(t) = 0 /\ proc_time'[t] = 0 /\ exec_start'[t] = systemTime
        BY <1>0, <1>1, <1>2 DEF SliceSoFar, TypeOK
      <4> QED
        BY <1>0, <1>1, <1>4, <3>1, <4>1, Numbers
    <3>2. CASE u # t
      BY <1>0, <1>1, <1>4, <1>5, <2>1, <3>2 DEF WithinLifetime, TypeOK
    <3> QED
      BY <3>1, <3>2
  <2> QED
    BY <1>0, <1>1, <2>1 DEF WithinLifetime
<1>8. OneLoser'
  BY <1>0, <1>1, <1>2, <1>6 DEF OneLoser, TypeOK
<1> QED
  BY <1>3, <1>7, <1>8 DEF AccInv

LEMMA LeaveAcc == AccInv /\ LeaveCPU => AccInv'
<1> SUFFICES ASSUME AccInv, LeaveCPU PROVE AccInv'
  OBVIOUS
<1> DEFINE c == taskExec
<1>0. Books /\ WithinLifetime /\ OneLoser /\ TypeOK
  BY DEF AccInv, Books
<1>1. /\ c \in UserTasks /\ Running(c) /\ switchTo' = System
      /\ UNCHANGED <<systemTime, taskExec, exec_start, last_proc, activations, report, spent>>
      /\ proc_time' = Charged(proc_time)
      /\ state' = [state EXCEPT ![c] = IF state[c] = "e" THEN "r" ELSE "x"]
  BY DEF LeaveCPU, Running
<1>2. state[c] # "new" /\ \A u \in UserTasks : ~Running(u)'
  BY <1>0, <1>1, AccountingParameters DEF Running, Switching, Books
<1>3. /\ \A u \in UserTasks : SliceSoFar(u)' = 0
      /\ \A u \in UserTasks : u # c => SliceSoFar(u) = 0
  BY <1>1, <1>2 DEF SliceSoFar, Running
<1>4. /\ proc_time' \in [UserTasks -> Nat]
      /\ proc_time'[c] = proc_time[c] + SliceSoFar(c)
      /\ \A u \in UserTasks : u # c => proc_time'[u] = proc_time[u]
  <2>1. proc_time \in [UserTasks -> Nat]
    BY <1>0 DEF TypeOK
  <2>2. CASE last_proc[c] > 0
    BY <1>0, <1>1, <2>1, <2>2, Numbers DEF Charged, SliceSoFar
  <2>3. CASE ~(last_proc[c] > 0)
    BY <1>0, <1>1, <2>1, <2>3, Numbers DEF Charged, SliceSoFar
  <2> QED
    BY <2>2, <2>3
<1> HIDE DEF c
<1>5. \A u \in UserTasks :
         /\ proc_time'[u] + SliceSoFar(u)' = proc_time[u] + SliceSoFar(u)
         /\ state'[u] = "new" <=> state[u] = "new"
  BY <1>0, <1>1, <1>2, <1>3, <1>4, Numbers DEF TypeOK
<1>6. Books'
  <2>1. TypeOK'
    BY <1>0, <1>1, <1>4 DEF TypeOK
  <2> QED
    BY <1>0, <1>1, <1>2, <1>4, <1>5, <2>1, AccountingParameters DEF Books
<1>7. WithinLifetime'
  BY <1>0, <1>1, <1>5 DEF WithinLifetime
<1>8. OneLoser'
  BY <1>0, <1>1, <1>2, <1>5 DEF OneLoser, Lost
<1> QED
  BY <1>6, <1>7, <1>8 DEF AccInv

LEMMA DispatchAcc == \A t \in UserTasks : AccInv /\ Dispatch(t) => AccInv'
<1> SUFFICES ASSUME NEW t \in UserTasks, AccInv, Dispatch(t) PROVE AccInv'
  OBVIOUS
<1>0. Books /\ WithinLifetime /\ OneLoser /\ TypeOK
  BY DEF AccInv, Books
<1>1. /\ taskExec = System /\ switchTo' = t /\ state[t] = "r"
      /\ state' = [state EXCEPT ![t] = "e"]
      /\ UNCHANGED <<systemTime, taskExec, exec_start, proc_time, last_proc,
                     activations, report, spent>>
  BY DEF Dispatch, fields
<1>2. \A u \in UserTasks : ~Running(u) /\ ~Running(u)'
  BY <1>1, AccountingParameters DEF Running
<1>3. \A u \in UserTasks : SliceSoFar(u) = 0 /\ SliceSoFar(u)' = 0
  BY <1>2 DEF SliceSoFar
<1>4. \A u \in UserTasks : state'[u] = "new" <=> state[u] = "new"
  BY <1>0, <1>1 DEF TypeOK
<1>5. Books'
  <2>1. TypeOK'
    BY <1>0, <1>1 DEF TypeOK
  <2> QED
    BY <1>0, <1>1, <1>4, <2>1 DEF Books
<1>6. WithinLifetime'
  BY <1>0, <1>1, <1>3, <1>4 DEF WithinLifetime
<1>7. OneLoser'
  BY <1>0, <1>1, <1>2, <1>3 DEF OneLoser, Lost
<1> QED
  BY <1>5, <1>6, <1>7 DEF AccInv

LEMMA SwitchAcc == AccInv /\ AfterTaskSwitch => AccInv'
<1> SUFFICES ASSUME AccInv, AfterTaskSwitch PROVE AccInv'
  OBVIOUS
<1>0. Books /\ WithinLifetime /\ OneLoser /\ TypeOK
  BY DEF AccInv, Books
<1>1. /\ Switching /\ taskExec' = switchTo
      /\ UNCHANGED <<systemTime, switchTo, state, exec_start, proc_time, report, spent>>
      /\ last_proc' = IF switchTo \in UserTasks
                      THEN [last_proc EXCEPT ![switchTo] = systemTime] ELSE last_proc
      /\ activations' = IF switchTo \in UserTasks
                        THEN [activations EXCEPT ![switchTo] = activations[switchTo] + 1]
                        ELSE activations
  BY DEF AfterTaskSwitch, SliceFromNow
<1>2. /\ last_proc' \in [UserTasks -> Nat] /\ activations' \in [UserTasks -> Nat]
      /\ \A u \in UserTasks : last_proc'[u] <= systemTime
      /\ \A u \in UserTasks : Running(u)' => last_proc'[u] = systemTime
  BY <1>0, <1>1, Numbers DEF TypeOK, Running
<1>3. \A u \in UserTasks : SliceSoFar(u) = 0 /\ SliceSoFar(u)' = 0
  <2>1. \A u \in UserTasks : ~Running(u)
    BY <1>1 DEF Running
  <2>2. \A u \in UserTasks : SliceSoFar(u)' = IF Running(u)' /\ last_proc'[u] > 0
                                              THEN systemTime - last_proc'[u] ELSE 0
    BY <1>1 DEF SliceSoFar
  <2>3. systemTime - systemTime = 0
    BY <1>0 DEF TypeOK
  <2> QED
    BY <1>2, <2>1, <2>2, <2>3 DEF SliceSoFar
<1>4. Books'
  <2>1. TypeOK'
    BY <1>0, <1>1, <1>2 DEF TypeOK
  <2> QED
    BY <1>0, <1>1, <1>2, <2>1 DEF Books
<1>5. WithinLifetime'
  BY <1>0, <1>1, <1>3 DEF WithinLifetime
<1>6. \A u \in UserTasks : Lost(u)' <=> Lost(u)
  BY <1>1, <1>3 DEF Lost
<1>7. OneLoser'
  BY <1>0, <1>1, <1>2, <1>6 DEF OneLoser
<1> QED
  BY <1>4, <1>5, <1>7 DEF AccInv

LEMMA ExitAcc == \A t \in UserTasks : AccInv /\ TaskExit(t) => AccInv'
<1> SUFFICES ASSUME NEW t \in UserTasks, AccInv, TaskExit(t) PROVE AccInv'
  OBVIOUS
<1>0. Books /\ WithinLifetime /\ OneLoser /\ TypeOK
  BY DEF AccInv, Books
<1> DEFINE r == [total |-> systemTime - exec_start[t], proc |-> proc_time[t],
                 acts |-> activations[t]]
<1>1. /\ state[t] = "e" /\ state' = [state EXCEPT ![t] = "x"]
      /\ report' = [report EXCEPT ![t] = r]
      /\ UNCHANGED <<systemTime, taskExec, switchTo, exec_start, proc_time, last_proc,
                     activations, spent>>
  BY DEF TaskExit, fields
<1>2. r \in [total : Nat, proc : Nat, acts : Nat] /\ r.proc <= r.total
  <2>1. proc_time[t] + SliceSoFar(t) <= systemTime - exec_start[t]
    BY <1>0, <1>1 DEF WithinLifetime
  <2> QED
    BY <1>0, <2>1, Numbers
<1> HIDE DEF r
<1>3. \A u \in UserTasks : Running(u)' <=> Running(u)
  BY <1>1 DEF Running, Switching
<1>4. \A u \in UserTasks : /\ SliceSoFar(u)' = SliceSoFar(u)
                           /\ state'[u] = "new" <=> state[u] = "new"
  BY <1>0, <1>1, <1>3 DEF SliceSoFar, TypeOK
<1>5. Books'
  <2>1. TypeOK'
    BY <1>0, <1>1, <1>2 DEF TypeOK
  <2> QED
    BY <1>0, <1>1, <1>4, <2>1 DEF Books
<1>6. WithinLifetime'
  BY <1>0, <1>1, <1>2, <1>4 DEF WithinLifetime, TypeOK
<1>7. OneLoser'
  BY <1>0, <1>1, <1>3, <1>4 DEF OneLoser, Lost
<1> QED
  BY <1>5, <1>6, <1>7 DEF AccInv

LEMMA StutterAcc == AccInv /\ UNCHANGED vars => AccInv'
<1> SUFFICES ASSUME AccInv, UNCHANGED vars PROVE AccInv'
  OBVIOUS
<1>1. UNCHANGED <<systemTime, taskExec, switchTo, state, exec_start, proc_time,
                  last_proc, activations, report, spent>>
  BY DEF vars, fields
<1>2. \A u \in UserTasks : (Running(u)' <=> Running(u)) /\ SliceSoFar(u)' = SliceSoFar(u)
  BY <1>1 DEF SliceSoFar, Running, Switching
<1>3. \A u \in UserTasks : Lost(u)' <=> Lost(u)
  BY <1>1, <1>2 DEF Lost
<1>4. Books' /\ WithinLifetime'
  BY <1>1, <1>2 DEF AccInv, Books, TypeOK, WithinLifetime
<1>5. OneLoser'
  BY <1>1, <1>2, <1>3 DEF AccInv, OneLoser
<1> QED
  BY <1>4, <1>5 DEF AccInv

LEMMA AccInvariant == Spec => []AccInv
<1>1. AccInv /\ [Next]_vars => AccInv'
  BY TickAcc, CreateAcc, LeaveAcc, DispatchAcc, SwitchAcc, ExitAcc, StutterAcc DEF Next
<1> QED
  BY <1>1, InitAcc, PTL DEF Spec

\* The accounts are numbers: no slice is negative and none wraps below zero, since
\* last_proc and exec_start are never ahead of the clock.
THEOREM AccountTypes == Spec => []TypeOK
<1>1. AccInv => TypeOK
  BY DEF AccInv, Books
<1> QED
  BY <1>1, AccInvariant, PTL

\* No task is charged for more than its lifetime or reported with more processor
\* time than execution time (after_task_exit).
THEOREM LifetimeBounds == Spec => []WithinLifetime
<1>1. AccInv => WithinLifetime
  BY DEF AccInv
<1> QED
  BY <1>1, AccInvariant, PTL

\* At most one task ever has ticks it is not charged for: the one whose slice began
\* at time 0 (the test of last_proc in before_task_switch).
THEOREM OneTaskLoses == Spec => []LostToOne
<1>1. AccInv => LostToOne
  <2> SUFFICES ASSUME AccInv PROVE LostToOne
    OBVIOUS
  <2> DEFINE losers == {t \in UserTasks : Lost(t)}
  <2>1. \A t, u \in losers : t = u
    BY DEF AccInv, OneLoser
  <2>2. LostToOne <=> Cardinality(losers) <= 1
    BY DEF LostToOne, Lost
  <2> HIDE DEF losers
  <2>3. CASE losers = {}
    BY <2>2, <2>3, FS_EmptySet
  <2>4. CASE losers # {}
    <3>1. PICK t : losers = {t}
      BY <2>1, <2>4
    <3> QED
      BY <2>2, <3>1, FS_Singleton
  <2> QED
    BY <2>3, <2>4
<1> QED
  BY <1>1, AccInvariant, PTL

-----------------------------------------------------------------------------
(* The accounts of all tasks together.                                     *)

\* What each task has been and will be charged.
Accounts == [t \in UserTasks |-> proc_time[t] + SliceSoFar(t)]

\* The sum of the accounts.
InAll == Cardinality(Area(UserTasks, Accounts))

LEMMA AccountsTyped == Books => Accounts \in [UserTasks -> Nat]
  BY Numbers DEF Accounts

LEMMA NextNumbers ==
    ASSUME Books', NEW t \in UserTasks
    PROVE  /\ proc_time'[t] \in Nat /\ SliceSoFar(t)' \in Nat
           /\ Accounts'[t] = proc_time'[t] + SliceSoFar(t)'
  BY DEF Books, TypeOK, SliceSoFar, Accounts

\* MapThenSumSet adds the accounts up.
LEMMA SumOfAccounts == Books => (NoTickTwice <=> InAll <= systemTime)
<1> SUFFICES ASSUME Books PROVE NoTickTwice <=> InAll <= systemTime
  OBVIOUS
<1> DEFINE Adds(f) ==
      f = [s \in SUBSET UserTasks |->
              IF s = {} THEN 0
              ELSE LET t == CHOOSE t \in s : TRUE
                   IN (proc_time[t] + SliceSoFar(t)) + f[s \ {t}]]
<1>1. IsFiniteSet(UserTasks) /\ Accounts \in [UserTasks -> Nat]
  BY AccountingParameters, AccountsTyped
<1>2. ASSUME NEW f PROVE Adds(f) <=> SumsUp(f, Accounts, UserTasks)
  <2>1. \A s \in SUBSET UserTasks : s # {} =>
           LET t == CHOOSE t \in s : TRUE IN Accounts[t] = proc_time[t] + SliceSoFar(t)
    BY DEF Accounts
  <2> QED
    BY <2>1 DEF SumsUp
<1> HIDE DEF Adds
<1>3. Adds(CHOOSE f : Adds(f))
  BY <1>1, <1>2, SumsUpExists
<1>4. NoTickTwice <=> (CHOOSE f : Adds(f))[UserTasks] <= systemTime
  BY DEF NoTickTwice, MapThenSumSet, MapThenFoldSet, Adds
<1>5. (CHOOSE f : Adds(f))[UserTasks] = InAll
  BY <1>1, <1>2, <1>3, SumIsArea DEF InAll
<1> QED
  BY <1>4, <1>5

\* Only the clock changes accounts, and of one task at most, by one tick.
LEMMA OneAccountPerTick ==
    ASSUME AccInv, Books', [Next]_vars
    PROVE  \/ Accounts' = Accounts /\ systemTime' = systemTime
           \/ /\ systemTime' = systemTime + 1
              /\ \A t, u \in UserTasks :
                    Accounts'[t] # Accounts[t] /\ Accounts'[u] # Accounts[u] => t = u
              /\ \A t \in UserTasks : Accounts'[t] <= Accounts[t] + 1
<1>0. Books /\ TypeOK
  BY DEF AccInv, Books
<1>a. SUFFICES
        \/ /\ \A t \in UserTasks :
                 proc_time'[t] + SliceSoFar(t)' = proc_time[t] + SliceSoFar(t)
           /\ systemTime' = systemTime
        \/ /\ systemTime' = systemTime + 1 /\ proc_time' = proc_time
           /\ \A t, u \in UserTasks :
                 SliceSoFar(t)' # SliceSoFar(t) /\ SliceSoFar(u)' # SliceSoFar(u) => t = u
           /\ \A t \in UserTasks : SliceSoFar(t)' <= SliceSoFar(t) + 1
  <2>1. Accounts' = [t \in UserTasks |-> proc_time'[t] + SliceSoFar(t)']
    BY DEF Accounts
  <2>2. ASSUME NEW t \in UserTasks
        PROVE  /\ Accounts'[t] = proc_time'[t] + SliceSoFar(t)'
               /\ Accounts[t] = proc_time[t] + SliceSoFar(t)
               /\ proc_time[t] \in Nat /\ SliceSoFar(t) \in Nat
               /\ proc_time'[t] \in Nat /\ SliceSoFar(t)' \in Nat
    BY <1>0, Numbers, NextNumbers DEF Accounts
  <2>3. CASE /\ \A t \in UserTasks :
                    proc_time'[t] + SliceSoFar(t)' = proc_time[t] + SliceSoFar(t)
             /\ systemTime' = systemTime
    BY <2>1, <2>3, Zenon DEF Accounts
  <2>4. CASE /\ systemTime' = systemTime + 1 /\ proc_time' = proc_time
             /\ \A t, u \in UserTasks :
                   SliceSoFar(t)' # SliceSoFar(t) /\ SliceSoFar(u)' # SliceSoFar(u) => t = u
             /\ \A t \in UserTasks : SliceSoFar(t)' <= SliceSoFar(t) + 1
    BY <2>2, <2>4
  <2> QED
    BY <1>a, <2>3, <2>4
<1>1. CASE Tick
  <2>1. /\ systemTime' = systemTime + 1 /\ systemTime \in Nat
        /\ UNCHANGED <<taskExec, switchTo, proc_time, last_proc>>
    BY <1>0, <1>1 DEF Tick, fields, TypeOK
  <2>2. \A t \in UserTasks : Running(t)' <=> Running(t)
    BY <2>1 DEF Running, Switching
  <2>3. \A t \in UserTasks : /\ ~Running(t) => SliceSoFar(t)' = SliceSoFar(t)
                             /\ SliceSoFar(t)' <= SliceSoFar(t) + 1
    BY <1>0, <2>1, <2>2, Numbers DEF SliceSoFar
  <2>4. \A t, u \in UserTasks : Running(t) /\ Running(u) => t = u
    BY DEF Running
  <2> QED
    BY <2>1, <2>3, <2>4
<1>2. ASSUME NEW t \in UserTasks, TaskCreate(t)
      PROVE  /\ \A u \in UserTasks :
                   proc_time'[u] + SliceSoFar(u)' = proc_time[u] + SliceSoFar(u)
             /\ systemTime' = systemTime
  <2>1. /\ UNCHANGED <<systemTime, taskExec, switchTo>> /\ state[t] = "new"
        /\ proc_time' = [proc_time EXCEPT ![t] = 0]
        /\ last_proc' = [last_proc EXCEPT ![t] = 0]
    BY <1>2 DEF TaskCreate
  <2>2. ~Running(t) /\ \A u \in UserTasks : Running(u)' <=> Running(u)
    BY <1>0, <2>1 DEF Running, Switching, Books
  <2>3. \A u \in UserTasks : SliceSoFar(u)' = SliceSoFar(u)
    BY <1>0, <2>1, <2>2 DEF SliceSoFar, TypeOK
  <2>4. \A u \in UserTasks : proc_time'[u] = proc_time[u]
    BY <1>0, <2>1 DEF Books, TypeOK
  <2> QED
    BY <2>1, <2>3, <2>4
<1>3. CASE LeaveCPU
  <2> DEFINE c == taskExec
  <2>1. /\ c \in UserTasks /\ Running(c) /\ switchTo' = System
        /\ UNCHANGED <<systemTime, taskExec, last_proc>>
        /\ proc_time' = Charged(proc_time)
    BY <1>3 DEF LeaveCPU, Running
  <2>2. \A u \in UserTasks : ~Running(u)'
    BY <1>0, <2>1, AccountingParameters DEF Running, Switching, Books
  <2>3. /\ \A u \in UserTasks : SliceSoFar(u)' = 0
        /\ \A u \in UserTasks : u # c => SliceSoFar(u) = 0
    BY <2>1, <2>2 DEF SliceSoFar, Running
  <2>4. /\ proc_time'[c] = proc_time[c] + SliceSoFar(c)
        /\ \A u \in UserTasks : u # c => proc_time'[u] = proc_time[u]
    BY <1>0, <2>1, Numbers DEF Charged, SliceSoFar, TypeOK
  <2> HIDE DEF c
  <2>5. \A u \in UserTasks : SliceSoFar(u) \in Nat /\ proc_time[u] \in Nat
    BY <1>0, Numbers
  <2> QED
    BY <2>1, <2>3, <2>4, <2>5
<1>4. ASSUME NEW t \in UserTasks, Dispatch(t)
      PROVE  /\ \A u \in UserTasks :
                   proc_time'[u] + SliceSoFar(u)' = proc_time[u] + SliceSoFar(u)
             /\ systemTime' = systemTime
  <2>1. taskExec = System /\ UNCHANGED <<systemTime, taskExec, proc_time, last_proc>>
    BY <1>4 DEF Dispatch, fields
  <2>2. \A u \in UserTasks : SliceSoFar(u)' = 0 /\ SliceSoFar(u) = 0
    BY <2>1, AccountingParameters DEF SliceSoFar, Running
  <2> QED
    BY <2>1, <2>2
<1>5. CASE AfterTaskSwitch
  <2>1. /\ Switching /\ taskExec' = switchTo
        /\ UNCHANGED <<systemTime, switchTo, proc_time>>
        /\ last_proc' = IF switchTo \in UserTasks
                        THEN [last_proc EXCEPT ![switchTo] = systemTime] ELSE last_proc
    BY <1>5 DEF AfterTaskSwitch, SliceFromNow
  <2>2. \A u \in UserTasks : ~Running(u) /\ (Running(u)' => last_proc'[u] = systemTime')
    BY <1>0, <2>1 DEF TypeOK, Running
  <2>3. systemTime' - systemTime' = 0
    BY <1>0, <2>1 DEF TypeOK
  <2>4. \A u \in UserTasks : SliceSoFar(u) = 0 /\ SliceSoFar(u)' = 0
    BY <2>2, <2>3 DEF SliceSoFar
  <2> QED
    BY <2>1, <2>4
<1>6. ASSUME NEW t \in UserTasks, TaskExit(t)
      PROVE  /\ \A u \in UserTasks :
                   proc_time'[u] + SliceSoFar(u)' = proc_time[u] + SliceSoFar(u)
             /\ systemTime' = systemTime
  BY <1>6 DEF TaskExit, fields, SliceSoFar, Running, Switching
<1>7. CASE UNCHANGED vars
  BY <1>7 DEF vars, fields, SliceSoFar, Running, Switching
<1> QED
  BY <1>1, <1>2, <1>3, <1>4, <1>5, <1>6, <1>7 DEF Next

LEMMA InAllStep ==
    ASSUME AccInv, AccInv', [Next]_vars, InAll <= systemTime
    PROVE  InAll' <= systemTime'
<1>0. /\ Accounts \in [UserTasks -> Nat] /\ Accounts' \in [UserTasks -> Nat]
      /\ IsFiniteSet(UserTasks) /\ systemTime \in Nat
  <2>1. Books /\ Books'
    BY DEF AccInv
  <2>2. Accounts' \in [UserTasks -> Nat]
    BY <2>1, NextNumbers DEF Accounts
  <2> QED
    BY <2>1, <2>2, AccountsTyped, AccountingParameters DEF Books, TypeOK
<1>1. CASE Accounts' = Accounts /\ systemTime' = systemTime
  BY <1>1 DEF InAll
<1>2. CASE /\ systemTime' = systemTime + 1
           /\ \A t, u \in UserTasks :
                 Accounts'[t] # Accounts[t] /\ Accounts'[u] # Accounts[u] => t = u
           /\ \A t \in UserTasks : Accounts'[t] <= Accounts[t] + 1
  <2>1. CASE \E t \in UserTasks : Accounts'[t] # Accounts[t]
    <3>1. PICK t \in UserTasks : Accounts'[t] # Accounts[t]
      BY <2>1
    <3>2. \A u \in UserTasks \ {t} : Accounts'[u] = Accounts[u]
      BY <1>2, <3>1
    <3>3. InAll' = InAll + Accounts'[t] - Accounts[t] /\ InAll \in Nat
      BY <1>0, <3>2, ChangeColumn DEF InAll
    <3>4. Accounts'[t] <= Accounts[t] + 1 /\ Accounts[t] \in Nat /\ Accounts'[t] \in Nat
      BY <1>0, <1>2
    <3> QED
      BY <1>0, <1>2, <3>3, <3>4
  <2>2. CASE \A t \in UserTasks : Accounts'[t] = Accounts[t]
    <3>1. Accounts' = Accounts
      BY <1>0, <2>2, Zenon DEF Accounts
    <3>2. InAll' = InAll /\ InAll \in Nat
      BY <1>0, <3>1, AreaFinite, FS_CardinalityType DEF InAll
    <3> QED
      BY <1>0, <1>2, <3>2
  <2> QED
    BY <2>1, <2>2
<1> QED
  BY <1>1, <1>2, OneAccountPerTick DEF AccInv

\* What all tasks have been charged, and will be for their slices so far, fits in the
\* clock: no tick is charged to two tasks, nor twice to one (before_task_switch,
\* after_task_switch), however the clock ticks inside a switch.
THEOREM NoTickChargedTwice == Spec => []NoTickTwice
<1>1. Init => InAll <= systemTime
  <2> SUFFICES ASSUME Init PROVE InAll <= systemTime
    OBVIOUS
  <2>1. \A t \in UserTasks : Accounts[t] = 0
    BY AccountingParameters DEF Init, Accounts, SliceSoFar, Running
  <2>2. InAll = 0 /\ systemTime = 0
    BY <2>1, NoColumns DEF InAll, Init
  <2> QED
    BY <2>2
<1>2. AccInv /\ AccInv' /\ [Next]_vars /\ InAll <= systemTime => (InAll <= systemTime)'
  BY InAllStep
<1>3. AccInv /\ InAll <= systemTime => NoTickTwice
  BY SumOfAccounts DEF AccInv
<1> QED
  BY <1>1, <1>2, <1>3, AccInvariant, PTL DEF Spec
=============================================================================
