------------------------- MODULE DiskManagerProofs -------------------------
(***************************************************************************)
(* Machine-checked facts about DiskManager, for every number of tasks,     *)
(* blocks and calls, every policy and every choice of the control points   *)
(* at which a quantum may run out.                                         *)
(***************************************************************************)
EXTENDS DiskManager, ListsAndSums

USE DEF ClientPoints, MgrPoints, Operations

-----------------------------------------------------------------------------
(* Lines of tasks: the waiters of a semaphore, a queue of suspended tasks. *)

NoRepeat(s) == \A i, j \in DOMAIN s : s[i] = s[j] => i = j

LEMMA JoinLine ==
    ASSUME NEW S, NEW s \in Seq(S), NoRepeat(s), NEW p, p \notin S
    PROVE  /\ Append(s, p) \in Seq(S \cup {p}) /\ NoRepeat(Append(s, p))
           /\ Len(Append(s, p)) = Len(s) + 1
<1>1. s \in Seq(S \cup {p}) /\ Len(s) \in Nat /\ DOMAIN s = 1 .. Len(s)
  BY SeqMonotonic, LenProperties
<1>2. \A i \in DOMAIN s : s[i] \in S
  BY ElementOfSeq
<1>3. /\ Append(s, p) \in Seq(S \cup {p}) /\ Len(Append(s, p)) = Len(s) + 1
      /\ DOMAIN Append(s, p) = 1 .. Len(s) + 1
      /\ \A i \in 1 .. Len(s) : Append(s, p)[i] = s[i]
      /\ Append(s, p)[Len(s) + 1] = p
  BY <1>1, AppendProperties
<1>4. NoRepeat(Append(s, p))
  BY <1>1, <1>2, <1>3 DEF NoRepeat
<1> QED
  BY <1>3, <1>4

LEMMA LeaveLine ==
    ASSUME NEW S, NEW s \in Seq(S), NoRepeat(s), s # <<>>
    PROVE  /\ Head(s) \in S
           /\ Tail(s) \in Seq(S \ {Head(s)}) /\ NoRepeat(Tail(s))
           /\ Len(Tail(s)) = Len(s) - 1
<1>1. /\ Head(s) = s[1] /\ Head(s) \in S
      /\ Tail(s) \in Seq(S) /\ Len(Tail(s)) = Len(s) - 1
      /\ \A i \in 1 .. Len(Tail(s)) : Tail(s)[i] = s[i + 1]
  BY HeadTailProperties
<1>2. Len(s) \in Nat /\ Len(s) # 0 /\ DOMAIN s = 1 .. Len(s)
  BY LenProperties, EmptySeq
<1>3. Tail(s) \in [1 .. Len(s) - 1 -> S] /\ Len(s) - 1 \in Nat
  BY <1>1, <1>2, LenProperties
<1>4. \A i \in 1 .. Len(s) - 1 : Tail(s)[i] \in S \ {Head(s)}
  <2> TAKE i \in 1 .. Len(s) - 1
  <2>1. Tail(s)[i] = s[i + 1] /\ i + 1 \in DOMAIN s /\ 1 \in DOMAIN s /\ i + 1 # 1
    BY <1>1, <1>2
  <2>2. s[i + 1] # s[1] /\ s[i + 1] \in S
    BY <2>1, ElementOfSeq DEF NoRepeat
  <2> QED
    BY <1>1, <2>1, <2>2
<1>5. Tail(s) \in Seq(S \ {Head(s)})
  <2>1. Tail(s) \in [1 .. Len(s) - 1 -> S \ {Head(s)}]
    BY <1>3, <1>4
  <2> DEFINE T == S \ {Head(s)}
             n == Len(s) - 1
  <2> HIDE DEF T, n
  <2>2. Tail(s) \in [1 .. n -> T] /\ n \in Nat
    BY <1>3, <2>1 DEF T, n
  <2>3. Tail(s) \in Seq(T)
    BY <2>2, SeqDef
  <2> QED
    BY <2>3 DEF T
<1>6. NoRepeat(Tail(s))
  <2> SUFFICES ASSUME NEW i \in 1 .. Len(s) - 1, NEW j \in 1 .. Len(s) - 1,
                      Tail(s)[i] = Tail(s)[j]
               PROVE  i = j
    BY <1>3 DEF NoRepeat
  <2>1. s[i + 1] = s[j + 1] /\ i + 1 \in DOMAIN s /\ j + 1 \in DOMAIN s
    BY <1>1, <1>2
  <2>2. i + 1 = j + 1
    BY <2>1 DEF NoRepeat
  <2> QED
    BY <2>2
<1> QED
  BY <1>1, <1>5, <1>6

-----------------------------------------------------------------------------
(* The lines of the manager and what the semaphore does to them.           *)

\* The tasks in sem_down(&disk.semaforo_queue), and those that sleep until the
\* manager resumes them.
Waiting == {c \in Clients : pc[c] = "semwait"} \cup {m \in {Mgr} : mpc = "semwait"}
Parked == {c \in Clients : pc[c] = "blocked"}

Lines ==
    /\ semWait \in Seq(Waiting) /\ NoRepeat(semWait)
    /\ diskQueue \in Seq(Parked) /\ NoRepeat(diskQueue)

\* A task inside a call has filled in its request.
Filled == \A c \in Clients : pc[c] # "user" => request[c] \in Request

Structure == TypeOK /\ Filled /\ Lines /\ PickStays

\* sem_up lets the oldest waiter in, or nobody.
LEMMA SemUpEffect ==
    ASSUME Structure,
           NEW points \in [Clients -> ClientPoints], NEW m \in MgrPoints,
           SemUp(points, m),
           \A c \in Clients : points[c] = "semwait" <=> pc[c] = "semwait",
           m = "semwait" <=> mpc = "semwait"
    PROVE  /\ pc' \in [Clients -> ClientPoints] /\ mpc' \in MgrPoints
           /\ semaforo_queue' = semaforo_queue + 1
           /\ semWait' \in Seq(Waiting') /\ NoRepeat(semWait')
           /\ \/ semWait = <<>> /\ semWait' = <<>> /\ pc' = points /\ mpc' = m
              \/ /\ semWait # <<>> /\ Len(semWait') = Len(semWait) - 1
                 /\ mpc = "semwait" /\ pc' = points /\ mpc' = "remove"
              \/ /\ semWait # <<>> /\ Len(semWait') = Len(semWait) - 1
                 /\ \E p \in Clients :
                       pc[p] = "semwait" /\ pc' = [points EXCEPT ![p] = "append"]
                 /\ mpc' = m
<1>0. /\ semWait \in Seq(Waiting) /\ NoRepeat(semWait)
      /\ Mgr \notin Clients
      /\ semaforo_queue' = semaforo_queue + 1
  BY DiskParameters DEF Structure, Lines, SemUp
<1>1. CASE semWait = <<>>
  <2>1. semWait' = <<>> /\ pc' = points /\ mpc' = m
    BY <1>1 DEF SemUp
  <2>2. pc' \in [Clients -> ClientPoints] /\ mpc' \in MgrPoints
    BY <2>1
  <2>3. semWait' \in Seq(Waiting') /\ NoRepeat(semWait')
    BY <2>1, EmptySeq DEF NoRepeat
  <2> QED
    BY <1>0, <1>1, <2>1, <2>2, <2>3
<1>2. CASE semWait # <<>>
  <2> DEFINE p == Head(semWait)
  <2>1. /\ p \in Waiting /\ semWait' = Tail(semWait)
        /\ semWait' \in Seq(Waiting \ {p}) /\ NoRepeat(semWait')
        /\ Len(semWait') = Len(semWait) - 1
    <3>1. semWait' = Tail(semWait)
      BY <1>2 DEF SemUp
    <3>2. /\ Head(semWait) \in Waiting
          /\ Tail(semWait) \in Seq(Waiting \ {Head(semWait)}) /\ NoRepeat(Tail(semWait))
          /\ Len(Tail(semWait)) = Len(semWait) - 1
      BY <1>0, <1>2, LeaveLine
    <3> QED
      BY <3>1, <3>2
  <2>2. CASE p = Mgr
    <3>1. pc' = points /\ mpc' = "remove" /\ mpc = "semwait"
      BY <1>0, <1>2, <2>1, <2>2 DEF SemUp, Waiting
    <3>2. Waiting \ {p} \subseteq Waiting'
      BY <2>2, <3>1 DEF Waiting
    <3>3. semWait' \in Seq(Waiting')
      BY <2>1, <3>2, SeqMonotonic
    <3>4. pc' \in [Clients -> ClientPoints] /\ mpc' \in MgrPoints
      BY <3>1
    <3> HIDE DEF p
    <3> QED
      BY <1>0, <1>2, <2>1, <3>1, <3>3, <3>4
  <2>3. CASE p # Mgr
    <3>1. p \in Clients /\ pc[p] = "semwait"
      BY <2>1, <2>3 DEF Waiting
    <3>2. pc' = [points EXCEPT ![p] = "append"] /\ mpc' = m
      BY <1>2, <2>3 DEF SemUp
    <3>3. Waiting \ {p} \subseteq Waiting'
      BY <3>1, <3>2 DEF Waiting
    <3>4. semWait' \in Seq(Waiting')
      BY <2>1, <3>3, SeqMonotonic
    <3> HIDE DEF p
    <3>5. pc' \in [Clients -> ClientPoints] /\ mpc' \in MgrPoints
      BY <3>1, <3>2
    <3> QED
      BY <1>0, <1>2, <2>1, <3>1, <3>2, <3>4, <3>5
  <2> QED
    BY <2>2, <2>3
<1> QED
  BY <1>1, <1>2

\* Whoever waits or is parked stays in its line unless the step says otherwise.
LEMMA LinesKept ==
    ASSUME Structure, UNCHANGED <<semWait, diskQueue>>,
           \A c \in Clients : pc[c] \in {"semwait", "blocked"} => pc'[c] = pc[c],
           mpc = "semwait" => mpc' = "semwait"
    PROVE  Lines'
<1>1. Waiting \subseteq Waiting' /\ Parked \subseteq Parked'
  BY DEF Waiting, Parked
<1>2. /\ semWait \in Seq(Waiting) /\ NoRepeat(semWait)
      /\ diskQueue \in Seq(Parked) /\ NoRepeat(diskQueue)
  BY DEF Structure, Lines
<1>3. semWait \in Seq(Waiting') /\ diskQueue \in Seq(Parked')
  BY <1>1, <1>2, SeqMonotonic
<1> QED
  BY <1>2, <1>3 DEF Lines, NoRepeat

LEMMA ClientLines ==
    ASSUME Structure, NEW c \in Clients, Client(c)
    PROVE  Lines'
<1> USE DEF taskVars, mgrVars, queueVars, semVars, diskVars, Goto
<1>0. /\ pc \in [Clients -> ClientPoints] /\ mpc \in MgrPoints
      /\ semWait \in Seq(Waiting) /\ NoRepeat(semWait)
      /\ diskQueue \in Seq(Parked) /\ NoRepeat(diskQueue)
  BY DEF Structure, TypeOK, Lines
<1>1. ASSUME NEW op \in Operations, NEW b \in ValidBlocks, Call(c, op, b) PROVE Lines'
  BY <1>0, <1>1, LinesKept DEF Call
<1>2. CASE ClientDown(c)
  <2>1. CASE semaforo_queue > 0
    BY <1>0, <1>2, <2>1, LinesKept DEF ClientDown, SemDown
  <2>2. CASE ~(semaforo_queue > 0)
    <3>1. /\ semWait' = Append(semWait, c) /\ diskQueue' = diskQueue
          /\ pc' = [pc EXCEPT ![c] = "semwait"] /\ pc[c] = "down" /\ mpc' = mpc
      BY <1>2, <2>2 DEF ClientDown, SemDown
    <3>2. c \notin Waiting
      BY <3>1, DiskParameters DEF Waiting
    <3>3. Append(semWait, c) \in Seq(Waiting \cup {c}) /\ NoRepeat(Append(semWait, c))
      BY <1>0, <3>2, JoinLine
    <3>4. Waiting \cup {c} \subseteq Waiting' /\ Parked \subseteq Parked'
      BY <1>0, <3>1 DEF Waiting, Parked
    <3>5. Append(semWait, c) \in Seq(Waiting') /\ diskQueue \in Seq(Parked')
      BY <1>0, <3>3, <3>4, SeqMonotonic
    <3> QED
      BY <1>0, <3>1, <3>3, <3>5 DEF Lines
  <2> QED
    BY <2>1, <2>2
<1>3. CASE QueueAppend(c)
  BY <1>0, <1>3, LinesKept DEF QueueAppend
<1>4. CASE QueueLink(c)
  BY <1>0, <1>4, LinesKept DEF QueueLink
<1>5. CASE ClientUp(c)
  <2> DEFINE points == [pc EXCEPT ![c] = "suspend"]
  <2>1. SemUp(points, mpc) /\ pc[c] = "up" /\ diskQueue' = diskQueue
    BY <1>5 DEF ClientUp
  <2>2. /\ points \in [Clients -> ClientPoints]
        /\ \A d \in Clients : points[d] = "semwait" <=> pc[d] = "semwait"
        /\ \A d \in Clients : pc[d] = "blocked" => points[d] = "blocked"
    BY <1>0, <2>1
  <2> HIDE DEF points
  <2>3. /\ semWait' \in Seq(Waiting') /\ NoRepeat(semWait')
        /\ \/ pc' = points
           \/ \E p \in Clients : pc[p] = "semwait" /\ pc' = [points EXCEPT ![p] = "append"]
    BY <1>0, <2>1, <2>2, SemUpEffect
  <2>4. Parked \subseteq Parked'
    BY <2>2, <2>3 DEF Parked
  <2>5. diskQueue' \in Seq(Parked')
    BY <1>0, <2>1, <2>4, SeqMonotonic
  <2> QED
    BY <1>0, <2>1, <2>3, <2>5 DEF Lines
<1>6. CASE Suspend(c)
  <2>1. /\ diskQueue' = Append(diskQueue, c) /\ semWait' = semWait
        /\ pc' = [pc EXCEPT ![c] = "blocked"] /\ pc[c] = "suspend" /\ mpc' = mpc
    BY <1>6 DEF Suspend
  <2>2. c \notin Parked
    BY <2>1 DEF Parked
  <2>3. Append(diskQueue, c) \in Seq(Parked \cup {c}) /\ NoRepeat(Append(diskQueue, c))
    BY <1>0, <2>2, JoinLine
  <2>4. Parked \cup {c} \subseteq Parked' /\ Waiting \subseteq Waiting'
    BY <1>0, <2>1 DEF Waiting, Parked
  <2>5. Append(diskQueue, c) \in Seq(Parked') /\ semWait \in Seq(Waiting')
    BY <1>0, <2>3, <2>4, SeqMonotonic
  <2> QED
    BY <1>0, <2>1, <2>3, <2>5 DEF Lines
<1>7. CASE CountLoad(c)
  BY <1>0, <1>7, LinesKept DEF CountLoad
<1>8. CASE CountStore(c)
  BY <1>0, <1>8, LinesKept DEF CountStore
<1> QED
  BY <1>1, <1>2, <1>3, <1>4, <1>5, <1>6, <1>7, <1>8 DEF Client

LEMMA ManagerLines ==
    ASSUME Structure, Manager
    PROVE  Lines'
<1> USE DEF taskVars, mgrVars, queueVars, semVars, diskVars, Goto
<1>0. /\ pc \in [Clients -> ClientPoints] /\ mpc \in MgrPoints
      /\ semWait \in Seq(Waiting) /\ NoRepeat(semWait)
      /\ diskQueue \in Seq(Parked) /\ NoRepeat(diskQueue)
  BY DEF Structure, TypeOK, Lines
<1>1. CASE MgrTop
  BY <1>0, <1>1, LinesKept DEF MgrTop
<1>2. CASE ProcessCompletionEvents
  <2>1. CASE ~sinal \/ diskQueue = <<>>
    BY <1>0, <1>2, <2>1, LinesKept DEF ProcessCompletionEvents, ResumeFirst
  <2>2. CASE sinal /\ diskQueue # <<>>
    <3> DEFINE p == Head(diskQueue)
    <3>1. /\ diskQueue' = Tail(diskQueue) /\ pc' = [pc EXCEPT ![p] = "load"]
          /\ semWait' = semWait /\ mpc = "complete"
      BY <1>2, <2>2 DEF ProcessCompletionEvents, ResumeFirst
    <3>2. /\ p \in Parked
          /\ Tail(diskQueue) \in Seq(Parked \ {p}) /\ NoRepeat(Tail(diskQueue))
      BY <1>0, <2>2, LeaveLine
    <3> HIDE DEF p
    <3>3. Waiting \subseteq Waiting' /\ Parked \ {p} \subseteq Parked'
      BY <1>0, <3>1, <3>2 DEF Waiting, Parked
    <3>4. Tail(diskQueue) \in Seq(Parked') /\ semWait \in Seq(Waiting')
      BY <1>0, <3>2, <3>3, SeqMonotonic
    <3> QED
      BY <1>0, <3>1, <3>2, <3>4 DEF Lines
  <2> QED
    BY <2>1, <2>2
<1>3. CASE ProcessNewRequests
  BY <1>0, <1>3, LinesKept DEF ProcessNewRequests
<1>4. CASE MgrDown
  <2>1. CASE semaforo_queue > 0
    BY <1>0, <1>4, <2>1, LinesKept DEF MgrDown, SemDown
  <2>2. CASE ~(semaforo_queue > 0)
    <3>1. /\ semWait' = Append(semWait, Mgr) /\ diskQueue' = diskQueue
          /\ pc' = pc /\ mpc = "down" /\ mpc' = "semwait"
      BY <1>4, <2>2 DEF MgrDown, SemDown
    <3>2. Mgr \notin Waiting
      BY <3>1, DiskParameters DEF Waiting
    <3>3. Append(semWait, Mgr) \in Seq(Waiting \cup {Mgr}) /\ NoRepeat(Append(semWait, Mgr))
      BY <1>0, <3>2, JoinLine
    <3>4. Waiting \cup {Mgr} \subseteq Waiting' /\ Parked \subseteq Parked'
      BY <1>0, <3>1 DEF Waiting, Parked
    <3>5. Append(semWait, Mgr) \in Seq(Waiting') /\ diskQueue \in Seq(Parked')
      BY <1>0, <3>3, <3>4, SeqMonotonic
    <3> QED
      BY <1>0, <3>1, <3>3, <3>5 DEF Lines
  <2> QED
    BY <2>1, <2>2
<1>5. CASE MgrRemove
  <2>1. SemUp(pc, "cmd") /\ mpc = "remove" /\ diskQueue' = diskQueue
    BY <1>5 DEF MgrRemove
  <2>2. /\ semWait' \in Seq(Waiting') /\ NoRepeat(semWait')
        /\ \/ pc' = pc
           \/ \E p \in Clients : pc[p] = "semwait" /\ pc' = [pc EXCEPT ![p] = "append"]
    BY <1>0, <2>1, SemUpEffect
  <2>3. Parked \subseteq Parked'
    BY <1>0, <2>2 DEF Parked
  <2>4. diskQueue' \in Seq(Parked')
    BY <1>0, <2>1, <2>3, SeqMonotonic
  <2> QED
    BY <1>0, <2>1, <2>2, <2>4 DEF Lines
<1>6. CASE ExecuteRequest
  BY <1>0, <1>6, LinesKept DEF ExecuteRequest
<1>7. CASE MarkBusy
  BY <1>0, <1>7, LinesKept DEF MarkBusy
<1> QED
  BY <1>1, <1>2, <1>3, <1>4, <1>5, <1>6, <1>7 DEF Manager

-----------------------------------------------------------------------------
(* Types.                                                                  *)

LEMMA RequestFields ==
    ASSUME NEW r \in Request
    PROVE  /\ r.task \in Clients /\ r.op \in Operations /\ r.block \in Blocks
           /\ r # NoRequest
  BY DiskParameters DEF Request, NoRequest

LEMMA LinesTyped ==
    ASSUME Lines
    PROVE  semWait \in Seq(Clients \cup {Mgr}) /\ diskQueue \in Seq(Clients)
<1>1. Waiting \subseteq Clients \cup {Mgr} /\ Parked \subseteq Clients
  BY DEF Waiting, Parked
<1> QED
  BY <1>1, SeqMonotonic DEF Lines

LEMMA NextLinesTyped ==
    ASSUME Lines'
    PROVE  semWait' \in Seq(Clients \cup {Mgr}) /\ diskQueue' \in Seq(Clients)
<1>1. Waiting' \subseteq Clients \cup {Mgr} /\ Parked' \subseteq Clients
  BY DEF Waiting, Parked
<1> QED
  BY <1>1, SeqMonotonic DEF Lines

LEMMA InitStructure == Init => Structure
<1> SUFFICES ASSUME Init PROVE Structure
  OBVIOUS
<1>1. /\ pc \in [Clients -> ClientPoints] /\ mpc \in MgrPoints
      /\ \A c \in Clients : pc[c] = "user"
  BY DEF Init
<1>2. /\ request \in [Clients -> Request \cup {NoRequest}]
      /\ buffer \in [Clients -> Clients \cup {Blank}]
      /\ tmp \in [Clients -> Nat] /\ left \in [Clients -> 0 .. MaxOps]
  BY DiskParameters DEF Init
<1>3. store \in [Blocks -> Clients \cup {Blank}] /\ stats \in [Operations -> Nat]
  BY DEF Init
<1>4. perf \in [head : Blocks, processed : Nat]
  BY DiskParameters DEF Init
<1>5. requestQueue \in Seq(Request) /\ Lines
  BY EmptySeq DEF Init, Lines, NoRepeat
<1>6. {unlinked, livre, sinal, system_shutdown_requested, crashed} \subseteq BOOLEAN
  BY DEF Init
<1>7. /\ next_request \in Request \cup {NoRequest}
      /\ driver \in Request \cup {NoRequest}
      /\ pick \in Nat /\ semaforo_queue \in Int
  BY DEF Init
<1>8. Filled /\ PickStays
  BY <1>1 DEF Init, Filled, PickStays
<1> QED
  BY <1>1, <1>2, <1>3, <1>4, <1>5, <1>6, <1>7, <1>8, LinesTyped DEF Structure, TypeOK

LEMMA ClientTypes ==
    ASSUME Structure, NEW c \in Clients, Client(c)
    PROVE  TypeOK' /\ Filled'
<1> USE DEF taskVars, mgrVars, queueVars, semVars, diskVars, Goto
<1>0. TypeOK /\ Filled /\ Lines
  BY DEF Structure
<1>a. semWait' \in Seq(Clients \cup {Mgr}) /\ diskQueue' \in Seq(Clients)
  BY ClientLines, NextLinesTyped
<1>1. ASSUME NEW op \in Operations, NEW b \in ValidBlocks, Call(c, op, b)
      PROVE  TypeOK' /\ Filled'
  <2>1. [task |-> c, op |-> op, block |-> b] \in Request
    BY DEF Request, ValidBlocks
  <2>2. /\ request' \in [Clients -> Request \cup {NoRequest}] /\ request'[c] \in Request
        /\ \A d \in Clients \ {c} : request'[d] = request[d]
    BY <1>0, <1>1, <2>1 DEF Call, TypeOK
  <2>3. pc' \in [Clients -> ClientPoints] /\ \A d \in Clients \ {c} : pc'[d] = pc[d]
    BY <1>0, <1>1 DEF Call, TypeOK
  <2>4. left' \in [Clients -> 0 .. MaxOps]
    BY <1>0, <1>1, DiskParameters DEF Call, TypeOK
  <2>5. buffer' \in [Clients -> Clients \cup {Blank}]
    BY <1>0, <1>1 DEF Call, TypeOK
  <2>6. TypeOK'
    BY <1>0, <1>1, <1>a, <2>2, <2>3, <2>4, <2>5 DEF Call, TypeOK
  <2> QED
    BY <1>0, <2>2, <2>3, <2>6 DEF Filled
<1>2. CASE ClientDown(c)
  <2>1. \E point \in {"append", "semwait"} : pc' = [pc EXCEPT ![c] = point]
    BY <1>2 DEF ClientDown, SemDown
  <2>2. semaforo_queue' = semaforo_queue - 1 /\ pc[c] # "user"
    BY <1>2 DEF ClientDown, SemDown
  <2>3. /\ pc' \in [Clients -> ClientPoints] /\ semaforo_queue' \in Int
        /\ \A d \in Clients \ {c} : pc'[d] = pc[d]
    BY <1>0, <2>1, <2>2 DEF TypeOK
  <2> QED
    BY <1>0, <1>2, <1>a, <2>2, <2>3 DEF ClientDown, TypeOK, Filled
<1>3. CASE QueueAppend(c)
  <2>1. requestQueue' \in Seq(Request)
    BY <1>0, <1>3, AppendProperties DEF QueueAppend, TypeOK, Filled
  <2>2. /\ pc' \in [Clients -> ClientPoints] /\ unlinked' \in BOOLEAN
        /\ pc[c] # "user" /\ \A d \in Clients \ {c} : pc'[d] = pc[d]
    BY <1>0, <1>3 DEF QueueAppend, TypeOK
  <2> QED
    BY <1>0, <1>3, <1>a, <2>1, <2>2 DEF QueueAppend, TypeOK, Filled
<1>4. CASE QueueLink(c)
  BY <1>0, <1>4, <1>a DEF QueueLink, TypeOK, Filled
<1>5. CASE ClientUp(c)
  <2> DEFINE points == [pc EXCEPT ![c] = "suspend"]
  <2>1. SemUp(points, mpc) /\ pc[c] = "up"
    BY <1>5 DEF ClientUp
  <2>2. /\ points \in [Clients -> ClientPoints] /\ mpc \in MgrPoints
        /\ \A d \in Clients : points[d] = "semwait" <=> pc[d] = "semwait"
        /\ \A d \in Clients : points[d] = "user" <=> pc[d] = "user"
    BY <1>0, <2>1 DEF TypeOK
  <2> HIDE DEF points
  <2>3. /\ pc' \in [Clients -> ClientPoints] /\ mpc' \in MgrPoints
        /\ semaforo_queue' = semaforo_queue + 1
        /\ \/ pc' = points
           \/ \E p \in Clients : pc[p] = "semwait" /\ pc' = [points EXCEPT ![p] = "append"]
    BY <2>1, <2>2, SemUpEffect
  <2>4. semaforo_queue' \in Int /\ \A d \in Clients : pc[d] = "user" => pc'[d] = "user"
    BY <1>0, <2>2, <2>3 DEF TypeOK
  <2>5. TypeOK'
    BY <1>0, <1>5, <1>a, <2>3, <2>4 DEF ClientUp, TypeOK
  <2> QED
    BY <1>0, <1>5, <2>4, <2>5 DEF ClientUp, Filled
<1>6. CASE Suspend(c)
  BY <1>0, <1>6, <1>a DEF Suspend, TypeOK, Filled
<1>7. CASE CountLoad(c)
  <2>1. tmp' \in [Clients -> Nat]
    BY <1>0, <1>7, RequestFields DEF CountLoad, TypeOK, Filled
  <2> QED
    BY <1>0, <1>7, <1>a, <2>1 DEF CountLoad, TypeOK, Filled
<1>8. CASE CountStore(c)
  <2>1. stats' \in [Operations -> Nat] /\ tmp' \in [Clients -> Nat]
    BY <1>0, <1>8, RequestFields DEF CountStore, TypeOK, Filled
  <2> QED
    BY <1>0, <1>8, <1>a, <2>1 DEF CountStore, TypeOK, Filled
<1> QED
  BY <1>1, <1>2, <1>3, <1>4, <1>5, <1>6, <1>7, <1>8 DEF Client

LEMMA ManagerTypes ==
    ASSUME Structure, Manager
    PROVE  TypeOK' /\ Filled'
<1> USE DEF taskVars, mgrVars, queueVars, semVars, diskVars, Goto
<1>0. TypeOK /\ Filled /\ Lines /\ PickStays
  BY DEF Structure
<1>a. semWait' \in Seq(Clients \cup {Mgr}) /\ diskQueue' \in Seq(Clients)
  BY ManagerLines, NextLinesTyped
<1>1. CASE MgrTop
  BY <1>0, <1>1, <1>a DEF MgrTop, TypeOK, Filled
<1>2. CASE ProcessCompletionEvents
  <2>1. /\ pc' \in [Clients -> ClientPoints]
        /\ \A d \in Clients : pc[d] = "user" => pc'[d] = "user"
    <3>1. CASE diskQueue = <<>> \/ ~sinal
      BY <1>0, <1>2, <3>1 DEF ProcessCompletionEvents, ResumeFirst, TypeOK
    <3>2. CASE diskQueue # <<>> /\ sinal
      <4>1. Head(diskQueue) \in Parked
        BY <1>0, <3>2, LeaveLine DEF Lines
      <4> QED
        BY <1>0, <1>2, <3>2, <4>1 DEF ProcessCompletionEvents, ResumeFirst, TypeOK, Parked
    <3> QED
      BY <3>1, <3>2
  <2>2. {sinal', livre'} \subseteq BOOLEAN /\ mpc' \in MgrPoints /\ request' = request
    BY <1>0, <1>2 DEF ProcessCompletionEvents, TypeOK
  <2>3. TypeOK'
    BY <1>0, <1>2, <1>a, <2>1, <2>2 DEF ProcessCompletionEvents, TypeOK
  <2> QED
    BY <1>0, <2>1, <2>2, <2>3 DEF Filled
<1>3. CASE ProcessNewRequests
  <2>1. ASSUME NEW i \in DOMAIN requestQueue PROVE i \in Nat /\ requestQueue[i] \in Request
    BY <1>0, ElementOfSeq DEF TypeOK
  <2>2. /\ pick' \in Nat /\ next_request' \in Request \cup {NoRequest}
        /\ mpc' \in MgrPoints /\ crashed' \in BOOLEAN
    BY <1>0, <1>3, <2>1 DEF ProcessNewRequests, TypeOK
  <2> QED
    BY <1>0, <1>3, <1>a, <2>2 DEF ProcessNewRequests, TypeOK, Filled
<1>4. CASE MgrDown
  <2>1. semaforo_queue' \in Int /\ mpc' \in MgrPoints
    BY <1>0, <1>4 DEF MgrDown, SemDown, TypeOK
  <2> QED
    BY <1>0, <1>4, <1>a, <2>1 DEF MgrDown, TypeOK, Filled
<1>5. CASE MgrRemove
  <2>1. SemUp(pc, "cmd") /\ mpc = "remove"
    BY <1>5 DEF MgrRemove
  <2>2. /\ pc' \in [Clients -> ClientPoints] /\ mpc' \in MgrPoints
        /\ semaforo_queue' = semaforo_queue + 1
        /\ \/ pc' = pc
           \/ \E p \in Clients : pc[p] = "semwait" /\ pc' = [pc EXCEPT ![p] = "append"]
    BY <1>0, <2>1, SemUpEffect DEF TypeOK
  <2>3. semaforo_queue' \in Int /\ \A d \in Clients : pc[d] = "user" => pc'[d] = "user"
    BY <1>0, <2>2 DEF TypeOK
  <2>4. requestQueue' \in Seq(Request)
    <3>1. requestQueue \in Seq(Request) /\ pick \in 1 .. Len(requestQueue)
      BY <1>0, <2>1, LenProperties DEF TypeOK, PickStays
    <3> QED
      BY <1>5, <3>1, RemoveFacts DEF MgrRemove, queue_remove
  <2>5. TypeOK'
    BY <1>0, <1>5, <1>a, <2>2, <2>3, <2>4 DEF MgrRemove, TypeOK
  <2> QED
    BY <1>0, <1>5, <2>3, <2>5 DEF MgrRemove, Filled
<1>6. CASE ExecuteRequest
  <2>1. perf' \in [head : Blocks, processed : Nat]
    <3>1. next_request.block \in Blocks
      BY <1>0, RequestFields, DiskParameters DEF TypeOK, NoRequest
    <3> QED
      BY <1>0, <1>6, <3>1 DEF ExecuteRequest, TypeOK
  <2>2. /\ driver' \in Request \cup {NoRequest}
        /\ next_request' \in Request \cup {NoRequest} /\ mpc' \in MgrPoints
    BY <1>0, <1>6 DEF ExecuteRequest, TypeOK
  <2> QED
    BY <1>0, <1>6, <1>a, <2>1, <2>2 DEF ExecuteRequest, TypeOK, Filled
<1>7. CASE MarkBusy
  <2>1. perf' \in [head : Blocks, processed : Nat]
    <3>1. /\ perf \in [head : Blocks, processed : Nat]
          /\ perf' = [perf EXCEPT !.processed = perf.processed + 1]
      BY <1>0, <1>7 DEF MarkBusy, TypeOK
    <3> QED
      BY <3>1
  <2>2. livre' \in BOOLEAN /\ mpc' \in MgrPoints
    BY <1>7 DEF MarkBusy
  <2> QED
    BY <1>0, <1>7, <1>a, <2>1, <2>2 DEF MarkBusy, TypeOK, Filled
<1> QED
  BY <1>1, <1>2, <1>3, <1>4, <1>5, <1>6, <1>7 DEF Manager

-----------------------------------------------------------------------------
(* The choice made without the semaphore stays good.                       *)

LEMMA PickKept ==
    ASSUME PickStays, UNCHANGED <<requestQueue, pick, next_request>>,
           mpc' \in {"down", "semwait", "remove"} => mpc \in {"down", "semwait", "remove"}
    PROVE  PickStays'
  BY DEF PickStays

LEMMA ClientPick ==
    ASSUME Structure, NEW c \in Clients, Client(c)
    PROVE  PickStays'
<1> USE DEF taskVars, mgrVars, queueVars, semVars, diskVars
<1>0. TypeOK /\ PickStays
  BY DEF Structure
<1>1. ASSUME NEW op \in Operations, NEW b \in ValidBlocks, Call(c, op, b) PROVE PickStays'
  BY <1>0, <1>1, PickKept DEF Call
<1>2. CASE ClientDown(c)
  BY <1>0, <1>2, PickKept DEF ClientDown
<1>3. CASE QueueAppend(c)
  <2>1. /\ requestQueue' = Append(requestQueue, request[c])
        /\ UNCHANGED <<pick, next_request, mpc>>
    BY <1>3 DEF QueueAppend
  <2>2. \A i \in DOMAIN requestQueue :
           i \in DOMAIN requestQueue' /\ requestQueue'[i] = requestQueue[i]
    BY <1>0, <2>1 DEF TypeOK
  <2> QED
    BY <1>0, <2>1, <2>2 DEF PickStays
<1>4. CASE QueueLink(c)
  BY <1>0, <1>4, PickKept DEF QueueLink
<1>5. CASE ClientUp(c)
  <2> DEFINE points == [pc EXCEPT ![c] = "suspend"]
  <2>1. /\ SemUp(points, mpc) /\ pc[c] = "up"
        /\ UNCHANGED <<requestQueue, pick, next_request>>
    BY <1>5 DEF ClientUp
  <2>2. /\ points \in [Clients -> ClientPoints] /\ mpc \in MgrPoints
        /\ \A d \in Clients : points[d] = "semwait" <=> pc[d] = "semwait"
    BY <1>0, <2>1 DEF TypeOK
  <2> HIDE DEF points
  <2>3. mpc' = mpc \/ (mpc = "semwait" /\ mpc' = "remove")
    BY <2>1, <2>2, SemUpEffect
  <2> QED
    BY <1>0, <2>1, <2>3, PickKept
<1>6. CASE Suspend(c)
  BY <1>0, <1>6, PickKept DEF Suspend
<1>7. CASE CountLoad(c)
  BY <1>0, <1>7, PickKept DEF CountLoad
<1>8. CASE CountStore(c)
  BY <1>0, <1>8, PickKept DEF CountStore
<1> QED
  BY <1>1, <1>2, <1>3, <1>4, <1>5, <1>6, <1>7, <1>8 DEF Client

LEMMA ManagerPick ==
    ASSUME Structure, Manager
    PROVE  PickStays'
<1> USE DEF taskVars, mgrVars, queueVars, semVars, diskVars
<1>0. TypeOK /\ PickStays
  BY DEF Structure
<1>1. CASE MgrTop
  BY <1>1 DEF MgrTop, PickStays
<1>2. CASE ProcessCompletionEvents
  BY <1>2 DEF ProcessCompletionEvents, PickStays
<1>3. CASE ProcessNewRequests
  BY <1>3 DEF ProcessNewRequests, PickStays
<1>4. CASE MgrDown
  BY <1>0, <1>4, PickKept DEF MgrDown
<1>5. CASE MgrRemove
  <2>1. SemUp(pc, "cmd") /\ mpc = "remove"
    BY <1>5 DEF MgrRemove
  <2>2. mpc' = "cmd"
    BY <1>0, <2>1, SemUpEffect DEF TypeOK
  <2> QED
    BY <2>2 DEF PickStays
<1>6. CASE ExecuteRequest
  BY <1>6 DEF ExecuteRequest, PickStays
<1>7. CASE MarkBusy
  BY <1>7 DEF MarkBusy, PickStays
<1> QED
  BY <1>1, <1>2, <1>3, <1>4, <1>5, <1>6, <1>7 DEF Manager

LEMMA StructureStep == Structure /\ [Next]_vars => Structure'
<1> SUFFICES ASSUME Structure, [Next]_vars PROVE Structure'
  OBVIOUS
<1> USE DEF taskVars, mgrVars, queueVars, semVars, diskVars
<1>0. TypeOK /\ Filled /\ Lines /\ PickStays
  BY DEF Structure
<1>1. ASSUME NEW c \in Clients, Client(c) PROVE Structure'
  BY <1>1, ClientTypes, ClientLines, ClientPick DEF Structure
<1>2. CASE Manager
  BY <1>2, ManagerTypes, ManagerLines, ManagerPick DEF Structure
<1>3. CASE DriverDone
  <2>1. UNCHANGED <<pc, request, mpc, semWait, diskQueue, requestQueue, pick, next_request>>
    BY <1>3 DEF DriverDone
  <2>2. Lines' /\ PickStays' /\ Filled'
    BY <1>0, <2>1, LinesKept, PickKept DEF Filled
  <2>3. driver \in Request /\ driver.task \in Clients /\ driver.block \in Blocks
    BY <1>0, <1>3, RequestFields DEF DriverDone, TypeOK
  <2>4. buffer' \in [Clients -> Clients \cup {Blank}] /\ store' \in [Blocks -> Clients \cup {Blank}]
    BY <1>0, <1>3, <2>3 DEF DriverDone, TypeOK
  <2>5. driver' = NoRequest /\ sinal' = TRUE
    BY <1>3 DEF DriverDone, diskSignalHandler
  <2>6. TypeOK'
    BY <1>0, <1>3, <2>4, <2>5 DEF DriverDone, TypeOK
  <2> QED
    BY <2>2, <2>6 DEF Structure
<1>4. CASE Shutdown
  <2>1. UNCHANGED <<pc, request, mpc, semWait, diskQueue, requestQueue, pick, next_request>>
    BY <1>4 DEF Shutdown
  <2>2. Lines' /\ PickStays' /\ Filled'
    BY <1>0, <2>1, LinesKept, PickKept DEF Filled
  <2> QED
    BY <1>0, <1>4, <2>2 DEF Shutdown, Structure, TypeOK
<1>5. CASE UNCHANGED vars
  <2>1. UNCHANGED <<pc, request, mpc, semWait, diskQueue, requestQueue, pick, next_request>>
    BY <1>5 DEF vars
  <2>2. Lines' /\ PickStays' /\ Filled'
    BY <1>0, <2>1, LinesKept, PickKept DEF Filled
  <2> QED
    BY <1>0, <1>5, <2>2 DEF vars, Structure, TypeOK
<1> QED
  BY <1>1, <1>2, <1>3, <1>4, <1>5 DEF Next

LEMMA StructureInv == Spec => []Structure
  BY InitStructure, StructureStep, PTL DEF Spec

\* Every variable keeps its type: among others the arm stays on the disk and only
\* complete requests are queued (disk_block_read, executeRequest).
THEOREM ManagerTypeCorrect == Spec => []TypeOK
<1>1. Structure => TypeOK
  BY DEF Structure
<1> QED
  BY <1>1, StructureInv, PTL

\* The request disk_scheduler chose before sem_down is the one queue_remove takes
\* out after it, however many requests came in between (processNewRequests).
THEOREM ChoiceStays == Spec => []PickStays
<1>1. Structure => PickStays
  BY DEF Structure
<1> QED
  BY <1>1, StructureInv, PTL

-----------------------------------------------------------------------------
(* Mutual exclusion on the request queue.                                  *)

\* The semaphore is handed over: nobody waits for it while it is free.
Exclusive ==
    /\ \A p, q \in Holders : p = q
    /\ Holders = {} => semWait = <<>>
    /\ semaforo_queue = (IF Holders = {} THEN 1 ELSE 0) - Len(semWait)

LEMMA WaitersCounted == Structure => Len(semWait) \in Nat
  BY LenProperties DEF Structure, TypeOK

LEMMA HoldersKept ==
    ASSUME Exclusive, UNCHANGED <<semaforo_queue, semWait>>,
           \A c \in Clients :
              pc'[c] \in {"append", "link", "up"} <=> pc[c] \in {"append", "link", "up"},
           mpc' = "remove" <=> mpc = "remove"
    PROVE  Exclusive'
<1>1. Holders' = Holders
  BY DEF Holders
<1> QED
  BY <1>1 DEF Exclusive

\* sem_down by a task that does not hold it.
LEMMA DownExclusive ==
    ASSUME Structure, Exclusive, NEW p \in Clients \cup {Mgr}, p \notin Waiting,
           semaforo_queue' = semaforo_queue - 1,
           IF semaforo_queue > 0 THEN Holders' = Holders \cup {p} /\ semWait' = semWait
           ELSE Holders' = Holders /\ semWait' = Append(semWait, p)
    PROVE  Exclusive'
<1>0. /\ Len(semWait) \in Nat /\ semWait \in Seq(Waiting) /\ NoRepeat(semWait)
      /\ Len(<<>>) = 0
  BY WaitersCounted, EmptySeq DEF Structure, Lines
<1>1. CASE semaforo_queue > 0
  <2>1. Holders = {}
    BY <1>0, <1>1 DEF Exclusive
  <2>2. Holders' = {p} /\ semWait = <<>> /\ semWait' = semWait
    BY <1>1, <2>1 DEF Exclusive
  <2> QED
    BY <1>0, <2>1, <2>2 DEF Exclusive
<1>2. CASE ~(semaforo_queue > 0)
  <2>1. Holders # {}
    BY <1>0, <1>2 DEF Exclusive
  <2>2. Holders' = Holders /\ Len(semWait') = Len(semWait) + 1
    BY <1>0, <1>2, JoinLine
  <2> QED
    BY <1>0, <2>1, <2>2 DEF Exclusive
<1> QED
  BY <1>1, <1>2

\* sem_up by the holder: the oldest waiter holds it next, or nobody.
LEMMA UpExclusive ==
    ASSUME Structure, Exclusive, Holders # {},
           semaforo_queue' = semaforo_queue + 1,
           \/ semWait = <<>> /\ semWait' = <<>> /\ Holders' = {}
           \/ /\ semWait # <<>> /\ Len(semWait') = Len(semWait) - 1
              /\ \E p : Holders' = {p}
    PROVE  Exclusive'
<1>0. Len(semWait) \in Nat /\ Len(<<>>) = 0
  BY WaitersCounted, EmptySeq
<1>1. semaforo_queue = 0 - Len(semWait)
  BY DEF Exclusive
<1>2. CASE semWait = <<>> /\ semWait' = <<>> /\ Holders' = {}
  <2>1. semaforo_queue' = 1 - Len(semWait')
    BY <1>0, <1>1, <1>2
  <2> QED
    BY <1>2, <2>1 DEF Exclusive
<1>3. CASE Len(semWait') = Len(semWait) - 1 /\ \E p : Holders' = {p}
  <2>1. semaforo_queue' = 0 - Len(semWait')
    BY <1>0, <1>1, <1>3
  <2>2. Holders' # {} /\ \A p, q \in Holders' : p = q
    BY <1>3
  <2> QED
    BY <2>1, <2>2 DEF Exclusive
<1> QED
  BY <1>2, <1>3

LEMMA ClientExclusive ==
    ASSUME Structure, Exclusive, NEW c \in Clients, Client(c)
    PROVE  Exclusive'
<1> USE DEF taskVars, mgrVars, queueVars, semVars, diskVars, Goto
<1>0. pc \in [Clients -> ClientPoints] /\ mpc \in MgrPoints /\ Mgr \notin Clients
  BY DiskParameters DEF Structure, TypeOK
<1>1. ASSUME NEW op \in Operations, NEW b \in ValidBlocks, Call(c, op, b) PROVE Exclusive'
  BY <1>0, <1>1, HoldersKept DEF Call
<1>2. CASE ClientDown(c)
  <2>1. pc[c] = "down" /\ c \notin Waiting /\ semaforo_queue' = semaforo_queue - 1
    BY <1>0, <1>2 DEF ClientDown, SemDown, Waiting
  <2>2. CASE semaforo_queue > 0
    <3>1. pc' = [pc EXCEPT ![c] = "append"] /\ mpc' = mpc /\ semWait' = semWait
      BY <1>2, <2>2 DEF ClientDown, SemDown
    <3>2. Holders' = Holders \cup {c}
      BY <1>0, <2>1, <3>1 DEF Holders
    <3> QED
      BY <2>1, <2>2, <3>1, <3>2, DownExclusive
  <2>3. CASE ~(semaforo_queue > 0)
    <3>1. /\ pc' = [pc EXCEPT ![c] = "semwait"] /\ mpc' = mpc
          /\ semWait' = Append(semWait, c)
      BY <1>2, <2>3 DEF ClientDown, SemDown
    <3>2. Holders' = Holders
      BY <1>0, <2>1, <3>1 DEF Holders
    <3> QED
      BY <2>1, <2>3, <3>1, <3>2, DownExclusive
  <2> QED
    BY <2>2, <2>3
<1>3. CASE QueueAppend(c)
  BY <1>0, <1>3, HoldersKept DEF QueueAppend
<1>4. CASE QueueLink(c)
  BY <1>0, <1>4, HoldersKept DEF QueueLink
<1>5. CASE ClientUp(c)
  <2> DEFINE points == [pc EXCEPT ![c] = "suspend"]
  <2>1. SemUp(points, mpc) /\ pc[c] = "up"
    BY <1>5 DEF ClientUp
  <2>2. /\ points \in [Clients -> ClientPoints] /\ mpc \in MgrPoints
        /\ \A d \in Clients : points[d] = "semwait" <=> pc[d] = "semwait"
        /\ points[c] = "suspend" /\ \A d \in Clients \ {c} : points[d] = pc[d]
    BY <1>0, <2>1
  <2>3. Holders = {c}
    BY <1>0, <2>1 DEF Holders, Exclusive
  <2>4. \A d \in Clients : points[d] \notin {"append", "link", "up"}
    BY <2>2, <2>3 DEF Holders
  <2>5. mpc # "remove"
    BY <1>0, <2>3 DEF Holders
  <2> HIDE DEF points
  <2>6. semaforo_queue' = semaforo_queue + 1
    BY <2>1, <2>2, SemUpEffect
  <2>7. CASE semWait = <<>> /\ semWait' = <<>> /\ pc' = points /\ mpc' = mpc
    <3>1. Holders' = {}
      BY <2>4, <2>5, <2>7 DEF Holders
    <3> QED
      BY <2>3, <2>6, <2>7, <3>1, UpExclusive
  <2>8. CASE /\ semWait # <<>> /\ Len(semWait') = Len(semWait) - 1
             /\ mpc = "semwait" /\ pc' = points /\ mpc' = "remove"
    <3>1. Holders' = {Mgr}
      BY <2>4, <2>8 DEF Holders
    <3> QED
      BY <2>3, <2>6, <2>8, <3>1, UpExclusive
  <2>9. CASE /\ semWait # <<>> /\ Len(semWait') = Len(semWait) - 1
             /\ \E p \in Clients :
                   pc[p] = "semwait" /\ pc' = [points EXCEPT ![p] = "append"]
             /\ mpc' = mpc
    <3>1. PICK p \in Clients : pc' = [points EXCEPT ![p] = "append"]
      BY <2>9
    <3>2. Holders' = {p}
      BY <2>2, <2>4, <2>5, <2>9, <3>1 DEF Holders
    <3> QED
      BY <2>3, <2>6, <2>9, <3>2, UpExclusive
  <2> QED
    BY <2>1, <2>2, <2>7, <2>8, <2>9, SemUpEffect
<1>6. CASE Suspend(c)
  BY <1>0, <1>6, HoldersKept DEF Suspend
<1>7. CASE CountLoad(c)
  BY <1>0, <1>7, HoldersKept DEF CountLoad
<1>8. CASE CountStore(c)
  BY <1>0, <1>8, HoldersKept DEF CountStore
<1> QED
  BY <1>1, <1>2, <1>3, <1>4, <1>5, <1>6, <1>7, <1>8 DEF Client

LEMMA ManagerExclusive ==
    ASSUME Structure, Exclusive, Manager
    PROVE  Exclusive'
<1> USE DEF taskVars, mgrVars, queueVars, semVars, diskVars, Goto
<1>0. pc \in [Clients -> ClientPoints] /\ mpc \in MgrPoints /\ Mgr \notin Clients
  BY DiskParameters DEF Structure, TypeOK
<1>1. CASE MgrTop
  BY <1>0, <1>1, HoldersKept DEF MgrTop
<1>2. CASE ProcessCompletionEvents
  <2>1. CASE ~sinal \/ diskQueue = <<>>
    BY <1>0, <1>2, <2>1, HoldersKept DEF ProcessCompletionEvents, ResumeFirst
  <2>2. CASE sinal /\ diskQueue # <<>>
    <3>1. Head(diskQueue) \in Parked
      BY <2>2, LeaveLine DEF Structure, Lines
    <3> QED
      BY <1>0, <1>2, <2>2, <3>1, HoldersKept
      DEF ProcessCompletionEvents, ResumeFirst, Parked
  <2> QED
    BY <2>1, <2>2
<1>3. CASE ProcessNewRequests
  BY <1>0, <1>3, HoldersKept DEF ProcessNewRequests
<1>4. CASE MgrDown
  <2>1. mpc = "down" /\ Mgr \notin Waiting /\ semaforo_queue' = semaforo_queue - 1 /\ pc' = pc
    BY <1>0, <1>4 DEF MgrDown, SemDown, Waiting
  <2>2. CASE semaforo_queue > 0
    <3>1. mpc' = "remove" /\ semWait' = semWait
      BY <1>4, <2>2 DEF MgrDown, SemDown
    <3>2. Holders' = Holders \cup {Mgr}
      BY <2>1, <3>1 DEF Holders
    <3> QED
      BY <2>1, <2>2, <3>1, <3>2, DownExclusive
  <2>3. CASE ~(semaforo_queue > 0)
    <3>1. mpc' = "semwait" /\ semWait' = Append(semWait, Mgr)
      BY <1>4, <2>3 DEF MgrDown, SemDown
    <3>2. Holders' = Holders
      BY <2>1, <3>1 DEF Holders
    <3> QED
      BY <2>1, <2>3, <3>1, <3>2, DownExclusive
  <2> QED
    BY <2>2, <2>3
<1>5. CASE MgrRemove
  <2>1. SemUp(pc, "cmd") /\ mpc = "remove"
    BY <1>5 DEF MgrRemove
  <2>2. Holders = {Mgr}
    BY <1>0, <2>1 DEF Holders, Exclusive
  <2>3. \A d \in Clients : pc[d] \notin {"append", "link", "up"}
    BY <1>0, <2>2 DEF Holders
  <2>4. semaforo_queue' = semaforo_queue + 1 /\ mpc' = "cmd"
    BY <1>0, <2>1, SemUpEffect
  <2>5. CASE semWait = <<>> /\ semWait' = <<>> /\ pc' = pc
    <3>1. Holders' = {}
      BY <2>3, <2>4, <2>5 DEF Holders
    <3> QED
      BY <2>2, <2>4, <2>5, <3>1, UpExclusive
  <2>6. CASE /\ semWait # <<>> /\ Len(semWait') = Len(semWait) - 1
             /\ \E p \in Clients : pc' = [pc EXCEPT ![p] = "append"]
    <3>1. PICK p \in Clients : pc' = [pc EXCEPT ![p] = "append"]
      BY <2>6
    <3>2. Holders' = {p}
      BY <1>0, <2>3, <2>4, <3>1 DEF Holders
    <3> QED
      BY <2>2, <2>4, <2>6, <3>2, UpExclusive
  <2> QED
    BY <1>0, <2>1, <2>5, <2>6, SemUpEffect
<1>6. CASE ExecuteRequest
  BY <1>0, <1>6, HoldersKept DEF ExecuteRequest
<1>7. CASE MarkBusy
  BY <1>0, <1>7, HoldersKept DEF MarkBusy
<1> QED
  BY <1>1, <1>2, <1>3, <1>4, <1>5, <1>6, <1>7 DEF Manager

LEMMA ExclusiveStep == Structure /\ Exclusive /\ [Next]_vars => Exclusive'
<1> SUFFICES ASSUME Structure, Exclusive, [Next]_vars PROVE Exclusive'
  OBVIOUS
<1> USE DEF taskVars, mgrVars, queueVars, semVars, diskVars
<1>1. ASSUME NEW c \in Clients, Client(c) PROVE Exclusive'
  BY <1>1, ClientExclusive
<1>2. CASE Manager
  BY <1>2, ManagerExclusive
<1>3. CASE DriverDone
  BY <1>3, HoldersKept DEF DriverDone
<1>4. CASE Shutdown
  BY <1>4, HoldersKept DEF Shutdown
<1>5. CASE UNCHANGED vars
  BY <1>5, HoldersKept DEF vars
<1> QED
  BY <1>1, <1>2, <1>3, <1>4, <1>5 DEF Next

LEMMA ExclusiveInv == Spec => []Exclusive
<1>1. Init => Exclusive
  <2> SUFFICES ASSUME Init PROVE Exclusive
    OBVIOUS
  <2>1. Holders = {} /\ semWait = <<>> /\ semaforo_queue = 1
    BY DEF Init, Holders
  <2> QED
    BY <2>1, EmptySeq DEF Exclusive
<1> QED
  BY <1>1, ExclusiveStep, StructureInv, PTL DEF Spec

\* One task at most is inside queue_append or queue_remove on the request queue,
\* and the semaphore's value counts it and those in line (sem_down, sem_up).
THEOREM OneEditor == Spec => []QueueMutex
<1>1. Exclusive => QueueMutex
  <2> SUFFICES ASSUME Exclusive PROVE QueueMutex
    OBVIOUS
  <2>1. CASE Holders = {}
    BY <2>1, FS_EmptySet DEF Exclusive, QueueMutex
  <2>2. CASE Holders # {}
    <3>1. PICK p : Holders = {p}
      BY <2>2 DEF Exclusive
    <3>2. Cardinality(Holders) = 1
      BY <3>1, FS_Singleton
    <3> QED
      BY <2>2, <3>2 DEF Exclusive, QueueMutex
  <2> QED
    BY <2>1, <2>2
<1> QED
  BY <1>1, ExclusiveInv, PTL

-----------------------------------------------------------------------------
(* The disk, its signal and the flag livre.                                *)

Taken == {"down", "semwait", "remove", "cmd"}

\* The signal comes when the driver is done; a request is taken on a free disk
\* only; and between disk_cmd and `livre = 0' the disk works or has signalled.
Flags ==
    /\ driver # NoRequest => ~sinal
    /\ mpc \in Taken => livre /\ next_request \in Request
    /\ mpc = "busy" => driver # NoRequest \/ sinal
    /\ LivreTracksDriver

LEMMA FlagsKept ==
    ASSUME Flags, UNCHANGED <<livre, sinal, driver, next_request>>,
           mpc' = mpc \/ (mpc \in Taken /\ mpc' \in Taken)
                      \/ (mpc # "busy" /\ mpc' \in MgrPoints \ (Taken \cup {"busy"}))
    PROVE  Flags'
  BY DEF Flags, LivreTracksDriver, Taken

LEMMA ClientFlags ==
    ASSUME Structure, Flags, NEW c \in Clients, Client(c)
    PROVE  Flags'
<1> USE DEF taskVars, mgrVars, queueVars, semVars, diskVars
<1>1. ASSUME NEW op \in Operations, NEW b \in ValidBlocks, Call(c, op, b) PROVE Flags'
  BY <1>1, FlagsKept DEF Call
<1>2. CASE ClientDown(c)
  BY <1>2, FlagsKept DEF ClientDown
<1>3. CASE QueueAppend(c)
  BY <1>3, FlagsKept DEF QueueAppend
<1>4. CASE QueueLink(c)
  BY <1>4, FlagsKept DEF QueueLink
<1>5. CASE ClientUp(c)
  <2> DEFINE points == [pc EXCEPT ![c] = "suspend"]
  <2>1. /\ SemUp(points, mpc) /\ pc[c] = "up"
        /\ UNCHANGED <<livre, sinal, driver, next_request>>
    BY <1>5 DEF ClientUp
  <2>2. /\ points \in [Clients -> ClientPoints] /\ mpc \in MgrPoints
        /\ \A d \in Clients : points[d] = "semwait" <=> pc[d] = "semwait"
    BY <2>1 DEF Structure, TypeOK
  <2> HIDE DEF points
  <2>3. mpc' = mpc \/ (mpc = "semwait" /\ mpc' = "remove")
    BY <2>1, <2>2, SemUpEffect
  <2> QED
    BY <2>1, <2>3, FlagsKept DEF Taken
<1>6. CASE Suspend(c)
  BY <1>6, FlagsKept DEF Suspend
<1>7. CASE CountLoad(c)
  BY <1>7, FlagsKept DEF CountLoad
<1>8. CASE CountStore(c)
  BY <1>8, FlagsKept DEF CountStore
<1> QED
  BY <1>1, <1>2, <1>3, <1>4, <1>5, <1>6, <1>7, <1>8 DEF Client

LEMMA ManagerFlags ==
    ASSUME Structure, Flags, Manager
    PROVE  Flags'
<1> USE DEF taskVars, mgrVars, queueVars, semVars, diskVars
<1>0. TypeOK
  BY DEF Structure
<1>1. CASE MgrTop
  BY <1>1, FlagsKept DEF MgrTop, Taken
<1>2. CASE ProcessCompletionEvents
  <2>1. /\ mpc = "complete" /\ mpc' = "new" /\ driver' = driver
        /\ IF sinal THEN sinal' = FALSE /\ livre' = TRUE
           ELSE UNCHANGED <<sinal, livre>>
    BY <1>2 DEF ProcessCompletionEvents
  <2> QED
    BY <2>1 DEF Flags, LivreTracksDriver, Taken
<1>3. CASE ProcessNewRequests
  <2>1. CASE mpc' = "down"
    <3>1. PICK i \in DOMAIN requestQueue : next_request' = requestQueue[i]
      BY <1>3, <2>1 DEF ProcessNewRequests
    <3>2. next_request' \in Request
      BY <1>0, <3>1, ElementOfSeq DEF TypeOK
    <3>3. mpc = "new" /\ livre /\ UNCHANGED <<livre, sinal, driver>>
      BY <1>3, <2>1 DEF ProcessNewRequests, Work
    <3> QED
      BY <2>1, <3>2, <3>3 DEF Flags, LivreTracksDriver, Taken
  <2>2. CASE mpc' # "down"
    <3>1. /\ mpc = "new" /\ mpc' \in {"top", "new"}
          /\ UNCHANGED <<livre, sinal, driver, next_request>>
      BY <1>3, <2>2 DEF ProcessNewRequests
    <3> QED
      BY <3>1, FlagsKept DEF Taken
  <2> QED
    BY <2>1, <2>2
<1>4. CASE MgrDown
  BY <1>4, FlagsKept DEF MgrDown, SemDown, Taken
<1>5. CASE MgrRemove
  <2>1. SemUp(pc, "cmd") /\ mpc = "remove" /\ UNCHANGED <<livre, sinal, driver, next_request>>
    BY <1>5 DEF MgrRemove
  <2>2. mpc' = "cmd"
    BY <1>0, <2>1, SemUpEffect DEF TypeOK
  <2> QED
    BY <2>1, <2>2, FlagsKept DEF Taken
<1>6. CASE ExecuteRequest
  <2>1. livre /\ next_request \in Request /\ driver = NoRequest /\ ~sinal
    BY <1>6 DEF ExecuteRequest, Flags, LivreTracksDriver, Taken
  <2>2. driver' = next_request /\ driver' # NoRequest /\ mpc' = "busy" /\ sinal' = sinal
    BY <1>6, <2>1, RequestFields DEF ExecuteRequest
  <2> QED
    BY <2>1, <2>2 DEF Flags, LivreTracksDriver, Taken
<1>7. CASE MarkBusy
  <2>1. mpc = "busy" /\ mpc' = "top" /\ livre' = FALSE /\ UNCHANGED <<driver, sinal>>
    BY <1>7 DEF MarkBusy
  <2> QED
    BY <2>1 DEF Flags, LivreTracksDriver, Taken
<1> QED
  BY <1>1, <1>2, <1>3, <1>4, <1>5, <1>6, <1>7 DEF Manager

LEMMA FlagsStep == Structure /\ Flags /\ [Next]_vars => Flags'
<1> SUFFICES ASSUME Structure, Flags, [Next]_vars PROVE Flags'
  OBVIOUS
<1> USE DEF taskVars, mgrVars, queueVars, semVars, diskVars
<1>1. ASSUME NEW c \in Clients, Client(c) PROVE Flags'
  BY <1>1, ClientFlags
<1>2. CASE Manager
  BY <1>2, ManagerFlags
<1>3. CASE DriverDone
  <2>1. /\ driver # NoRequest /\ driver' = NoRequest /\ sinal' = TRUE
        /\ UNCHANGED <<livre, mpc, next_request>>
    BY <1>3 DEF DriverDone, diskSignalHandler
  <2> QED
    BY <2>1 DEF Flags, LivreTracksDriver, Taken
<1>4. CASE Shutdown
  BY <1>4, FlagsKept DEF Shutdown
<1>5. CASE UNCHANGED vars
  BY <1>5, FlagsKept DEF vars
<1> QED
  BY <1>1, <1>2, <1>3, <1>4, <1>5 DEF Next

LEMMA FlagsInv == Spec => []Flags
<1>1. Init => Flags
  BY DEF Init, Flags, LivreTracksDriver, Taken
<1> QED
  BY <1>1, FlagsStep, StructureInv, PTL DEF Spec

\* The manager's own view of the disk, livre, agrees with the driver and the
\* signal wherever a quantum may run out or the signal may arrive
\* (processCompletionEvents, executeRequest, diskSignalHandler).
THEOREM LivreFollows == Spec => []LivreTracksDriver
<1>1. Flags => LivreTracksDriver
  BY DEF Flags
<1> QED
  BY <1>1, FlagsInv, PTL

\* disk_cmd never refuses a command of the manager (executeRequest).
THEOREM CommandsAccepted == Spec => []CommandAccepted
<1>1. Flags => CommandAccepted
  BY DEF Flags, LivreTracksDriver, CommandAccepted, Taken
<1> QED
  BY <1>1, FlagsInv, PTL

-----------------------------------------------------------------------------
(* The requests of all tasks together.                                     *)

Before == {"down", "semwait", "append"}

\* A task inside a call has begun it.
Begun == \A c \in Clients : pc[c] # "user" => left[c] < MaxOps

\* What each task has put into the request queue, and their sum.
Submissions == [c \in Clients |-> Submitted(c)]
InSum == Cardinality(Area(Clients, Submissions))

\* Where those requests are: served, queued, or in the hands of the manager.
Elsewhere == perf.processed + Len(requestQueue) + IF mpc \in {"cmd", "busy"} THEN 1 ELSE 0

LEMMA SubmittedTyped == TypeOK /\ Begun => Submissions \in [Clients -> Nat]
<1> SUFFICES ASSUME TypeOK, Begun, NEW c \in Clients PROVE Submitted(c) \in Nat
  BY DEF Submissions
<1>1. left[c] \in 0 .. MaxOps /\ MaxOps \in Nat /\ (pc[c] # "user" => left[c] < MaxOps)
  BY DiskParameters DEF TypeOK, Begun
<1> QED
  BY <1>1 DEF Submitted

\* MapThenSumSet adds the submissions up.
LEMMA SumOfSubmissions == TypeOK /\ Begun => (NoRequestLost <=> InSum = Elsewhere)
<1> SUFFICES ASSUME TypeOK, Begun PROVE NoRequestLost <=> InSum = Elsewhere
  OBVIOUS
<1> DEFINE Adds(f) ==
      f = [s \in SUBSET Clients |->
              IF s = {} THEN 0
              ELSE LET c == CHOOSE c \in s : TRUE IN Submitted(c) + f[s \ {c}]]
<1>1. IsFiniteSet(Clients) /\ Submissions \in [Clients -> Nat]
  BY DiskParameters, SubmittedTyped
<1>2. ASSUME NEW f PROVE Adds(f) <=> SumsUp(f, Submissions, Clients)
  <2>1. \A s \in SUBSET Clients : s # {} =>
           LET c == CHOOSE c \in s : TRUE IN Submissions[c] = Submitted(c)
    BY DEF Submissions
  <2> QED
    BY <2>1 DEF SumsUp
<1> HIDE DEF Adds
<1>3. Adds(CHOOSE f : Adds(f))
  BY <1>1, <1>2, SumsUpExists
<1>4. NoRequestLost <=> (CHOOSE f : Adds(f))[Clients] = Elsewhere
  BY DEF NoRequestLost, MapThenSumSet, MapThenFoldSet, Adds, Elsewhere
<1>5. (CHOOSE f : Adds(f))[Clients] = InSum
  BY <1>1, <1>2, <1>3, SumIsArea DEF InSum
<1> QED
  BY <1>4, <1>5

\* What a step may do to the submissions and to where the requests are.
Nothing == Begun' /\ Submissions' = Submissions /\ Elsewhere' = Elsewhere
OneMore ==
    /\ Begun' /\ Elsewhere' = Elsewhere + 1
    /\ \E c \in Clients :
          /\ Submissions'[c] = Submissions[c] + 1
          /\ \A d \in Clients \ {c} : Submissions'[d] = Submissions[d]

LEMMA NothingSubmitted ==
    ASSUME TypeOK, Begun, left' = left,
           \A c \in Clients : /\ pc'[c] \in Before <=> pc[c] \in Before
                              /\ pc[c] = "user" => pc'[c] = "user"
    PROVE  Begun' /\ Submissions' = Submissions
<1>1. \A c \in Clients : Submitted(c)' = Submitted(c)
  BY DEF Submitted, Before
<1>2. Submissions' = Submissions
  BY <1>1 DEF Submissions
<1> QED
  BY <1>2 DEF Begun

\* The other half of `Nothing', for steps that serve, queue and take nothing.
LEMMA NothingMoved ==
    ASSUME UNCHANGED <<perf, requestQueue>>,
           mpc' \in {"cmd", "busy"} <=> mpc \in {"cmd", "busy"}
    PROVE  Elsewhere' = Elsewhere
  BY DEF Elsewhere

LEMMA ClientSubmits ==
    ASSUME Structure, Begun, NEW c \in Clients, Client(c)
    PROVE  Nothing \/ OneMore
<1> USE DEF taskVars, mgrVars, queueVars, semVars, diskVars, Goto
<1>0. TypeOK /\ Filled
  BY DEF Structure
<1>1. ASSUME NEW op \in Operations, NEW b \in ValidBlocks, Call(c, op, b) PROVE Nothing
  <2>1. /\ pc[c] = "user" /\ left[c] > 0 /\ pc' = [pc EXCEPT ![c] = "down"]
        /\ left' = [left EXCEPT ![c] = left[c] - 1]
        /\ UNCHANGED <<perf, requestQueue, mpc>>
    BY <1>1 DEF Call
  <2>2. left \in [Clients -> 0 .. MaxOps] /\ MaxOps \in Nat /\ pc \in [Clients -> ClientPoints]
    BY <1>0, DiskParameters DEF TypeOK
  <2>3. \A d \in Clients : Submitted(d)' = Submitted(d)
    BY <2>1, <2>2 DEF Submitted
  <2>4. Begun'
    BY <2>1, <2>2 DEF Begun
  <2> QED
    BY <2>1, <2>3, <2>4, NothingMoved DEF Submissions, Nothing
<1>2. CASE ClientDown(c)
  BY <1>0, <1>2, NothingSubmitted, NothingMoved
  DEF ClientDown, SemDown, TypeOK, Before, Nothing
<1>3. CASE QueueAppend(c)
  <2>1. /\ pc[c] = "append" /\ left' = left /\ UNCHANGED <<perf, mpc>>
        /\ requestQueue' = Append(requestQueue, request[c])
        /\ \E point \in {"link", "up"} : pc' = [pc EXCEPT ![c] = point]
    BY <1>3 DEF QueueAppend
  <2>2. /\ left \in [Clients -> 0 .. MaxOps] /\ MaxOps \in Nat
        /\ pc \in [Clients -> ClientPoints] /\ perf.processed \in Nat
    BY <1>0, DiskParameters DEF TypeOK
  <2>3. Len(requestQueue') = Len(requestQueue) + 1 /\ Len(requestQueue) \in Nat
    BY <1>0, <2>1, AppendProperties, LenProperties DEF TypeOK, Filled
  <2>4. Elsewhere' = Elsewhere + 1
    BY <2>1, <2>2, <2>3 DEF Elsewhere
  <2>5. /\ Submitted(c)' = Submitted(c) + 1
        /\ \A d \in Clients \ {c} : Submitted(d)' = Submitted(d)
    BY <2>1, <2>2 DEF Submitted
  <2>6. Begun'
    BY <2>1, <2>2 DEF Begun
  <2> QED
    BY <2>4, <2>5, <2>6 DEF Submissions, OneMore
<1>4. CASE QueueLink(c)
  BY <1>0, <1>4, NothingSubmitted, NothingMoved DEF QueueLink, TypeOK, Before, Nothing
<1>5. CASE ClientUp(c)
  <2> DEFINE points == [pc EXCEPT ![c] = "suspend"]
  <2>1. /\ SemUp(points, mpc) /\ pc[c] = "up"
        /\ UNCHANGED <<left, perf, requestQueue>>
    BY <1>5 DEF ClientUp
  <2>2. /\ points \in [Clients -> ClientPoints] /\ mpc \in MgrPoints
        /\ \A d \in Clients : points[d] = "semwait" <=> pc[d] = "semwait"
        /\ \A d \in Clients : points[d] \in Before <=> pc[d] \in Before
        /\ \A d \in Clients : points[d] = "user" <=> pc[d] = "user"
    BY <1>0, <2>1 DEF TypeOK, Before
  <2> HIDE DEF points
  <2>3. /\ pc' \in [Clients -> ClientPoints]
        /\ \/ pc' = points
           \/ \E p \in Clients : pc[p] = "semwait" /\ pc' = [points EXCEPT ![p] = "append"]
        /\ mpc' = mpc \/ (mpc = "semwait" /\ mpc' = "remove")
    BY <2>1, <2>2, SemUpEffect
  <2>4. \A d \in Clients : /\ pc'[d] \in Before <=> pc[d] \in Before
                           /\ pc[d] = "user" => pc'[d] = "user"
    BY <2>2, <2>3 DEF Before
  <2> QED
    BY <1>0, <2>1, <2>3, <2>4, NothingSubmitted, NothingMoved DEF Nothing
<1>6. CASE Suspend(c)
  BY <1>0, <1>6, NothingSubmitted, NothingMoved DEF Suspend, TypeOK, Before, Nothing
<1>7. CASE CountLoad(c)
  BY <1>0, <1>7, NothingSubmitted, NothingMoved DEF CountLoad, TypeOK, Before, Nothing
<1>8. CASE CountStore(c)
  BY <1>0, <1>8, NothingSubmitted, NothingMoved DEF CountStore, TypeOK, Before, Nothing
<1> QED
  BY <1>1, <1>2, <1>3, <1>4, <1>5, <1>6, <1>7, <1>8 DEF Client

LEMMA ManagerSubmitsNothing ==
    ASSUME Structure, Begun, Manager
    PROVE  Nothing
<1> USE DEF taskVars, mgrVars, queueVars, semVars, diskVars, Goto
<1>0. TypeOK /\ Lines /\ PickStays
  BY DEF Structure
<1>1. CASE MgrTop
  BY <1>0, <1>1, NothingSubmitted, NothingMoved DEF MgrTop, Nothing
<1>2. CASE ProcessCompletionEvents
  <2>1. \A d \in Clients : /\ pc'[d] \in Before <=> pc[d] \in Before
                           /\ pc[d] = "user" => pc'[d] = "user"
    <3>1. CASE diskQueue = <<>> \/ ~sinal
      BY <1>2, <3>1 DEF ProcessCompletionEvents, ResumeFirst
    <3>2. CASE diskQueue # <<>> /\ sinal
      <4>1. Head(diskQueue) \in Parked
        BY <1>0, <3>2, LeaveLine DEF Lines
      <4> QED
        BY <1>0, <1>2, <3>2, <4>1
        DEF ProcessCompletionEvents, ResumeFirst, TypeOK, Parked, Before
    <3> QED
      BY <3>1, <3>2
  <2> QED
    BY <1>0, <1>2, <2>1, NothingSubmitted, NothingMoved DEF ProcessCompletionEvents, Nothing
<1>3. CASE ProcessNewRequests
  BY <1>0, <1>3, NothingSubmitted, NothingMoved DEF ProcessNewRequests, Nothing
<1>4. CASE MgrDown
  BY <1>0, <1>4, NothingSubmitted, NothingMoved DEF MgrDown, SemDown, Nothing
<1>5. CASE MgrRemove
  <2>1. /\ SemUp(pc, "cmd") /\ mpc = "remove" /\ UNCHANGED <<left, perf>>
        /\ requestQueue' = queue_remove(requestQueue, pick)
    BY <1>5 DEF MgrRemove
  <2>2. /\ \/ pc' = pc
           \/ \E p \in Clients : pc[p] = "semwait" /\ pc' = [pc EXCEPT ![p] = "append"]
        /\ mpc' = "cmd"
    BY <1>0, <2>1, SemUpEffect DEF TypeOK
  <2>3. \A d \in Clients : /\ pc'[d] \in Before <=> pc[d] \in Before
                           /\ pc[d] = "user" => pc'[d] = "user"
    BY <1>0, <2>2 DEF Before, TypeOK
  <2>4. requestQueue \in Seq(Request) /\ pick \in 1 .. Len(requestQueue)
    BY <1>0, <2>1, LenProperties DEF TypeOK, PickStays
  <2>5. Len(requestQueue') = Len(requestQueue) - 1 /\ Len(requestQueue) \in Nat
    BY <2>1, <2>4, RemoveFacts, LenProperties DEF queue_remove
  <2>6. Elsewhere' = Elsewhere
    BY <1>0, <2>1, <2>2, <2>5 DEF Elsewhere, TypeOK
  <2> QED
    BY <1>0, <2>1, <2>3, <2>6, NothingSubmitted DEF Nothing
<1>6. CASE ExecuteRequest
  <2>1. perf'.processed = perf.processed
    BY <1>0, <1>6 DEF ExecuteRequest, TypeOK
  <2>2. Elsewhere' = Elsewhere
    BY <1>6, <2>1 DEF ExecuteRequest, Elsewhere
  <2> QED
    BY <1>0, <1>6, <2>2, NothingSubmitted DEF ExecuteRequest, Nothing
<1>7. CASE MarkBusy
  <2>1. perf'.processed = perf.processed + 1 /\ perf.processed \in Nat
    BY <1>0, <1>7 DEF MarkBusy, TypeOK
  <2>2. Len(requestQueue) \in Nat
    BY <1>0, LenProperties DEF TypeOK
  <2>3. Elsewhere' = Elsewhere
    BY <1>7, <2>1, <2>2 DEF MarkBusy, Elsewhere
  <2> QED
    BY <1>0, <1>7, <2>3, NothingSubmitted DEF MarkBusy, Nothing
<1> QED
  BY <1>1, <1>2, <1>3, <1>4, <1>5, <1>6, <1>7 DEF Manager

LEMMA SubmissionStep ==
    ASSUME Structure, Begun, [Next]_vars
    PROVE  Nothing \/ OneMore
<1> USE DEF taskVars, mgrVars, queueVars, semVars, diskVars
<1>0. TypeOK
  BY DEF Structure
<1>1. ASSUME NEW c \in Clients, Client(c) PROVE Nothing \/ OneMore
  BY <1>1, ClientSubmits
<1>2. CASE Manager
  BY <1>2, ManagerSubmitsNothing
<1>3. CASE DriverDone
  BY <1>0, <1>3, NothingSubmitted, NothingMoved DEF DriverDone, Nothing
<1>4. CASE Shutdown
  BY <1>0, <1>4, NothingSubmitted, NothingMoved DEF Shutdown, Nothing
<1>5. CASE UNCHANGED vars
  BY <1>0, <1>5, NothingSubmitted, NothingMoved DEF vars, Nothing
<1> QED
  BY <1>1, <1>2, <1>3, <1>4, <1>5 DEF Next

LEMMA BooksBalance ==
    ASSUME Structure, TypeOK', Begun, [Next]_vars, InSum = Elsewhere
    PROVE  Begun' /\ InSum' = Elsewhere'
<1>0. TypeOK /\ IsFiniteSet(Clients) /\ Submissions \in [Clients -> Nat]
  BY SubmittedTyped, DiskParameters DEF Structure
<1>1. CASE Nothing
  BY <1>1 DEF Nothing, InSum
<1>2. CASE OneMore
  <2>1. PICK c \in Clients :
           /\ Submissions'[c] = Submissions[c] + 1
           /\ \A d \in Clients \ {c} : Submissions'[d] = Submissions[d]
    BY <1>2 DEF OneMore
  <2>2. Submissions' \in [Clients -> Nat]
    <3>1. \A d \in Clients : Submissions'[d] \in Nat
      BY <1>0, <2>1
    <3> QED
      BY <3>1 DEF Submissions
  <2>3. InSum' = InSum + Submissions'[c] - Submissions[c] /\ InSum \in Nat
    BY <1>0, <2>1, <2>2, ChangeColumn DEF InSum
  <2>4. Submissions[c] \in Nat
    BY <1>0
  <2> QED
    BY <1>2, <2>1, <2>3, <2>4 DEF OneMore
<1> QED
  BY <1>1, <1>2, SubmissionStep

LEMMA CountInv == Spec => [](Begun /\ InSum = Elsewhere)
<1>1. Init => Begun /\ InSum = Elsewhere
  <2> SUFFICES ASSUME Init PROVE Begun /\ InSum = Elsewhere
    OBVIOUS
  <2>1. \A c \in Clients : Submissions[c] = 0
    BY DiskParameters DEF Init, Submissions, Submitted
  <2>2. InSum = 0
    BY <2>1, NoColumns DEF InSum
  <2>3. Elsewhere = 0
    BY EmptySeq DEF Init, Elsewhere
  <2> QED
    BY <2>2, <2>3 DEF Init, Begun
<1>2. /\ Structure /\ Structure' /\ [Next]_vars /\ Begun /\ InSum = Elsewhere
      => Begun' /\ (InSum = Elsewhere)'
  BY BooksBalance DEF Structure
<1> QED
  BY <1>1, <1>2, StructureInv, PTL DEF Spec

\* No request is lost and none is served twice: as many have been served, are queued or
\* are in the hands of the manager as the tasks have appended (disk_block_read,
\* disk_block_write, processNewRequests, executeRequest), whatever is preempted.
THEOREM EveryRequestCounted == Spec => []NoRequestLost
<1>1. Structure /\ Begun /\ InSum = Elsewhere => NoRequestLost
  BY SumOfSubmissions DEF Structure
<1> QED
  BY <1>1, CountInv, StructureInv, PTL

-----------------------------------------------------------------------------
(***************************************************************************)
(* What DiskManager implements, for every number of tasks, blocks and      *)
(* calls: the queue and the arm of DiskArm and the lines of DiskQueues,    *)
(* whatever is preempted and under every policy, and the service of        *)
(* DiskService under FCFS when no quantum ends between sem_up and          *)
(* task_suspend.  On the way, what that assumption buys the callers:       *)
(* wake-ups that match the requests, a call that returns after its own     *)
(* transfer.                                                               *)
(***************************************************************************)

-----------------------------------------------------------------------------
(* The requests as the arm sees them.                                      *)

ArmRequest == [task : Clients, block : Blocks]
AbsList(q) == [i \in DOMAIN q |-> AbsRequest(q[i])]

LEMMA AbsListFacts ==
    ASSUME NEW q \in Seq(Request)
    PROVE  /\ AbsList(q) \in Seq(ArmRequest) /\ Len(AbsList(q)) = Len(q)
           /\ DOMAIN AbsList(q) = DOMAIN q
           /\ \A i \in DOMAIN q : AbsList(q)[i] = AbsRequest(q[i])
<1>1. Len(q) \in Nat /\ DOMAIN q = 1 .. Len(q) /\ \A i \in 1 .. Len(q) : q[i] \in Request
  BY LenProperties, ElementOfSeq
<1>2. \A i \in 1 .. Len(q) : AbsRequest(q[i]) \in ArmRequest
  BY <1>1 DEF AbsRequest, ArmRequest, Request
<1>3. AbsList(q) \in [1 .. Len(q) -> ArmRequest]
  BY <1>1, <1>2 DEF AbsList
<1>4. AbsList(q) \in Seq(ArmRequest)
  BY <1>1, <1>3, SeqDef
<1>5. DOMAIN AbsList(q) = 1 .. Len(q) /\ DOMAIN AbsList(q) = 1 .. Len(AbsList(q))
  BY <1>3, <1>4, LenProperties
<1>6. Len(AbsList(q)) = Len(q)
  BY <1>1, <1>4, <1>5, LenProperties
<1> QED
  BY <1>1, <1>4, <1>5, <1>6 DEF AbsList

\* A request put at the end comes last, and leaves the choice where it was.
LEMMA AbsAppend ==
    ASSUME NEW q \in Seq(Request), NEW r \in Request
    PROVE  AbsList(Append(q, r)) = Append(AbsList(q), AbsRequest(r))
<1>1. /\ Append(q, r) \in Seq(Request) /\ Len(Append(q, r)) = Len(q) + 1
      /\ \A i \in 1 .. Len(q) : Append(q, r)[i] = q[i]
      /\ Append(q, r)[Len(q) + 1] = r /\ Len(q) \in Nat
      /\ DOMAIN q = 1 .. Len(q) /\ DOMAIN Append(q, r) = 1 .. Len(q) + 1
  BY AppendProperties, LenProperties
<1> DEFINE a == AbsList(q)
           b == AbsList(Append(q, r))
           x == AbsRequest(r)
<1>2. /\ a \in Seq(ArmRequest) /\ Len(a) = Len(q)
      /\ \A i \in 1 .. Len(q) : a[i] = AbsRequest(q[i])
  BY <1>1, AbsListFacts
<1>3. /\ b \in Seq(ArmRequest) /\ Len(b) = Len(q) + 1
      /\ \A i \in 1 .. Len(q) + 1 : b[i] = AbsRequest(Append(q, r)[i])
  BY <1>1, AbsListFacts
<1>4. x \in ArmRequest
  BY DEF AbsRequest, ArmRequest, Request
<1> HIDE DEF a, b, x
<1>5. /\ Append(a, x) \in Seq(ArmRequest) /\ Len(Append(a, x)) = Len(a) + 1
      /\ \A i \in 1 .. Len(a) : Append(a, x)[i] = a[i]
      /\ Append(a, x)[Len(a) + 1] = x
  BY <1>2, <1>4, AppendProperties
<1>6. \A i \in 1 .. Len(b) : b[i] = Append(a, x)[i]
  BY <1>1, <1>2, <1>3, <1>5 DEF x
<1>7. b = Append(a, x)
  BY <1>2, <1>3, <1>5, <1>6, SeqEqual
<1> QED
  BY <1>7 DEF a, b, x

LEMMA AbsRemove ==
    ASSUME NEW q \in Seq(Request), NEW i \in 1 .. Len(q)
    PROVE  AbsList(queue_remove(q, i)) = queue_remove(AbsList(q), i)
<1> DEFINE a == AbsList(q)
           p == queue_remove(q, i)
           b == AbsList(p)
           c == queue_remove(a, i)
<1>0. Len(q) \in Nat /\ DOMAIN q = 1 .. Len(q)
  BY LenProperties
<1>1. /\ p \in Seq(Request) /\ Len(p) = Len(q) - 1
      /\ \A j \in 1 .. Len(q) - 1 : p[j] = IF j < i THEN q[j] ELSE q[j + 1]
  BY RemoveFacts DEF queue_remove
<1>2. /\ a \in Seq(ArmRequest) /\ Len(a) = Len(q)
      /\ \A j \in 1 .. Len(q) : a[j] = AbsRequest(q[j])
  BY <1>0, AbsListFacts
<1>3. DOMAIN p = 1 .. Len(p)
  BY <1>1, LenProperties
<1>4. /\ b \in Seq(ArmRequest) /\ Len(b) = Len(q) - 1
      /\ \A j \in 1 .. Len(q) - 1 : b[j] = AbsRequest(p[j])
  BY <1>1, <1>3, AbsListFacts
<1>5. /\ c \in Seq(ArmRequest) /\ Len(c) = Len(q) - 1
      /\ \A j \in 1 .. Len(q) - 1 : c[j] = IF j < i THEN a[j] ELSE a[j + 1]
  <2> HIDE DEF a
  <2> QED
    BY <1>2, RemoveFacts DEF queue_remove
<1> HIDE DEF a, b, c, p
<1>6. \A j \in 1 .. Len(b) : b[j] = c[j]
  <2> TAKE j \in 1 .. Len(b)
  <2>1. /\ j \in 1 .. Len(q) - 1 /\ j \in 1 .. Len(q) /\ j + 1 \in 1 .. Len(q)
    BY <1>0, <1>4
  <2>2. CASE j < i
    <3>1. b[j] = AbsRequest(q[j]) /\ c[j] = a[j] /\ a[j] = AbsRequest(q[j])
      BY <1>1, <1>2, <1>4, <1>5, <2>1, <2>2
    <3> QED
      BY <3>1
  <2>3. CASE ~(j < i)
    <3>1. b[j] = AbsRequest(q[j + 1]) /\ c[j] = a[j + 1]
      BY <1>1, <1>4, <1>5, <2>1, <2>3
    <3> QED
      BY <1>2, <2>1, <3>1
  <2> QED
    BY <2>2, <2>3
<1>7. b = c
  BY <1>4, <1>5, <1>6, SeqEqual
<1> QED
  BY <1>7 DEF a, b, c, p

\* A new request and the removal of a chosen one may be exchanged.
LEMMA RemoveAppended ==
    ASSUME NEW q \in Seq(Request), NEW i \in 1 .. Len(q), NEW r \in Request
    PROVE  queue_remove(Append(q, r), i) = Append(queue_remove(q, i), r)
<1> DEFINE p == queue_remove(q, i)
           b == Append(p, r)
           c == queue_remove(Append(q, r), i)
<1>1. /\ Append(q, r) \in Seq(Request) /\ Len(Append(q, r)) = Len(q) + 1
      /\ \A j \in 1 .. Len(q) : Append(q, r)[j] = q[j]
      /\ Append(q, r)[Len(q) + 1] = r /\ Len(q) \in Nat
  BY AppendProperties, LenProperties
<1>2. /\ p \in Seq(Request) /\ Len(p) = Len(q) - 1
      /\ \A j \in 1 .. Len(q) - 1 : p[j] = IF j < i THEN q[j] ELSE q[j + 1]
  BY RemoveFacts DEF queue_remove
<1>3. /\ c \in Seq(Request) /\ Len(c) = Len(q)
      /\ \A j \in 1 .. Len(q) :
            c[j] = IF j < i THEN Append(q, r)[j] ELSE Append(q, r)[j + 1]
  <2>1. i \in 1 .. Len(Append(q, r)) /\ Len(Append(q, r)) - 1 = Len(q)
    BY <1>1
  <2> QED
    BY <1>1, <2>1, RemoveFacts DEF queue_remove
<1> HIDE DEF p, c
<1>4. /\ b \in Seq(Request) /\ Len(b) = Len(p) + 1
      /\ \A j \in 1 .. Len(p) : b[j] = p[j]
      /\ b[Len(p) + 1] = r
  BY <1>2, AppendProperties
<1> HIDE DEF b
<1>5. \A j \in 1 .. Len(c) : c[j] = b[j]
  BY <1>1, <1>2, <1>3, <1>4
<1>6. Len(c) = Len(b)
  BY <1>1, <1>2, <1>3, <1>4
<1>7. c = b
  BY <1>3, <1>4, <1>5, <1>6, SeqEqual
<1> QED
  BY <1>7 DEF b, c, p

\* The schedulers look at block numbers only.
LEMMA AbsChoice ==
    ASSUME NEW q \in Seq(Request), NEW h, NEW i \in DOMAIN q,
           disk_scheduler(Policy, q, h, i)
    PROVE  disk_scheduler(Policy, AbsList(q), h, i)
<1> DEFINE a == AbsList(q)
<1>1. DOMAIN a = DOMAIN q /\ \A j \in DOMAIN q : a[j].block = q[j].block
  <2>1. \A j \in DOMAIN q : AbsRequest(q[j]).block = q[j].block
    BY DEF AbsRequest
  <2>2. DOMAIN a = DOMAIN q /\ \A j \in DOMAIN q : a[j] = AbsRequest(q[j])
    BY AbsListFacts
  <2> QED
    BY <2>1, <2>2
<1>2. a # <<>>
  <2>1. Len(q) \in Nat /\ Len(a) = Len(q) /\ DOMAIN q = 1 .. Len(q)
    BY AbsListFacts, LenProperties
  <2> QED
    BY <2>1, EmptySeq
<1> HIDE DEF a
<1>3. CASE Policy = "FCFS" /\ fcfs(q, i)
  <2>1. fcfs(a, i)
    BY <1>2, <1>3 DEF fcfs
  <2> QED
    BY <1>3, <2>1 DEF disk_scheduler, a
<1>4. CASE Policy = "SSTF" /\ sstf(q, h, i)
  <2>1. sstf(a, h, i)
    BY <1>1, <1>4 DEF sstf, FirstLeast
  <2> QED
    BY <1>4, <2>1 DEF disk_scheduler, a
<1>5. CASE Policy = "CSCAN" /\ cscan(q, h, i)
  <2>1. Forward(a, h) = Forward(q, h)
    BY <1>1 DEF Forward
  <2>2. Forward(q, h) \subseteq DOMAIN q
    BY DEF Forward
  <2>3. cscan(a, h, i)
    BY <1>1, <1>5, <2>1, <2>2 DEF cscan, FirstLeast
  <2> QED
    BY <1>5, <2>3 DEF disk_scheduler, a
<1> QED
  BY <1>3, <1>4, <1>5 DEF disk_scheduler, a

-----------------------------------------------------------------------------
(* What a task inside its call leaves alone.                               *)

LEMMA ClientFrame ==
    ASSUME Structure, NEW c \in Clients, Client(c)
    PROVE  /\ UNCHANGED <<pick, next_request, livre, perf, driver, store, sinal,
                          system_shutdown_requested, crashed>>
           /\ mpc' = mpc \/ (mpc = "semwait" /\ mpc' = "remove")
           /\ QueueAppend(c) \/ requestQueue' = requestQueue
<1> USE DEF taskVars, mgrVars, queueVars, semVars, diskVars
<1>1. ASSUME NEW op \in Operations, NEW b \in ValidBlocks, Call(c, op, b)
      PROVE  UNCHANGED <<mgrVars, diskVars, requestQueue, system_shutdown_requested, crashed>>
  BY <1>1 DEF Call
<1>2. CASE ClientDown(c)
  BY <1>2 DEF ClientDown
<1>3. CASE QueueAppend(c)
  BY <1>3 DEF QueueAppend
<1>4. CASE QueueLink(c)
  BY <1>4 DEF QueueLink
<1>5. CASE ClientUp(c)
  <2> DEFINE points == [pc EXCEPT ![c] = "suspend"]
  <2>1. /\ SemUp(points, mpc) /\ pc[c] = "up"
        /\ UNCHANGED <<pick, next_request, livre, perf, diskVars, requestQueue,
                       system_shutdown_requested, crashed>>
    BY <1>5 DEF ClientUp
  <2>2. /\ points \in [Clients -> ClientPoints] /\ mpc \in MgrPoints
        /\ \A d \in Clients : points[d] = "semwait" <=> pc[d] = "semwait"
    BY <2>1 DEF Structure, TypeOK
  <2> HIDE DEF points
  <2>3. mpc' = mpc \/ (mpc = "semwait" /\ mpc' = "remove")
    BY <2>1, <2>2, SemUpEffect
  <2> QED
    BY <2>1, <2>3
<1>6. CASE Suspend(c)
  BY <1>6 DEF Suspend
<1>7. CASE CountLoad(c)
  BY <1>7 DEF CountLoad
<1>8. CASE CountStore(c)
  BY <1>8 DEF CountStore
<1> QED
  BY <1>1, <1>2, <1>3, <1>4, <1>5, <1>6, <1>7, <1>8 DEF Client

\* The manager holds a request from its choice to disk_cmd and at no other time.
Handed == mpc \notin Taken => next_request = NoRequest

LEMMA HandedStep == Structure /\ Handed /\ [Next]_vars => Handed'
<1> SUFFICES ASSUME Structure, Handed, [Next]_vars PROVE Handed'
  OBVIOUS
<1> USE DEF taskVars, mgrVars, queueVars, semVars, diskVars, Handed, Taken
<1>1. ASSUME NEW c \in Clients, Client(c) PROVE Handed'
  BY <1>1, ClientFrame
<1>2. CASE Manager
  <2>1. CASE MgrTop
    BY <2>1 DEF MgrTop
  <2>2. CASE ProcessCompletionEvents
    BY <2>2 DEF ProcessCompletionEvents
  <2>3. CASE ProcessNewRequests
    BY <2>3 DEF ProcessNewRequests
  <2>4. CASE MgrDown
    BY <2>4 DEF MgrDown, SemDown
  <2>5. CASE MgrRemove
    <3>1. SemUp(pc, "cmd") /\ mpc = "remove"
      BY <2>5 DEF MgrRemove
    <3>2. mpc' = "cmd"
      BY <3>1, SemUpEffect DEF Structure, TypeOK
    <3> QED
      BY <3>2
  <2>6. CASE ExecuteRequest
    BY <2>6 DEF ExecuteRequest
  <2>7. CASE MarkBusy
    BY <2>7 DEF MarkBusy
  <2> QED
    BY <1>2, <2>1, <2>2, <2>3, <2>4, <2>5, <2>6, <2>7 DEF Manager
<1>3. CASE DriverDone
  BY <1>3 DEF DriverDone
<1>4. CASE Shutdown
  BY <1>4 DEF Shutdown
<1>5. CASE UNCHANGED vars
  BY <1>5 DEF vars
<1> QED
  BY <1>1, <1>2, <1>3, <1>4, <1>5 DEF Next

LEMMA HandedInv == Spec => []Handed
<1>1. Init => Handed
  BY DEF Init, Handed
<1> QED
  BY <1>1, HandedStep, StructureInv, PTL DEF Spec

-----------------------------------------------------------------------------
(* The queue and the arm.                                                  *)

\* What Arm substitutes for head and current.
ArmHead == IF next_request # NoRequest THEN next_request.block ELSE perf.head
ArmCurrent ==
    IF next_request # NoRequest THEN AbsRequest(next_request)
    ELSE IF driver # NoRequest THEN AbsRequest(driver)
    ELSE [task |-> "nobody", block |-> 0]

ArmStays == UNCHANGED <<AbsQueue, ArmHead, ArmCurrent>>

\* The queue without the request the manager is about to take out.
Left == IF Chosen THEN queue_remove(requestQueue, pick) ELSE requestQueue

LEMMA LeftTyped ==
    ASSUME Structure
    PROVE  /\ AbsQueue = AbsList(Left) /\ Left \in Seq(Request)
           /\ Len(Left) <= Len(requestQueue) /\ Len(Left) \in Nat
<1>1. AbsQueue = AbsList(Left)
  BY DEF AbsQueue, AbsList, Left
<1>2. requestQueue \in Seq(Request) /\ Len(requestQueue) \in Nat
  BY LenProperties DEF Structure, TypeOK
<1>3. CASE Chosen
  <2>1. pick \in 1 .. Len(requestQueue)
    BY <1>2, <1>3, LenProperties DEF Structure, PickStays, Chosen
  <2>2. Left \in Seq(Request) /\ Len(Left) = Len(requestQueue) - 1
    BY <1>2, <1>3, <2>1, RemoveFacts DEF Left, queue_remove
  <2> QED
    BY <1>1, <1>2, <2>1, <2>2
<1>4. CASE ~Chosen
  BY <1>1, <1>2, <1>4 DEF Left
<1> QED
  BY <1>3, <1>4

\* The tasks cannot overfill the queue: one that is about to append has not yet
\* appended all its requests.
LEMMA RoomLeft ==
    ASSUME Structure, Begun, InSum = Elsewhere, NEW c \in Clients, pc[c] = "append"
    PROVE  Len(requestQueue) < MaxOps * Cardinality(Clients)
<1>1. /\ TypeOK /\ IsFiniteSet(Clients) /\ MaxOps \in Nat
      /\ Submissions \in [Clients -> Nat]
  BY SubmittedTyped, DiskParameters DEF Structure
<1>2. \A d \in Clients : Submissions[d] <= MaxOps
  BY <1>1 DEF Submissions, Submitted, TypeOK
<1>3. Submissions[c] < MaxOps
  BY <1>1 DEF Submissions, Submitted, TypeOK
<1>4. InSum < MaxOps * Cardinality(Clients)
  BY <1>1, <1>2, <1>3, BelowRectangle DEF InSum
<1>5. Len(requestQueue) \in Nat /\ perf.processed \in Nat
  BY <1>1, LenProperties DEF TypeOK
<1>6. Cardinality(Clients) \in Nat
  BY <1>1, FS_CardinalityType
<1>7. Len(requestQueue) <= Elsewhere /\ Elsewhere \in Nat
  BY <1>5 DEF Elsewhere
<1> QED
  BY <1>1, <1>4, <1>5, <1>6, <1>7

LEMMA SameChoice ==
    ASSUME NEW q, NEW h, NEW i, disk_scheduler(Policy, q, h, i)
    PROVE  Arm!disk_scheduler(Policy, q, h, i)
  BY DEF disk_scheduler, fcfs, sstf, cscan, FirstLeast, Forward, Abs, VisitedBefore,
         Arm!disk_scheduler, Arm!fcfs, Arm!sstf, Arm!cscan, Arm!FirstLeast, Arm!Forward,
         Arm!Abs, Arm!VisitedBefore

\* queue_append on the request queue.
LEMMA AppendIsSubmit ==
    ASSUME Structure, Begun, InSum = Elsewhere, NEW c \in Clients, QueueAppend(c)
    PROVE  Arm!ANext
<1> DEFINE r == request[c]
<1>1. /\ pc[c] = "append" /\ requestQueue' = Append(requestQueue, r)
      /\ UNCHANGED <<mpc, pick, next_request, perf, driver>>
  BY DEF QueueAppend, mgrVars, diskVars
<1>2. r \in Request /\ r.task \in Clients /\ r.block \in Blocks
  BY <1>1, RequestFields DEF Structure, Filled
<1> HIDE DEF r
<1>3. Left' = Append(Left, r)
  <2>1. CASE Chosen
    <3>1. requestQueue \in Seq(Request) /\ pick \in 1 .. Len(requestQueue)
      BY <2>1, LenProperties DEF Structure, TypeOK, PickStays, Chosen
    <3>2. Left' = queue_remove(Append(requestQueue, r), pick)
      BY <1>1, <2>1 DEF Left, Chosen
    <3> QED
      BY <1>2, <2>1, <3>1, <3>2, RemoveAppended DEF Left
  <2>2. CASE ~Chosen
    BY <1>1, <2>2 DEF Left, Chosen
  <2> QED
    BY <2>1, <2>2
<1>4. AbsQueue' = AbsList(Append(Left, r))
  BY <1>3 DEF AbsQueue, AbsList, Left
<1>5. AbsQueue' = Append(AbsQueue, AbsRequest(r))
  BY <1>2, <1>4, LeftTyped, AbsAppend
<1>6. Len(AbsQueue) < MaxOps * Cardinality(Clients)
  <2>1. Len(AbsQueue) = Len(Left)
    BY LeftTyped, AbsListFacts
  <2>2. MaxOps * Cardinality(Clients) \in Nat
    BY FS_CardinalityType, DiskParameters
  <2>3. Len(requestQueue) \in Nat
    BY LenProperties DEF Structure, TypeOK
  <2> QED
    BY <1>1, <2>1, <2>2, <2>3, LeftTyped, RoomLeft
<1>7. ArmHead' = ArmHead /\ ArmCurrent' = ArmCurrent
  BY <1>1 DEF ArmHead, ArmCurrent
<1>8. Arm!Submit(r.task, r.block)
  BY <1>5, <1>6, <1>7 DEF Arm!Submit, AbsRequest, ArmHead, ArmCurrent
<1> QED
  BY <1>2, <1>8 DEF Arm!ANext

\* disk_scheduler's choice on a free disk.
LEMMA ChoiceIsServe ==
    ASSUME Structure, Flags, Handed, ProcessNewRequests, next_request' # next_request
    PROVE  Arm!ANext
<1>1. PICK i \in DOMAIN requestQueue :
         /\ disk_scheduler(Policy, requestQueue, perf.head, i)
         /\ pick' = i /\ next_request' = requestQueue[i]
         /\ mpc = "new" /\ mpc' = "down" /\ livre
         /\ UNCHANGED <<requestQueue, driver, perf>>
  BY DEF ProcessNewRequests, Work, queueVars, diskVars
<1>2. /\ requestQueue \in Seq(Request) /\ i \in 1 .. Len(requestQueue)
      /\ DOMAIN requestQueue = 1 .. Len(requestQueue)
  BY LenProperties DEF Structure, TypeOK
<1> DEFINE r == requestQueue[i]
           a == AbsList(requestQueue)
<1>3. r \in Request /\ r # NoRequest
  BY <1>2, ElementOfSeq, RequestFields
<1>4. next_request = NoRequest /\ driver = NoRequest
  BY <1>1 DEF Handed, Taken, Flags, LivreTracksDriver
<1>5. AbsQueue = a /\ AbsQueue' = AbsList(queue_remove(requestQueue, i))
  BY <1>1 DEF AbsQueue, AbsList, Chosen
<1>6. AbsQueue' = queue_remove(a, i)
  BY <1>2, <1>5, AbsRemove
<1>7. /\ ArmHead = perf.head /\ ArmHead' = r.block
      /\ ArmCurrent = [task |-> "nobody", block |-> 0] /\ ArmCurrent' = AbsRequest(r)
  BY <1>1, <1>3, <1>4 DEF ArmHead, ArmCurrent
<1>8. i \in DOMAIN a /\ a[i] = AbsRequest(r) /\ a[i].block = r.block
  <2>1. AbsRequest(r).block = r.block
    BY DEF AbsRequest
  <2> QED
    BY <1>2, <2>1, AbsListFacts
<1>9. disk_scheduler(Policy, a, perf.head, i)
  BY <1>1, <1>2, AbsChoice
<1> HIDE DEF a, r
<1>10. Arm!disk_scheduler(Policy, AbsQueue, ArmHead, i)
  BY <1>5, <1>7, <1>9, SameChoice
<1>11. Arm!queue_remove(AbsQueue, i) = queue_remove(a, i)
  BY <1>5 DEF Arm!queue_remove, queue_remove, Arm!RemoveAt, RemoveAt
<1>12. Arm!Serve(i)
  BY <1>5, <1>6, <1>7, <1>8, <1>10, <1>11
  DEF Arm!Serve, Arm!Take, Arm!Idle, Arm!Nobody, ArmHead, ArmCurrent
<1> QED
  BY <1>5, <1>8, <1>12 DEF Arm!ANext

\* The driver's timer.
LEMMA DoneIsComplete ==
    ASSUME Structure, Flags, Handed, DriverDone
    PROVE  Arm!ANext
<1>1. /\ driver # NoRequest /\ driver' = NoRequest
      /\ UNCHANGED <<mpc, pick, next_request, perf, requestQueue>>
  BY DEF DriverDone, mgrVars, queueVars
<1>2. driver \in Request /\ driver.task \in Clients
  BY <1>1, RequestFields DEF Structure, TypeOK
<1>3. next_request = NoRequest
  BY <1>1 DEF Handed, Taken, Flags, LivreTracksDriver
<1>4. AbsQueue' = AbsQueue
  BY <1>1 DEF AbsQueue, Chosen
<1>5. /\ ArmHead' = ArmHead
      /\ ArmCurrent = AbsRequest(driver) /\ ArmCurrent' = [task |-> "nobody", block |-> 0]
  BY <1>1, <1>3 DEF ArmHead, ArmCurrent
<1>6. AbsRequest(driver) # [task |-> "nobody", block |-> 0]
  <2>1. AbsRequest(driver).task = driver.task
    BY DEF AbsRequest
  <2> QED
    BY <1>2, <2>1, NobodyFree
<1> QED
  BY <1>4, <1>5, <1>6
  DEF Arm!ANext, Arm!Complete, Arm!Idle, Arm!Nobody, ArmHead, ArmCurrent

\* Every other step of the manager is out of the arm's sight.
LEMMA ManagerArm ==
    ASSUME Structure, Flags, Handed, Manager
    PROVE  Arm!ANext \/ ArmStays
<1> USE DEF taskVars, mgrVars, queueVars, semVars, diskVars
<1>0. TypeOK
  BY DEF Structure
<1>1. CASE MgrTop
  BY <1>1 DEF MgrTop, ArmStays, AbsQueue, ArmHead, ArmCurrent, Chosen
<1>2. CASE ProcessCompletionEvents
  BY <1>2 DEF ProcessCompletionEvents, ArmStays, AbsQueue, ArmHead, ArmCurrent, Chosen
<1>3. CASE ProcessNewRequests
  <2>1. CASE next_request' # next_request
    BY <1>3, <2>1, ChoiceIsServe
  <2>2. CASE next_request' = next_request
    <3>1. mpc = "new" /\ next_request = NoRequest
      BY <1>3 DEF ProcessNewRequests, Handed, Taken
    <3>2. mpc' # "down"
      <4>1. ASSUME NEW i \in DOMAIN requestQueue PROVE requestQueue[i] # NoRequest
        BY <1>0, ElementOfSeq, RequestFields DEF TypeOK
      <4> QED
        BY <1>3, <2>2, <3>1, <4>1 DEF ProcessNewRequests
    <3>3. mpc' \in {"top", "new"} /\ UNCHANGED <<requestQueue, pick, perf, driver>>
      BY <1>3, <3>2 DEF ProcessNewRequests
    <3> QED
      BY <2>2, <3>1, <3>3 DEF ArmStays, AbsQueue, ArmHead, ArmCurrent, Chosen
  <2> QED
    BY <2>1, <2>2
<1>4. CASE MgrDown
  BY <1>4 DEF MgrDown, SemDown, ArmStays, AbsQueue, ArmHead, ArmCurrent, Chosen
<1>5. CASE MgrRemove
  <2>1. /\ SemUp(pc, "cmd") /\ mpc = "remove"
        /\ requestQueue' = queue_remove(requestQueue, pick)
        /\ UNCHANGED <<next_request, perf, driver>>
    BY <1>5 DEF MgrRemove
  <2>2. mpc' = "cmd"
    BY <1>0, <2>1, SemUpEffect DEF TypeOK
  <2> QED
    BY <2>1, <2>2 DEF ArmStays, AbsQueue, ArmHead, ArmCurrent, Chosen
<1>6. CASE ExecuteRequest
  <2>1. next_request \in Request /\ driver = NoRequest
    BY <1>6 DEF ExecuteRequest, Flags, LivreTracksDriver, Taken
  <2>2. /\ driver' = next_request /\ next_request' = NoRequest
        /\ mpc = "cmd" /\ mpc' = "busy" /\ UNCHANGED <<requestQueue, pick>>
        /\ perf'.head = next_request.block
    BY <1>0, <1>6, <2>1 DEF ExecuteRequest, TypeOK
  <2>3. next_request # NoRequest
    BY <2>1, RequestFields
  <2> QED
    BY <2>2, <2>3 DEF ArmStays, AbsQueue, ArmHead, ArmCurrent, Chosen
<1>7. CASE MarkBusy
  <2>1. perf'.head = perf.head
    BY <1>0, <1>7 DEF MarkBusy, TypeOK
  <2> QED
    BY <1>7, <2>1 DEF MarkBusy, ArmStays, AbsQueue, ArmHead, ArmCurrent, Chosen
<1> QED
  BY <1>1, <1>2, <1>3, <1>4, <1>5, <1>6, <1>7 DEF Manager

LEMMA ArmStep ==
    ASSUME Structure, Flags, Handed, Begun, InSum = Elsewhere, [Next]_vars
    PROVE  [Arm!ANext]_(Arm!avars)
<1> USE DEF taskVars, mgrVars, queueVars, semVars, diskVars
<1>a. ASSUME ArmStays PROVE UNCHANGED Arm!avars
  BY <1>a DEF ArmStays, Arm!avars, ArmHead, ArmCurrent
<1>1. ASSUME NEW c \in Clients, Client(c) PROVE Arm!ANext \/ ArmStays
  <2>1. CASE QueueAppend(c)
    BY <2>1, AppendIsSubmit
  <2>2. CASE ~QueueAppend(c)
    BY <1>1, <2>2, ClientFrame DEF ArmStays, AbsQueue, ArmHead, ArmCurrent, Chosen
  <2> QED
    BY <2>1, <2>2
<1>2. CASE Manager
  BY <1>2, <1>a, ManagerArm
<1>3. CASE DriverDone
  BY <1>3, DoneIsComplete
<1>4. CASE Shutdown
  BY <1>4, <1>a DEF Shutdown, ArmStays, AbsQueue, ArmHead, ArmCurrent, Chosen
<1>5. CASE UNCHANGED vars
  BY <1>5, <1>a DEF vars, ArmStays, AbsQueue, ArmHead, ArmCurrent, Chosen
<1> QED
  BY <1>1, <1>2, <1>3, <1>4, <1>5, <1>a DEF Next

\* With its semaphore, its signal and its preemptions out of sight, bodyDiskManager
\* is a queue and an arm: requests come in, the one the policy prefers is taken when
\* the disk is free, and the arm goes to its block (processNewRequests,
\* executeRequest, disk_scheduler), under every policy and whatever is preempted.
THEOREM ManagerIsArm == Spec => ImplementsArm
<1>1. Init => Arm!AInit
  <2> SUFFICES ASSUME Init PROVE Arm!AInit
    OBVIOUS
  <2>1. ~Chosen /\ requestQueue = <<>> /\ AbsQueue = <<>>
    BY DEF Init, Chosen, AbsQueue
  <2> QED
    BY <2>1 DEF Init, Arm!AInit, Arm!Idle, Arm!Nobody
<1>2. /\ Structure /\ Flags /\ Handed /\ Begun /\ InSum = Elsewhere /\ [Next]_vars
      => [Arm!ANext]_(Arm!avars)
  BY ArmStep
<1> QED
  BY <1>1, <1>2, StructureInv, FlagsInv, HandedInv, CountInv, PTL
  DEF Spec, ImplementsArm, Arm!ASpec

-----------------------------------------------------------------------------
(* Wakeups and waiters.                                                    *)

\* sem_up lets one waiter on, and otherwise moves the caller alone.
LEMMA UpEffect ==
    ASSUME Structure, NEW c \in Clients, ClientUp(c)
    PROVE  /\ pc[c] = "up" /\ pc'[c] = "suspend"
           /\ \A d \in Clients \ {c} :
                 pc'[d] = pc[d] \/ (pc[d] = "semwait" /\ pc'[d] = "append")
           /\ UNCHANGED <<request, buffer, left, tmp, requestQueue, diskQueue, stats>>
<1> DEFINE points == [pc EXCEPT ![c] = "suspend"]
<1>1. /\ SemUp(points, mpc) /\ pc[c] = "up"
      /\ UNCHANGED <<request, buffer, left, tmp, requestQueue, diskQueue, stats>>
  BY DEF ClientUp, queueVars
<1>2. /\ points \in [Clients -> ClientPoints] /\ mpc \in MgrPoints
      /\ \A d \in Clients : points[d] = "semwait" <=> pc[d] = "semwait"
      /\ points[c] = "suspend" /\ \A d \in Clients \ {c} : points[d] = pc[d]
  BY <1>1 DEF Structure, TypeOK
<1> HIDE DEF points
<1>3. \/ pc' = points
      \/ \E p \in Clients : pc[p] = "semwait" /\ pc' = [points EXCEPT ![p] = "append"]
  BY <1>1, <1>2, SemUpEffect
<1> QED
  BY <1>1, <1>2, <1>3

LEMMA RemoveEffect ==
    ASSUME Structure, MgrRemove
    PROVE  /\ mpc = "remove" /\ mpc' = "cmd"
           /\ \A d \in Clients :
                 pc'[d] = pc[d] \/ (pc[d] = "semwait" /\ pc'[d] = "append")
           /\ requestQueue' = queue_remove(requestQueue, pick)
           /\ requestQueue \in Seq(Request) /\ pick \in 1 .. Len(requestQueue)
           /\ requestQueue[pick] = next_request
           /\ UNCHANGED <<request, buffer, left, tmp, next_request, perf, diskVars,
                          diskQueue, stats, system_shutdown_requested>>
<1>1. /\ SemUp(pc, "cmd") /\ mpc = "remove"
      /\ requestQueue' = queue_remove(requestQueue, pick)
      /\ UNCHANGED <<request, buffer, left, tmp, next_request, perf, diskVars,
                     diskQueue, stats, system_shutdown_requested>>
  BY DEF MgrRemove
<1>2. TypeOK /\ PickStays
  BY DEF Structure
<1>3. /\ mpc' = "cmd"
      /\ \/ pc' = pc
         \/ \E p \in Clients : pc[p] = "semwait" /\ pc' = [pc EXCEPT ![p] = "append"]
  BY <1>1, <1>2, SemUpEffect DEF TypeOK
<1>4. \A d \in Clients : pc'[d] = pc[d] \/ (pc[d] = "semwait" /\ pc'[d] = "append")
  BY <1>2, <1>3 DEF TypeOK
<1>5. requestQueue \in Seq(Request) /\ pick \in 1 .. Len(requestQueue)
  BY <1>1, <1>2, LenProperties DEF TypeOK, PickStays
<1> QED
  BY <1>1, <1>2, <1>3, <1>4, <1>5 DEF PickStays

\* The request a task fills in carries its own name.
Own == \A c \in Clients : pc[c] # "user" => request[c].task = c

LEMMA OwnKept ==
    ASSUME Own, request' = request, \A c \in Clients : pc[c] = "user" => pc'[c] = "user"
    PROVE  Own'
  BY DEF Own

LEMMA OwnInv == Spec => []Own
<1> USE DEF taskVars, mgrVars, queueVars, semVars, diskVars, Goto
<1>1. Init => Own
  BY DEF Init, Own
<1>2. ASSUME Structure, Own, [Next]_vars PROVE Own'
  <2>0. pc \in [Clients -> ClientPoints] /\ Lines
    BY <1>2 DEF Structure, TypeOK
  <2>1. ASSUME NEW c \in Clients, Client(c) PROVE Own'
    <3>1. ASSUME NEW op \in Operations, NEW b \in ValidBlocks, Call(c, op, b) PROVE Own'
      <4>1. /\ request' = [request EXCEPT ![c] = [task |-> c, op |-> op, block |-> b]]
            /\ pc' = [pc EXCEPT ![c] = "down"]
        BY <3>1 DEF Call
      <4>2. request \in [Clients -> Request \cup {NoRequest}]
        BY <1>2 DEF Structure, TypeOK
      <4> QED
        BY <1>2, <2>0, <4>1, <4>2 DEF Own
    <3>2. CASE ClientDown(c)
      BY <1>2, <2>0, <3>2, OwnKept DEF ClientDown, SemDown
    <3>3. CASE QueueAppend(c)
      BY <1>2, <2>0, <3>3, OwnKept DEF QueueAppend
    <3>4. CASE QueueLink(c)
      BY <1>2, <2>0, <3>4, OwnKept DEF QueueLink
    <3>5. CASE ClientUp(c)
      BY <1>2, <3>5, UpEffect, OwnKept
    <3>6. CASE Suspend(c)
      BY <1>2, <2>0, <3>6, OwnKept DEF Suspend
    <3>7. CASE CountLoad(c)
      BY <1>2, <2>0, <3>7, OwnKept DEF CountLoad
    <3>8. CASE CountStore(c)
      BY <1>2, <2>0, <3>8 DEF CountStore, Own
    <3> QED
      BY <2>1, <3>1, <3>2, <3>3, <3>4, <3>5, <3>6, <3>7, <3>8 DEF Client
  <2>2. CASE Manager
    <3>1. CASE ProcessCompletionEvents
      <4>1. \A c \in Clients : pc[c] = "user" => pc'[c] = "user"
        <5>1. CASE ~sinal \/ diskQueue = <<>>
          BY <3>1, <5>1 DEF ProcessCompletionEvents, ResumeFirst
        <5>2. CASE sinal /\ diskQueue # <<>>
          <6>1. Head(diskQueue) \in Parked
            BY <2>0, <5>2, LeaveLine DEF Lines
          <6> QED
            BY <2>0, <3>1, <5>2, <6>1 DEF ProcessCompletionEvents, ResumeFirst, Parked
        <5> QED
          BY <5>1, <5>2
      <4> QED
        BY <1>2, <3>1, <4>1, OwnKept DEF ProcessCompletionEvents
    <3>2. CASE MgrRemove
      BY <1>2, <3>2, RemoveEffect, OwnKept
    <3>3. CASE MgrTop \/ ProcessNewRequests \/ MgrDown \/ ExecuteRequest \/ MarkBusy
      BY <1>2, <3>3, OwnKept
      DEF MgrTop, ProcessNewRequests, MgrDown, ExecuteRequest, MarkBusy
    <3> QED
      BY <2>2, <3>1, <3>2, <3>3 DEF Manager
  <2>3. CASE DriverDone
    BY <1>2, <2>3, OwnKept DEF DriverDone
  <2>4. CASE Shutdown
    BY <1>2, <2>4, OwnKept DEF Shutdown
  <2>5. CASE UNCHANGED vars
    BY <1>2, <2>5, OwnKept DEF vars
  <2> QED
    BY <1>2, <2>1, <2>2, <2>3, <2>4, <2>5 DEF Next
<1> QED
  BY <1>1, <1>2, StructureInv, PTL DEF Spec

-----------------------------------------------------------------------------
(* The two lines of DiskQueues: requests, and tasks asleep.                *)

LineRequest == [task : Clients, op : Operations, block : Blocks, buf : {1, 2}]
OneList(q) == [i \in DOMAIN q |-> OneBuffer(q[i])]

LEMMA OneListFacts ==
    ASSUME NEW q \in Seq(Request)
    PROVE  /\ OneList(q) \in Seq(LineRequest) /\ Len(OneList(q)) = Len(q)
           /\ DOMAIN OneList(q) = DOMAIN q
           /\ \A i \in DOMAIN q : OneList(q)[i] = OneBuffer(q[i])
<1>1. Len(q) \in Nat /\ DOMAIN q = 1 .. Len(q) /\ \A i \in 1 .. Len(q) : q[i] \in Request
  BY LenProperties, ElementOfSeq
<1>2. \A i \in 1 .. Len(q) : OneBuffer(q[i]) \in LineRequest
  BY <1>1 DEF OneBuffer, LineRequest, Request
<1>3. OneList(q) \in [1 .. Len(q) -> LineRequest]
  BY <1>1, <1>2 DEF OneList
<1>4. OneList(q) \in Seq(LineRequest)
  BY <1>1, <1>3, SeqDef
<1>5. DOMAIN OneList(q) = 1 .. Len(q) /\ DOMAIN OneList(q) = 1 .. Len(OneList(q))
  BY <1>3, <1>4, LenProperties
<1>6. Len(OneList(q)) = Len(q)
  BY <1>1, <1>4, <1>5, LenProperties
<1> QED
  BY <1>1, <1>4, <1>5, <1>6 DEF OneList

\* A request put at the end comes last, and leaves the choice where it was.
LEMMA OneAppend ==
    ASSUME NEW q \in Seq(Request), NEW r \in Request
    PROVE  OneList(Append(q, r)) = Append(OneList(q), OneBuffer(r))
<1>1. /\ Append(q, r) \in Seq(Request) /\ Len(Append(q, r)) = Len(q) + 1
      /\ \A i \in 1 .. Len(q) : Append(q, r)[i] = q[i]
      /\ Append(q, r)[Len(q) + 1] = r /\ Len(q) \in Nat
      /\ DOMAIN q = 1 .. Len(q) /\ DOMAIN Append(q, r) = 1 .. Len(q) + 1
  BY AppendProperties, LenProperties
<1> DEFINE a == OneList(q)
           b == OneList(Append(q, r))
           x == OneBuffer(r)
<1>2. /\ a \in Seq(LineRequest) /\ Len(a) = Len(q)
      /\ \A i \in 1 .. Len(q) : a[i] = OneBuffer(q[i])
  BY <1>1, OneListFacts
<1>3. /\ b \in Seq(LineRequest) /\ Len(b) = Len(q) + 1
      /\ \A i \in 1 .. Len(q) + 1 : b[i] = OneBuffer(Append(q, r)[i])
  BY <1>1, OneListFacts
<1>4. x \in LineRequest
  BY DEF OneBuffer, LineRequest, Request
<1> HIDE DEF a, b, x
<1>5. /\ Append(a, x) \in Seq(LineRequest) /\ Len(Append(a, x)) = Len(a) + 1
      /\ \A i \in 1 .. Len(a) : Append(a, x)[i] = a[i]
      /\ Append(a, x)[Len(a) + 1] = x
  BY <1>2, <1>4, AppendProperties
<1>6. \A i \in 1 .. Len(b) : b[i] = Append(a, x)[i]
  BY <1>1, <1>2, <1>3, <1>5 DEF x
<1>7. b = Append(a, x)
  BY <1>2, <1>3, <1>5, <1>6, SeqEqual
<1> QED
  BY <1>7 DEF a, b, x

LEMMA OneRemove ==
    ASSUME NEW q \in Seq(Request), NEW i \in 1 .. Len(q)
    PROVE  OneList(queue_remove(q, i)) = queue_remove(OneList(q), i)
<1> DEFINE a == OneList(q)
           p == queue_remove(q, i)
           b == OneList(p)
           c == queue_remove(a, i)
<1>0. Len(q) \in Nat /\ DOMAIN q = 1 .. Len(q)
  BY LenProperties
<1>1. /\ p \in Seq(Request) /\ Len(p) = Len(q) - 1
      /\ \A j \in 1 .. Len(q) - 1 : p[j] = IF j < i THEN q[j] ELSE q[j + 1]
  BY RemoveFacts DEF queue_remove
<1>2. /\ a \in Seq(LineRequest) /\ Len(a) = Len(q)
      /\ \A j \in 1 .. Len(q) : a[j] = OneBuffer(q[j])
  BY <1>0, OneListFacts
<1>3. DOMAIN p = 1 .. Len(p)
  BY <1>1, LenProperties
<1>4. /\ b \in Seq(LineRequest) /\ Len(b) = Len(q) - 1
      /\ \A j \in 1 .. Len(q) - 1 : b[j] = OneBuffer(p[j])
  BY <1>1, <1>3, OneListFacts
<1>5. /\ c \in Seq(LineRequest) /\ Len(c) = Len(q) - 1
      /\ \A j \in 1 .. Len(q) - 1 : c[j] = IF j < i THEN a[j] ELSE a[j + 1]
  <2> HIDE DEF a
  <2> QED
    BY <1>2, RemoveFacts DEF queue_remove
<1> HIDE DEF a, b, c, p
<1>6. \A j \in 1 .. Len(b) : b[j] = c[j]
  <2> TAKE j \in 1 .. Len(b)
  <2>1. /\ j \in 1 .. Len(q) - 1 /\ j \in 1 .. Len(q) /\ j + 1 \in 1 .. Len(q)
    BY <1>0, <1>4
  <2>2. CASE j < i
    <3>1. b[j] = OneBuffer(q[j]) /\ c[j] = a[j] /\ a[j] = OneBuffer(q[j])
      BY <1>1, <1>2, <1>4, <1>5, <2>1, <2>2
    <3> QED
      BY <3>1
  <2>3. CASE ~(j < i)
    <3>1. b[j] = OneBuffer(q[j + 1]) /\ c[j] = a[j + 1]
      BY <1>1, <1>4, <1>5, <2>1, <2>3
    <3> QED
      BY <1>2, <2>1, <3>1
  <2> QED
    BY <2>2, <2>3
<1>7. b = c
  BY <1>4, <1>5, <1>6, SeqEqual
<1> QED
  BY <1>7 DEF a, b, c, p
LEMMA OneChoice ==
    ASSUME NEW q \in Seq(Request), NEW h, NEW i \in DOMAIN q,
           disk_scheduler(Policy, q, h, i)
    PROVE  disk_scheduler(Policy, OneList(q), h, i)
<1> DEFINE a == OneList(q)
<1>1. DOMAIN a = DOMAIN q /\ \A j \in DOMAIN q : a[j].block = q[j].block
  <2>1. \A j \in DOMAIN q : OneBuffer(q[j]).block = q[j].block
    BY DEF OneBuffer
  <2>2. DOMAIN a = DOMAIN q /\ \A j \in DOMAIN q : a[j] = OneBuffer(q[j])
    BY OneListFacts
  <2> QED
    BY <2>1, <2>2
<1>2. a # <<>>
  <2>1. Len(q) \in Nat /\ Len(a) = Len(q) /\ DOMAIN q = 1 .. Len(q)
    BY OneListFacts, LenProperties
  <2> QED
    BY <2>1, EmptySeq
<1> HIDE DEF a
<1>3. CASE Policy = "FCFS" /\ fcfs(q, i)
  <2>1. fcfs(a, i)
    BY <1>2, <1>3 DEF fcfs
  <2> QED
    BY <1>3, <2>1 DEF disk_scheduler, a
<1>4. CASE Policy = "SSTF" /\ sstf(q, h, i)
  <2>1. sstf(a, h, i)
    BY <1>1, <1>4 DEF sstf, FirstLeast
  <2> QED
    BY <1>4, <2>1 DEF disk_scheduler, a
<1>5. CASE Policy = "CSCAN" /\ cscan(q, h, i)
  <2>1. Forward(a, h) = Forward(q, h)
    BY <1>1 DEF Forward
  <2>2. Forward(q, h) \subseteq DOMAIN q
    BY DEF Forward
  <2>3. cscan(a, h, i)
    BY <1>1, <1>5, <2>1, <2>2 DEF cscan, FirstLeast
  <2> QED
    BY <1>5, <2>3 DEF disk_scheduler, a
<1> QED
  BY <1>3, <1>4, <1>5 DEF disk_scheduler, a
\* What Queues substitutes for its variables.
Point(p) ==
    CASE p \in {"user", "down", "semwait", "append"} -> "user"
      [] p \in {"link", "up"} -> "up"
      [] p \in {"suspend", "blocked"} -> p
      [] p \in {"load", "store"} -> "back"
At == [c \in Clients |-> Point(pc[c])]
LineDriver ==
    IF next_request # NoRequest THEN OneBuffer(next_request)
    ELSE IF driver # NoRequest THEN OneBuffer(driver) ELSE NoRequest
Removed == mpc = "cmd" \/ driver # NoRequest

LinesStay == UNCHANGED <<At, OneList(Left), diskQueue, LineDriver, Removed, sinal, ArmHead>>

LEMMA LinesStayIsStutter == LinesStay => UNCHANGED Queues!dqvars
  BY DEF LinesStay, Queues!dqvars, At, Point, OneList, Left, LineDriver, Removed, ArmHead

\* A step that moves one task to another point of DiskQueues, or none.
LEMMA OneMoves ==
    ASSUME Structure, NEW c \in Clients,
           \A d \in Clients \ {c} : Point(pc'[d]) = Point(pc[d])
    PROVE  /\ At' = [At EXCEPT ![c] = Point(pc'[c])]
           /\ At[c] = Point(pc[c])
           /\ Point(pc'[c]) = Point(pc[c]) => At' = At
<1>1. At = [d \in Clients |-> Point(pc[d])] /\ At' = [d \in Clients |-> Point(pc'[d])]
  BY DEF At
<1> HIDE DEF At
<1> QED
  BY <1>1

LEMMA NobodyMoves ==
    ASSUME \A d \in Clients : Point(pc'[d]) = Point(pc[d])
    PROVE  At' = At
  BY DEF At

\* Whoever may run in the manager may run in the lines.
LEMMA RunsInLines ==
    ASSUME Structure
    PROVE  /\ \A c \in Clients : MayRun(c) => Queues!CPUFree(c)
           /\ MayRun(Mgr) => Queues!CPUFreeForManager
<1>1. \A c \in Clients : Point(pc[c]) = "suspend" => pc[c] = "suspend"
  BY DEF Point, Structure, TypeOK
<1>2. ASSUME NEW c \in Clients, MayRun(c) PROVE Queues!CPUFree(c)
  <2>1. \A d \in Clients \ {c} : At[d] \notin NonPreemptible \cap {"suspend"}
    BY <1>1, <1>2 DEF MayRun, At
  <2> QED
    BY <2>1 DEF Queues!CPUFree, At, Point
<1>3. ASSUME MayRun(Mgr) PROVE Queues!CPUFreeForManager
  <2>1. \A d \in Clients : At[d] \notin NonPreemptible \cap {"suspend"}
    BY <1>1, <1>3, DiskParameters DEF MayRun, At
  <2> QED
    BY <2>1 DEF Queues!CPUFreeForManager, At, Point
<1> QED
  BY <1>2, <1>3

\* The holder of the semaphore finds nobody else between queue_append and sem_up.
LEMMA ListIsFree ==
    ASSUME Structure, Exclusive
    PROVE  /\ \A c \in Clients : pc[c] = "append" => Queues!ListFree
           /\ mpc = "remove" => Queues!ListFree
<1>1. ASSUME NEW p \in Holders, p \in Clients => pc[p] = "append" PROVE Queues!ListFree
  <2>1. \A d \in Clients : Point(pc[d]) # "up"
    <3> SUFFICES ASSUME NEW d \in Clients, Point(pc[d]) = "up" PROVE FALSE
      OBVIOUS
    <3>1. pc[d] \in {"link", "up"}
      BY DEF Point, Structure, TypeOK
    <3>2. d \in Holders
      BY <3>1 DEF Holders
    <3> QED
      BY <1>1, <3>1, <3>2 DEF Exclusive
  <2>2. \A d \in Clients : At[d] # "up"
    BY <2>1 DEF At
  <2> QED
    BY <2>2 DEF Queues!ListFree, At, Point
<1> QED
  BY <1>1, DiskParameters DEF Holders

LEMMA SameLineChoice ==
    ASSUME NEW q, NEW h, NEW i, disk_scheduler(Policy, q, h, i)
    PROVE  Queues!disk_scheduler(Policy, q, h, i)
  BY DEF disk_scheduler, fcfs, sstf, cscan, FirstLeast, Forward, Abs, VisitedBefore,
         Queues!disk_scheduler, Queues!fcfs, Queues!sstf, Queues!cscan,
         Queues!FirstLeast, Queues!Forward, Queues!Abs, Queues!VisitedBefore


\* What a task does in disk_block_read and disk_block_write.
LEMMA ClientInLines ==
    ASSUME Structure, Exclusive, Own, NEW c \in Clients, Client(c)
    PROVE  Queues!DQNext \/ LinesStay
<1> USE DEF taskVars, mgrVars, queueVars, semVars, diskVars, Goto
<1>0. /\ pc \in [Clients -> ClientPoints]
      /\ MayRun(c) => Queues!CPUFree(c)
  BY RunsInLines DEF Structure, TypeOK
<1>1. /\ UNCHANGED <<pick, next_request, perf, driver, sinal>>
      /\ mpc' = mpc \/ (mpc = "semwait" /\ mpc' = "remove")
      /\ QueueAppend(c) \/ requestQueue' = requestQueue
  BY ClientFrame
<1>2. /\ LineDriver' = LineDriver /\ Removed' = Removed /\ ArmHead' = ArmHead
      /\ ~QueueAppend(c) => OneList(Left)' = OneList(Left)
  BY <1>1 DEF LineDriver, Removed, ArmHead, OneList, Left, Chosen
<1>3. ASSUME NEW op \in Operations, NEW b \in ValidBlocks, Call(c, op, b) PROVE LinesStay
  <2>1. /\ ~QueueAppend(c) /\ diskQueue' = diskQueue
        /\ \A d \in Clients : Point(pc'[d]) = Point(pc[d])
    BY <1>0, <1>3 DEF Call, QueueAppend, Point
  <2> QED
    BY <1>1, <1>2, <2>1, NobodyMoves DEF LinesStay
<1>4. CASE ClientDown(c)
  <2>1. /\ ~QueueAppend(c) /\ diskQueue' = diskQueue
        /\ \A d \in Clients : Point(pc'[d]) = Point(pc[d])
    BY <1>0, <1>4 DEF ClientDown, SemDown, QueueAppend, Point
  <2> QED
    BY <1>1, <1>2, <2>1, NobodyMoves DEF LinesStay
<1>5. CASE QueueAppend(c)
  <2> DEFINE r == request[c]
  <2>1. /\ MayRun(c) /\ pc[c] = "append" /\ requestQueue' = Append(requestQueue, r)
        /\ pc' = [pc EXCEPT ![c] = IF requestQueue = <<>> THEN "link" ELSE "up"]
        /\ UNCHANGED <<mpc, pick, diskQueue>>
    BY <1>5 DEF QueueAppend
  <2>2. r \in Request /\ r.task = c
    BY <2>1 DEF Structure, Filled, Own
  <2>3. PICK x \in LineRequest : x = OneBuffer(r) /\ x.task = c
    <3>1. OneBuffer(r) \in LineRequest /\ OneBuffer(r).task = c
      BY <2>2 DEF OneBuffer, LineRequest, Request
    <3> QED
      BY <3>1
  <2> HIDE DEF r
  <2>4. Left' = Append(Left, r)
    <3>1. CASE Chosen
      <4>1. requestQueue \in Seq(Request) /\ pick \in 1 .. Len(requestQueue)
        BY <3>1, LenProperties DEF Structure, TypeOK, PickStays, Chosen
      <4>2. Left' = queue_remove(Append(requestQueue, r), pick)
        BY <2>1, <3>1 DEF Left, Chosen
      <4> QED
        BY <2>2, <3>1, <4>1, <4>2, RemoveAppended DEF Left
    <3>2. CASE ~Chosen
      BY <2>1, <3>2 DEF Left, Chosen
    <3> QED
      BY <3>1, <3>2
  <2>5. OneList(Left)' = Append(OneList(Left), x)
    <3>1. OneList(Left)' = OneList(Append(Left, r))
      BY <2>4 DEF OneList
    <3> QED
      BY <2>2, <2>3, <3>1, LeftTyped, OneAppend
  <2>6. /\ At' = [At EXCEPT ![c] = "up"] /\ At[c] = "user"
    <3>1. \A d \in Clients \ {c} : Point(pc'[d]) = Point(pc[d])
      BY <1>0, <2>1
    <3>2. Point(pc'[c]) = "up" /\ Point(pc[c]) = "user"
      BY <1>0, <2>1 DEF Point
    <3> QED
      BY <3>1, <3>2, OneMoves
  <2>7. Queues!CPUFree(c) /\ Queues!ListFree
    BY <1>0, <2>1, ListIsFree
  <2>8. Queues!Ask(x)
    BY <1>1, <1>2, <2>1, <2>3, <2>5, <2>6, <2>7
    DEF Queues!Ask, Queues!Goto, At, Point, OneList, Left, LineDriver, Removed, ArmHead
  <2>9. x \in Queues!Request
    BY <2>3 DEF Queues!Request, LineRequest
  <2> QED
    BY <2>8, <2>9 DEF Queues!DQNext
<1>6. CASE QueueLink(c)
  <2>1. /\ ~QueueAppend(c) /\ diskQueue' = diskQueue
        /\ \A d \in Clients : Point(pc'[d]) = Point(pc[d])
    BY <1>0, <1>6 DEF QueueLink, QueueAppend, Point
  <2> QED
    BY <1>1, <1>2, <2>1, NobodyMoves DEF LinesStay
<1>7. CASE ClientUp(c)
  <2>1. /\ MayRun(c) /\ ~QueueAppend(c)
        /\ pc[c] = "up" /\ pc'[c] = "suspend" /\ diskQueue' = diskQueue
        /\ \A d \in Clients \ {c} :
              pc'[d] = pc[d] \/ (pc[d] = "semwait" /\ pc'[d] = "append")
    BY <1>7, UpEffect DEF ClientUp, QueueAppend
  <2>2. At' = [At EXCEPT ![c] = "suspend"] /\ At[c] = "up"
    <3>1. \A d \in Clients \ {c} : Point(pc'[d]) = Point(pc[d])
      BY <2>1 DEF Point
    <3>2. Point(pc'[c]) = "suspend" /\ Point(pc[c]) = "up"
      BY <2>1 DEF Point
    <3> QED
      BY <3>1, <3>2, OneMoves
  <2>3. Queues!Up(c)
    BY <1>0, <1>1, <1>2, <2>1, <2>2
    DEF Queues!Up, Queues!Goto, At, Point, OneList, Left, LineDriver, Removed, ArmHead
  <2> QED
    BY <2>3 DEF Queues!DQNext
<1>8. CASE Suspend(c)
  <2>1. /\ MayRun(c) /\ ~QueueAppend(c) /\ pc[c] = "suspend"
        /\ pc' = [pc EXCEPT ![c] = "blocked"] /\ diskQueue' = Append(diskQueue, c)
    BY <1>8 DEF Suspend, QueueAppend
  <2>2. At' = [At EXCEPT ![c] = "blocked"] /\ At[c] = "suspend"
    <3>1. \A d \in Clients \ {c} : Point(pc'[d]) = Point(pc[d])
      BY <1>0, <2>1
    <3>2. Point(pc'[c]) = "blocked" /\ Point(pc[c]) = "suspend"
      BY <1>0, <2>1 DEF Point
    <3> QED
      BY <3>1, <3>2, OneMoves
  <2>3. Queues!Suspend(c)
    BY <1>0, <1>1, <1>2, <2>1, <2>2
    DEF Queues!Suspend, Queues!Goto, At, Point, OneList, Left, LineDriver, Removed, ArmHead
  <2> QED
    BY <2>3 DEF Queues!DQNext
<1>9. CASE CountLoad(c)
  <2>1. /\ ~QueueAppend(c) /\ diskQueue' = diskQueue
        /\ \A d \in Clients : Point(pc'[d]) = Point(pc[d])
    BY <1>0, <1>9 DEF CountLoad, QueueAppend, Point
  <2> QED
    BY <1>1, <1>2, <2>1, NobodyMoves DEF LinesStay
<1>10. CASE CountStore(c)
  <2>1. /\ MayRun(c) /\ ~QueueAppend(c) /\ pc[c] = "store"
        /\ pc' = [pc EXCEPT ![c] = "user"] /\ diskQueue' = diskQueue
    BY <1>10 DEF CountStore, QueueAppend
  <2>2. At' = [At EXCEPT ![c] = "user"] /\ At[c] = "back"
    <3>1. \A d \in Clients \ {c} : Point(pc'[d]) = Point(pc[d])
      BY <1>0, <2>1
    <3>2. Point(pc'[c]) = "user" /\ Point(pc[c]) = "back"
      BY <1>0, <2>1 DEF Point
    <3> QED
      BY <3>1, <3>2, OneMoves
  <2>3. Queues!Return(c)
    BY <1>0, <1>1, <1>2, <2>1, <2>2
    DEF Queues!Return, Queues!Goto, At, Point, OneList, Left, LineDriver, Removed, ArmHead
  <2> QED
    BY <2>3 DEF Queues!DQNext
<1> QED
  BY <1>3, <1>4, <1>5, <1>6, <1>7, <1>8, <1>9, <1>10 DEF Client

\* The lines tell every request from none.
LEMMA BufferTold ==
    ASSUME NEW r \in Request
    PROVE  OneBuffer(r) # NoRequest
<1>1. OneBuffer(r).task = r.task /\ NoRequest.task = Mgr
  BY DEF OneBuffer, NoRequest
<1> QED
  BY <1>1, RequestFields, DiskParameters

\* disk_scheduler's choice: the request leaves the line.
LEMMA ChoiceIsTake ==
    ASSUME Structure, Flags, Handed, ProcessNewRequests, next_request' # next_request
    PROVE  Queues!DQNext
<1>1. PICK i \in DOMAIN requestQueue :
         /\ disk_scheduler(Policy, requestQueue, perf.head, i)
         /\ pick' = i /\ next_request' = requestQueue[i]
         /\ mpc = "new" /\ mpc' = "down" /\ livre /\ MayRun(Mgr)
         /\ UNCHANGED <<requestQueue, driver, perf, pc, diskQueue, sinal>>
  BY DEF ProcessNewRequests, Work, taskVars, queueVars, diskVars
<1>2. /\ requestQueue \in Seq(Request) /\ i \in 1 .. Len(requestQueue)
      /\ DOMAIN requestQueue = 1 .. Len(requestQueue)
  BY LenProperties DEF Structure, TypeOK
<1> DEFINE r == requestQueue[i]
           a == OneList(requestQueue)
<1>3. r \in Request /\ r # NoRequest
  BY <1>2, ElementOfSeq, RequestFields
<1>4. next_request = NoRequest /\ driver = NoRequest /\ ~sinal
  BY <1>1 DEF Handed, Taken, Flags, LivreTracksDriver
<1>5. OneList(Left) = a /\ OneList(Left)' = OneList(queue_remove(requestQueue, i))
  BY <1>1 DEF OneList, Left, Chosen
<1>6. OneList(Left)' = queue_remove(a, i)
  BY <1>2, <1>5, OneRemove
<1>7. /\ ArmHead = perf.head /\ ArmHead' = r.block
      /\ LineDriver = NoRequest /\ LineDriver' = OneBuffer(r)
      /\ Removed' = Removed /\ At' = At
  BY <1>1, <1>3, <1>4 DEF ArmHead, LineDriver, Removed, At
<1>8. i \in DOMAIN a /\ a[i] = OneBuffer(r) /\ a[i].block = r.block
  <2>1. OneBuffer(r).block = r.block
    BY DEF OneBuffer
  <2> QED
    BY <1>2, <2>1, OneListFacts
<1>9. disk_scheduler(Policy, a, perf.head, i)
  BY <1>1, <1>2, OneChoice
<1> HIDE DEF a, r
<1>10. Queues!disk_scheduler(Policy, OneList(Left), ArmHead, i)
  BY <1>5, <1>7, <1>9, SameLineChoice
<1>11. Queues!queue_remove(OneList(Left), i) = queue_remove(a, i)
  BY <1>5 DEF Queues!queue_remove, queue_remove, Queues!RemoveAt, RemoveAt
<1>12. Queues!CPUFreeForManager
  BY <1>1, RunsInLines
<1>13. Queues!Take(i)
  BY <1>1, <1>4, <1>5, <1>6, <1>7, <1>8, <1>10, <1>11, <1>12
  DEF Queues!Take, At, Point, OneList, Left, LineDriver, Removed, ArmHead
<1>14. i \in DOMAIN OneList(Left)
  BY <1>5, <1>8
<1> QED
  BY <1>13, <1>14 DEF Queues!DQNext, OneList, Left

\* The manager takes the request out of the list.
LEMMA RemoveIsStart ==
    ASSUME Structure, Exclusive, Flags, MgrRemove
    PROVE  Queues!DQNext
<1>1. /\ mpc = "remove" /\ mpc' = "cmd" /\ MayRun(Mgr)
      /\ \A d \in Clients : pc'[d] = pc[d] \/ (pc[d] = "semwait" /\ pc'[d] = "append")
      /\ requestQueue' = queue_remove(requestQueue, pick)
      /\ UNCHANGED <<next_request, perf, driver, sinal, diskQueue>>
  BY RemoveEffect DEF MgrRemove, diskVars
<1>2. next_request \in Request /\ next_request # NoRequest /\ driver = NoRequest
  BY <1>1, RequestFields DEF Flags, Taken, LivreTracksDriver
<1>3. At' = At
  BY <1>1, NobodyMoves DEF Point
<1>4. OneList(Left)' = OneList(Left)
  BY <1>1 DEF OneList, Left, Chosen
<1>5. /\ ArmHead' = ArmHead /\ LineDriver' = LineDriver /\ LineDriver = OneBuffer(next_request)
      /\ ~Removed /\ Removed'
  BY <1>1, <1>2 DEF ArmHead, LineDriver, Removed
<1>6. OneBuffer(next_request) # NoRequest
  BY <1>2, BufferTold
<1>7. Queues!CPUFreeForManager /\ Queues!ListFree
  BY <1>1, RunsInLines, ListIsFree
<1>8. Queues!Start
  BY <1>1, <1>3, <1>4, <1>5, <1>6, <1>7
  DEF Queues!Start, At, Point, OneList, Left, LineDriver, Removed, ArmHead
<1> QED
  BY <1>8 DEF Queues!DQNext

\* The disk is done.
LEMMA DoneInLines ==
    ASSUME Structure, Flags, Handed, DriverDone
    PROVE  Queues!DQNext
<1>1. /\ driver # NoRequest /\ driver' = NoRequest /\ sinal' = TRUE
      /\ UNCHANGED <<pc, mpc, pick, next_request, perf, requestQueue, diskQueue>>
  BY DEF DriverDone, diskSignalHandler, mgrVars, queueVars
<1>2. next_request = NoRequest /\ mpc # "cmd"
  BY <1>1 DEF Handed, Taken, Flags, LivreTracksDriver
<1>3. At' = At /\ OneList(Left)' = OneList(Left) /\ ArmHead' = ArmHead
  BY <1>1 DEF At, OneList, Left, Chosen, ArmHead
<1>4. LineDriver' = NoRequest /\ Removed /\ ~Removed'
  BY <1>1, <1>2 DEF LineDriver, Removed
<1>5. Queues!Done
  BY <1>1, <1>3, <1>4
  DEF Queues!Done, At, Point, OneList, Left, LineDriver, Removed, ArmHead
<1> QED
  BY <1>5 DEF Queues!DQNext

\* The manager has seen the signal and resumes the first task asleep.
LEMMA SignalSeen ==
    ASSUME Structure, ProcessCompletionEvents
    PROVE  Queues!DQNext \/ LinesStay
<1>1. /\ mpc = "complete" /\ mpc' = "new" /\ MayRun(Mgr)
      /\ UNCHANGED <<pick, next_request, perf, requestQueue, driver>>
  BY DEF ProcessCompletionEvents, queueVars
<1>2. /\ OneList(Left)' = OneList(Left) /\ ArmHead' = ArmHead
      /\ LineDriver' = LineDriver /\ Removed' = Removed
  BY <1>1 DEF OneList, Left, Chosen, ArmHead, LineDriver, Removed
<1>3. Queues!CPUFreeForManager
  BY <1>1, RunsInLines
<1>4. CASE ~sinal
  <2>1. UNCHANGED <<sinal, diskQueue, pc>>
    BY <1>4 DEF ProcessCompletionEvents
  <2>2. At' = At
    BY <2>1 DEF At
  <2> QED
    BY <1>2, <2>1, <2>2 DEF LinesStay
<1>5. CASE sinal /\ diskQueue = <<>>
  <2>1. sinal' = FALSE /\ UNCHANGED <<diskQueue, pc>>
    BY <1>5 DEF ProcessCompletionEvents, ResumeFirst
  <2>2. At' = At
    BY <2>1 DEF At
  <2>3. Queues!Complete
    BY <1>2, <1>3, <1>5, <2>1, <2>2
    DEF Queues!Complete, At, Point, OneList, Left, LineDriver, Removed, ArmHead
  <2> QED
    BY <2>3 DEF Queues!DQNext
<1>6. CASE sinal /\ diskQueue # <<>>
  <2> DEFINE c == Head(diskQueue)
  <2>1. /\ sinal' = FALSE /\ diskQueue' = Tail(diskQueue)
        /\ pc' = [pc EXCEPT ![c] = "load"]
    BY <1>6 DEF ProcessCompletionEvents, ResumeFirst, Goto
  <2>2. c \in Clients /\ pc \in [Clients -> ClientPoints]
    BY <1>6, LeaveLine DEF Structure, TypeOK, Lines, Parked
  <2> HIDE DEF c
  <2>3. At' = [At EXCEPT ![c] = "back"]
    <3>1. \A d \in Clients \ {c} : Point(pc'[d]) = Point(pc[d])
      BY <2>1, <2>2
    <3>2. Point(pc'[c]) = "back"
      BY <2>1, <2>2 DEF Point
    <3> QED
      BY <2>2, <3>1, <3>2, OneMoves
  <2>4. Queues!Goto(Head(diskQueue), "back")
    BY <2>3 DEF Queues!Goto, At, Point, c
  <2>5. Queues!Complete
    BY <1>2, <1>3, <1>6, <2>1, <2>4
    DEF Queues!Complete, OneList, Left, LineDriver, Removed, ArmHead
  <2> QED
    BY <2>5 DEF Queues!DQNext
<1> QED
  BY <1>4, <1>5, <1>6 DEF Structure, TypeOK

LEMMA ManagerInLines ==
    ASSUME Structure, Exclusive, Flags, Handed, Manager
    PROVE  Queues!DQNext \/ LinesStay
<1> USE DEF taskVars, mgrVars, queueVars, semVars, diskVars
<1> USE DEF LinesStay, At, OneList, Left, Chosen, LineDriver, Removed, ArmHead
<1>0. TypeOK
  BY DEF Structure
<1>1. CASE MgrTop
  BY <1>1 DEF MgrTop
<1>2. CASE ProcessCompletionEvents
  BY <1>2, SignalSeen
<1>3. CASE ProcessNewRequests
  <2>1. CASE next_request' # next_request
    BY <1>3, <2>1, ChoiceIsTake
  <2>2. CASE next_request' = next_request
    <3>1. mpc = "new" /\ next_request = NoRequest
      BY <1>3 DEF ProcessNewRequests, Handed, Taken
    <3>2. mpc' # "down"
      <4>1. ASSUME NEW i \in DOMAIN requestQueue PROVE requestQueue[i] # NoRequest
        BY <1>0, ElementOfSeq, RequestFields DEF TypeOK
      <4> QED
        BY <1>3, <2>2, <3>1, <4>1 DEF ProcessNewRequests
    <3>3. /\ mpc' \in {"top", "new"}
          /\ UNCHANGED <<requestQueue, pick, perf, driver, pc, diskQueue, sinal>>
      BY <1>3, <3>2 DEF ProcessNewRequests
    <3> QED
      BY <2>2, <3>1, <3>3
  <2> QED
    BY <2>1, <2>2
<1>4. CASE MgrDown
  BY <1>4 DEF MgrDown, SemDown
<1>5. CASE MgrRemove
  BY <1>5, RemoveIsStart
<1>6. CASE ExecuteRequest
  <2>1. next_request \in Request /\ driver = NoRequest
    BY <1>6 DEF ExecuteRequest, Flags, LivreTracksDriver, Taken
  <2>2. /\ driver' = next_request /\ next_request' = NoRequest
        /\ mpc = "cmd" /\ mpc' = "busy"
        /\ UNCHANGED <<requestQueue, pick, pc, diskQueue, sinal>>
        /\ perf'.head = next_request.block
    BY <1>0, <1>6, <2>1 DEF ExecuteRequest, TypeOK
  <2>3. next_request # NoRequest
    BY <2>1, RequestFields
  <2> QED
    BY <2>2, <2>3
<1>7. CASE MarkBusy
  <2>1. perf'.head = perf.head
    BY <1>0, <1>7 DEF MarkBusy, TypeOK
  <2> QED
    BY <1>7, <2>1 DEF MarkBusy
<1> QED
  BY <1>1, <1>2, <1>3, <1>4, <1>5, <1>6, <1>7 DEF Manager

LEMMA LinesStep ==
    ASSUME Structure, Exclusive, Flags, Handed, Own, [Next]_vars
    PROVE  [Queues!DQNext]_(Queues!dqvars)
<1>1. ASSUME NEW c \in Clients, Client(c) PROVE Queues!DQNext \/ LinesStay
  BY <1>1, ClientInLines
<1>2. CASE Manager
  BY <1>2, ManagerInLines, LinesStayIsStutter
<1>3. CASE DriverDone
  BY <1>3, DoneInLines
<1>4. CASE Shutdown \/ UNCHANGED vars
  <2>1. UNCHANGED <<pc, mpc, pick, next_request, perf, driver, requestQueue, diskQueue, sinal>>
    BY <1>4 DEF Shutdown, vars, taskVars, mgrVars, queueVars, diskVars
  <2>2. LinesStay
    BY <2>1 DEF LinesStay, At, OneList, Left, Chosen, LineDriver, Removed, ArmHead
  <2> QED
    BY <2>2, LinesStayIsStutter
<1> QED
  BY <1>1, <1>2, <1>3, <1>4, LinesStayIsStutter DEF Next

\* What a program can tell of disk_block_read, disk_block_write and bodyDiskManager is
\* the two lines of DiskQueues: no request enters or leaves the one, and no task the
\* other, but as it says, under every policy and whatever is preempted.  What a program
\* over DiskQueues keeps (DiskPrograms) it keeps over the manager.
THEOREM ManagerIsQueues == Spec => ImplementsQueues
<1>1. Init => Queues!DQInit
  <2> SUFFICES ASSUME Init PROVE Queues!DQInit
    OBVIOUS
  <2>1. ~Chosen /\ requestQueue = <<>> /\ OneList(Left) = <<>>
    BY DEF Init, Chosen, OneList, Left
  <2>2. At = [c \in Clients |-> "user"]
    BY DEF Init, At, Point
  <2>3. ~Removed /\ LineDriver = NoRequest /\ ArmHead = 0
    BY DEF Init, Removed, LineDriver, ArmHead
  <2> QED
    BY <2>1, <2>2, <2>3
    DEF Init, Queues!DQInit, At, Point, OneList, Left, LineDriver, Removed, ArmHead
<1>2. /\ Structure /\ Exclusive /\ Flags /\ Handed /\ Own /\ [Next]_vars
      => [Queues!DQNext]_(Queues!dqvars)
  BY LinesStep
<1> QED
  BY <1>1, <1>2, StructureInv, ExclusiveInv, FlagsInv, HandedInv, OwnInv, PTL
  DEF Spec, ImplementsQueues, Queues!DQSpec

\* Tasks that have queued their request and are not suspended yet.
OnWay == {c \in Clients : pc[c] \in {"link", "up", "suspend"}}

\* A request has left the queue and its wakeup is still to come.
Busy == mpc = "cmd" \/ driver # NoRequest \/ sinal
InHand == IF Busy THEN 1 ELSE 0

\* One task at most is on its way, and its request cannot overtake it.
Wakeups ==
    /\ \A p, q \in OnWay : p = q
    /\ OnWay # {} => requestQueue # <<>>
    /\ Len(diskQueue) + (IF OnWay = {} THEN 0 ELSE 1) = Len(requestQueue) + InHand

LEMMA Lengths ==
    ASSUME Structure
    PROVE  /\ Len(diskQueue) \in Nat /\ (diskQueue = <<>> <=> Len(diskQueue) = 0)
           /\ Len(requestQueue) \in Nat /\ (requestQueue = <<>> <=> Len(requestQueue) = 0)
           /\ DOMAIN diskQueue = 1 .. Len(diskQueue)
           /\ DOMAIN requestQueue = 1 .. Len(requestQueue)
           /\ InHand \in {0, 1}
  BY LenProperties, EmptySeq DEF Structure, TypeOK, InHand

LEMMA WakeupsKept ==
    ASSUME Wakeups, UNCHANGED <<requestQueue, diskQueue>>, Busy' <=> Busy,
           \A c \in Clients :
              pc'[c] \in {"link", "up", "suspend"} <=> pc[c] \in {"link", "up", "suspend"}
    PROVE  Wakeups'
<1>1. OnWay' = OnWay
  BY DEF OnWay
<1>2. InHand' = InHand
  BY DEF InHand
<1> QED
  BY <1>1, <1>2 DEF Wakeups

\* Whoever edits the list finds nobody else between its append and its suspension.
LEMMA NobodyElse ==
    ASSUME Structure, Exclusive, Wakeups, "suspend" \in NonPreemptible,
           NEW c \in Clients, MayRun(c)
    PROVE  /\ pc[c] = "append" => OnWay = {}
           /\ pc[c] \in {"link", "up", "suspend"} => OnWay = {c}
<1>1. ASSUME pc[c] = "append", NEW d \in OnWay PROVE FALSE
  <2>1. d # c /\ d \in Clients /\ c \in Holders
    BY <1>1 DEF OnWay, Holders
  <2>2. pc[d] # "suspend"
    BY <2>1 DEF MayRun
  <2>3. d \in Holders
    BY <1>1, <2>1, <2>2 DEF OnWay, Holders
  <2> QED
    BY <2>1, <2>3 DEF Exclusive
<1>2. ASSUME pc[c] \in {"link", "up", "suspend"} PROVE OnWay = {c}
  <2>1. c \in OnWay
    BY <1>2 DEF OnWay
  <2> QED
    BY <2>1 DEF Wakeups
<1> QED
  BY <1>1, <1>2

LEMMA NobodyAtRemove ==
    ASSUME Structure, Exclusive, "suspend" \in NonPreemptible, MayRun(Mgr), mpc = "remove"
    PROVE  OnWay = {}
<1> SUFFICES ASSUME NEW d \in OnWay PROVE FALSE
  OBVIOUS
<1>1. d \in Clients /\ d # Mgr /\ Mgr \in Holders
  BY DiskParameters DEF OnWay, Holders
<1>2. pc[d] # "suspend"
  BY <1>1 DEF MayRun
<1>3. d \in Holders
  BY <1>1, <1>2 DEF OnWay, Holders
<1> QED
  BY <1>1, <1>3 DEF Exclusive

\* Nothing the tasks do changes what the manager has in hand.
LEMMA ClientHand ==
    ASSUME Structure, NEW c \in Clients, Client(c)
    PROVE  Busy' <=> Busy
  BY ClientFrame DEF Busy

LEMMA ClientWakeups ==
    ASSUME Structure, Exclusive, Wakeups, "suspend" \in NonPreemptible,
           NEW c \in Clients, Client(c)
    PROVE  Wakeups'
<1> USE DEF taskVars, mgrVars, queueVars, semVars, diskVars, Goto
<1>0. pc \in [Clients -> ClientPoints] /\ TypeOK /\ Filled
  BY DEF Structure, TypeOK
<1>a. Busy' <=> Busy
  BY ClientHand
<1>1. ASSUME NEW op \in Operations, NEW b \in ValidBlocks, Call(c, op, b) PROVE Wakeups'
  BY <1>0, <1>1, <1>a, WakeupsKept DEF Call
<1>2. CASE ClientDown(c)
  BY <1>0, <1>2, <1>a, WakeupsKept DEF ClientDown, SemDown
<1>3. CASE QueueAppend(c)
  <2>1. /\ pc[c] = "append" /\ requestQueue' = Append(requestQueue, request[c])
        /\ \E point \in {"link", "up"} : pc' = [pc EXCEPT ![c] = point]
        /\ diskQueue' = diskQueue /\ MayRun(c)
    BY <1>3 DEF QueueAppend
  <2>2. OnWay = {} /\ OnWay' = {c}
    <3>1. OnWay = {}
      BY <2>1, NobodyElse
    <3> QED
      BY <1>0, <2>1, <3>1 DEF OnWay
  <2>3. Len(requestQueue') = Len(requestQueue) + 1 /\ requestQueue' # <<>>
    BY <1>0, <2>1, Lengths, AppendProperties, EmptySeq DEF TypeOK, Filled
  <2>4. InHand' = InHand
    BY <1>a DEF InHand
  <2> QED
    BY <2>1, <2>2, <2>3, <2>4, Lengths DEF Wakeups
<1>4. CASE QueueLink(c)
  BY <1>0, <1>4, <1>a, WakeupsKept DEF QueueLink
<1>5. CASE ClientUp(c)
  BY <1>5, <1>a, UpEffect, WakeupsKept
<1>6. CASE Suspend(c)
  <2>1. /\ pc[c] = "suspend" /\ pc' = [pc EXCEPT ![c] = "blocked"]
        /\ diskQueue' = Append(diskQueue, c) /\ requestQueue' = requestQueue /\ MayRun(c)
    BY <1>6 DEF Suspend
  <2>2. OnWay = {c} /\ OnWay' = {}
    <3>1. OnWay = {c}
      BY <2>1, NobodyElse
    <3> QED
      BY <1>0, <2>1, <3>1 DEF OnWay
  <2>3. Len(diskQueue') = Len(diskQueue) + 1
    BY <1>0, <2>1, AppendProperties DEF TypeOK
  <2>4. InHand' = InHand
    BY <1>a DEF InHand
  <2> QED
    BY <2>1, <2>2, <2>3, <2>4, Lengths DEF Wakeups
<1>7. CASE CountLoad(c)
  BY <1>0, <1>7, <1>a, WakeupsKept DEF CountLoad
<1>8. CASE CountStore(c)
  BY <1>0, <1>8, <1>a, WakeupsKept DEF CountStore
<1> QED
  BY <1>1, <1>2, <1>3, <1>4, <1>5, <1>6, <1>7, <1>8 DEF Client

LEMMA ManagerWakeups ==
    ASSUME Structure, Exclusive, Flags, Wakeups, "suspend" \in NonPreemptible, Manager
    PROVE  Wakeups'
<1> USE DEF taskVars, mgrVars, queueVars, semVars, diskVars, Goto
<1>0. TypeOK /\ Lines
  BY DEF Structure
<1>1. CASE MgrTop
  BY <1>1, WakeupsKept DEF MgrTop, Busy
<1>2. CASE ProcessCompletionEvents
  <2>1. CASE ~sinal
    BY <1>2, <2>1, WakeupsKept DEF ProcessCompletionEvents, Busy
  <2>2. CASE sinal
    <3>1. /\ mpc = "complete" /\ mpc' = "new" /\ sinal' = FALSE /\ ResumeFirst
          /\ UNCHANGED <<driver, requestQueue>>
      BY <1>2, <2>2 DEF ProcessCompletionEvents
    <3>2. driver = NoRequest /\ InHand = 1 /\ InHand' = 0
      BY <2>2, <3>1 DEF InHand, Busy, Flags
    <3>3. diskQueue # <<>>
      BY <3>2, Lengths DEF Wakeups
    <3>4. /\ diskQueue' = Tail(diskQueue) /\ pc' = [pc EXCEPT ![Head(diskQueue)] = "load"]
          /\ Head(diskQueue) \in Parked /\ Len(Tail(diskQueue)) = Len(diskQueue) - 1
      BY <1>0, <3>1, <3>3, LeaveLine DEF ResumeFirst, Lines
    <3>5. OnWay' = OnWay
      BY <1>0, <3>4 DEF OnWay, Parked, TypeOK
    <3>6. Len(diskQueue') = Len(diskQueue) - 1 /\ requestQueue' = requestQueue
      BY <3>1, <3>4
    <3> QED
      BY <3>2, <3>5, <3>6, Lengths DEF Wakeups
  <2> QED
    BY <1>0, <2>1, <2>2 DEF TypeOK
<1>3. CASE ProcessNewRequests
  <2>1. /\ mpc = "new" /\ mpc' # "cmd"
        /\ UNCHANGED <<pc, requestQueue, diskQueue, driver, sinal>>
    BY <1>3 DEF ProcessNewRequests
  <2> QED
    BY <2>1, WakeupsKept DEF Busy
<1>4. CASE MgrDown
  BY <1>4, WakeupsKept DEF MgrDown, SemDown, Busy
<1>5. CASE MgrRemove
  <2>1. OnWay = {}
    BY <1>5, NobodyAtRemove DEF MgrRemove
  <2>2. /\ mpc = "remove" /\ mpc' = "cmd"
        /\ UNCHANGED <<diskQueue, driver, sinal>>
        /\ Len(requestQueue') = Len(requestQueue) - 1
    BY <1>5, RemoveEffect, RemoveFacts DEF queue_remove
  <2>3. OnWay' = {}
    BY <1>5, <2>1, RemoveEffect DEF OnWay
  <2>4. InHand = 0 /\ InHand' = 1
    BY <2>2 DEF InHand, Busy, Flags, LivreTracksDriver, Taken
  <2> QED
    BY <2>1, <2>2, <2>3, <2>4, Lengths DEF Wakeups
<1>6. CASE ExecuteRequest
  <2>1. next_request \in Request /\ driver = NoRequest
    BY <1>6 DEF ExecuteRequest, Flags, LivreTracksDriver, Taken
  <2>2. driver' # NoRequest /\ mpc = "cmd"
    BY <1>6, <2>1, RequestFields DEF ExecuteRequest
  <2> QED
    BY <1>6, <2>2, WakeupsKept DEF ExecuteRequest, Busy
<1>7. CASE MarkBusy
  BY <1>7, WakeupsKept DEF MarkBusy, Busy
<1> QED
  BY <1>1, <1>2, <1>3, <1>4, <1>5, <1>6, <1>7 DEF Manager

LEMMA WakeupsInv ==
    ASSUME "suspend" \in NonPreemptible PROVE Spec => []Wakeups
<1> USE DEF taskVars, mgrVars, queueVars, semVars, diskVars
<1>1. Init => Wakeups
  <2> SUFFICES ASSUME Init PROVE Wakeups
    OBVIOUS
  <2>1. OnWay = {} /\ InHand = 0 /\ diskQueue = <<>> /\ requestQueue = <<>>
    BY DEF Init, OnWay, InHand, Busy
  <2> QED
    BY <2>1, EmptySeq DEF Wakeups
<1>2. ASSUME Structure, Exclusive, Flags, Wakeups, [Next]_vars PROVE Wakeups'
  <2>1. ASSUME NEW c \in Clients, Client(c) PROVE Wakeups'
    BY <1>2, <2>1, ClientWakeups
  <2>2. CASE Manager
    BY <1>2, <2>2, ManagerWakeups
  <2>3. CASE DriverDone
    BY <1>2, <2>3, WakeupsKept DEF DriverDone, diskSignalHandler, Busy
  <2>4. CASE Shutdown
    BY <1>2, <2>4, WakeupsKept DEF Shutdown, Busy
  <2>5. CASE UNCHANGED vars
    BY <1>2, <2>5, WakeupsKept DEF vars, Busy
  <2> QED
    BY <1>2, <2>1, <2>2, <2>3, <2>4, <2>5 DEF Next
<1> QED
  BY <1>1, <1>2, ExclusiveInv, FlagsInv, StructureInv, PTL DEF Spec

\* When no quantum ends between sem_up and task_suspend, as many tasks sleep, or are
\* about to, as there are completions to come: processCompletionEvents always finds
\* somebody to resume, under every policy (disk_block_read, processNewRequests).
THEOREM WakeupsMatch ==
    ASSUME "suspend" \in NonPreemptible PROVE Spec => []WakeupsBalance
<1>1. Wakeups => WakeupsBalance
  <2> SUFFICES ASSUME Wakeups PROVE WakeupsBalance
    OBVIOUS
  <2>1. Cardinality(OnWay) = IF OnWay = {} THEN 0 ELSE 1
    <3>1. CASE OnWay = {}
      BY <3>1, FS_EmptySet
    <3>2. CASE OnWay # {}
      <4>1. PICK p : p \in OnWay
        BY <3>2
      <4>2. OnWay = {p}
        BY <4>1 DEF Wakeups
      <4> QED
        BY <3>2, <4>2, FS_Singleton
    <3> QED
      BY <3>1, <3>2
  <2> QED
    BY <2>1 DEF Wakeups, WakeupsBalance, OnWay, InHand, Busy
<1> QED
  BY <1>1, WakeupsInv, PTL

-----------------------------------------------------------------------------
(* First come, first served: whose request is served is who is resumed.    *)

\* The queued requests belong, in this order, to the sleeping tasks behind the one
\* whose request is in hand, the last perhaps to the task on its way.
InOrder ==
    \A i \in DOMAIN requestQueue :
       IF i + InHand <= Len(diskQueue)
       THEN requestQueue[i].task = diskQueue[i + InHand]
       ELSE requestQueue[i].task \in OnWay
Ordered ==
    /\ InOrder
    /\ mpc = "cmd" => diskQueue # <<>> /\ next_request.task = diskQueue[1]
    /\ driver # NoRequest => diskQueue # <<>> /\ driver.task = diskQueue[1]
    /\ Chosen => pick = 1

LEMMA OrderedKept ==
    ASSUME Ordered, UNCHANGED <<requestQueue, diskQueue, next_request, pick>>,
           driver' \in {driver, NoRequest}, Busy' <=> Busy,
           mpc' = mpc \/ (mpc # "cmd" /\ mpc' # "cmd" /\ (Chosen' => Chosen)),
           \A c \in Clients :
              pc'[c] \in {"link", "up", "suspend"} <=> pc[c] \in {"link", "up", "suspend"}
    PROVE  Ordered'
<1>1. OnWay' = OnWay
  BY DEF OnWay
<1>2. InHand' = InHand
  BY DEF InHand
<1>3. InOrder'
  BY <1>1, <1>2 DEF Ordered, InOrder
<1> QED
  BY <1>3 DEF Ordered, Chosen

LEMMA ClientOrdered ==
    ASSUME Structure, Exclusive, Wakeups, Own, Ordered, "suspend" \in NonPreemptible,
           NEW c \in Clients, Client(c)
    PROVE  Ordered'
<1> USE DEF taskVars, mgrVars, queueVars, semVars, diskVars, Goto
<1>0. pc \in [Clients -> ClientPoints] /\ TypeOK /\ Filled
  BY DEF Structure, TypeOK
<1>a. /\ Busy' <=> Busy
      /\ UNCHANGED <<next_request, pick, driver>>
      /\ mpc' = mpc \/ (mpc # "cmd" /\ mpc' # "cmd" /\ (Chosen' => Chosen))
  BY ClientHand, ClientFrame DEF Chosen
<1>b. InHand' = InHand
  BY <1>a DEF InHand
<1>1. ASSUME NEW op \in Operations, NEW b \in ValidBlocks, Call(c, op, b) PROVE Ordered'
  BY <1>0, <1>1, <1>a, OrderedKept DEF Call
<1>2. CASE ClientDown(c)
  BY <1>0, <1>2, <1>a, OrderedKept DEF ClientDown, SemDown
<1>3. CASE QueueAppend(c)
  <2>1. /\ pc[c] = "append" /\ requestQueue' = Append(requestQueue, request[c])
        /\ \E point \in {"link", "up"} : pc' = [pc EXCEPT ![c] = point]
        /\ UNCHANGED <<diskQueue, mpc>> /\ MayRun(c)
    BY <1>3 DEF QueueAppend
  <2>2. OnWay = {} /\ c \in OnWay'
    <3>1. OnWay = {}
      BY <2>1, NobodyElse
    <3> QED
      BY <1>0, <2>1, <3>1 DEF OnWay
  <2>3. /\ \A i \in 1 .. Len(requestQueue) : requestQueue'[i] = requestQueue[i]
        /\ requestQueue'[Len(requestQueue) + 1] = request[c]
        /\ DOMAIN requestQueue' = 1 .. Len(requestQueue) + 1
        /\ request[c].task = c
    <3>1. request[c] \in Request /\ requestQueue \in Seq(Request) /\ request[c].task = c
      BY <1>0, <2>1 DEF TypeOK, Filled, Own
    <3> QED
      BY <2>1, <3>1, AppendProperties, LenProperties
  <2>4. Len(diskQueue) = Len(requestQueue) + InHand
    BY <2>2, Lengths DEF Wakeups
  <2>5. InOrder'
    <3> SUFFICES ASSUME NEW i \in DOMAIN requestQueue'
                 PROVE  IF i + InHand <= Len(diskQueue)
                        THEN requestQueue'[i].task = diskQueue[i + InHand]
                        ELSE requestQueue'[i].task \in OnWay'
      BY <1>b, <2>1 DEF InOrder
    <3>1. CASE i \in 1 .. Len(requestQueue)
      <4>1. i + InHand <= Len(diskQueue)
        BY <2>4, <3>1, Lengths
      <4> QED
        BY <2>3, <3>1, <4>1, Lengths DEF Ordered, InOrder
    <3>2. CASE i = Len(requestQueue) + 1
      <4>1. ~(i + InHand <= Len(diskQueue))
        BY <2>4, <3>2, Lengths
      <4> QED
        BY <2>2, <2>3, <3>2, <4>1
    <3> QED
      BY <2>3, <3>1, <3>2, Lengths
  <2> QED
    BY <1>a, <2>1, <2>5 DEF Ordered, Chosen
<1>4. CASE QueueLink(c)
  BY <1>0, <1>4, <1>a, OrderedKept DEF QueueLink
<1>5. CASE ClientUp(c)
  BY <1>5, <1>a, UpEffect, OrderedKept
<1>6. CASE Suspend(c)
  <2>1. /\ pc[c] = "suspend" /\ diskQueue' = Append(diskQueue, c)
        /\ UNCHANGED <<requestQueue, mpc>> /\ MayRun(c)
    BY <1>6 DEF Suspend
  <2>2. OnWay = {c}
    BY <2>1, NobodyElse
  <2>3. /\ \A i \in 1 .. Len(diskQueue) : diskQueue'[i] = diskQueue[i]
        /\ diskQueue'[Len(diskQueue) + 1] = c
        /\ Len(diskQueue') = Len(diskQueue) + 1 /\ diskQueue' # <<>>
    BY <1>0, <2>1, AppendProperties, EmptySeq, Lengths DEF TypeOK
  <2>4. Len(diskQueue) + 1 = Len(requestQueue) + InHand
    BY <2>2, Lengths DEF Wakeups
  <2>5. InOrder'
    <3> SUFFICES ASSUME NEW i \in 1 .. Len(requestQueue)
                 PROVE  /\ i + InHand <= Len(diskQueue')
                        /\ requestQueue[i].task = diskQueue'[i + InHand]
      BY <1>b, <2>1, Lengths DEF InOrder
    <3>1. i + InHand <= Len(diskQueue')
      BY <2>3, <2>4, Lengths
    <3>2. CASE i + InHand <= Len(diskQueue)
      <4>1. i + InHand \in 1 .. Len(diskQueue)
        BY <3>2, Lengths
      <4>2. requestQueue[i].task = diskQueue[i + InHand]
        BY <3>2, Lengths DEF Ordered, InOrder
      <4> QED
        BY <2>3, <3>1, <4>1, <4>2
    <3>3. CASE ~(i + InHand <= Len(diskQueue))
      <4>1. requestQueue[i].task = c
        BY <2>2, <3>3, Lengths DEF Ordered, InOrder
      <4>2. i + InHand = Len(diskQueue) + 1
        BY <2>4, <3>3, Lengths
      <4> QED
        BY <2>3, <3>1, <4>1, <4>2
    <3> QED
      BY <3>2, <3>3
  <2>6. diskQueue # <<>> => diskQueue'[1] = diskQueue[1]
    BY <2>3, Lengths
  <2> QED
    BY <1>a, <2>1, <2>3, <2>5, <2>6 DEF Ordered, Chosen
<1>7. CASE CountLoad(c)
  BY <1>0, <1>7, <1>a, OrderedKept DEF CountLoad
<1>8. CASE CountStore(c)
  BY <1>0, <1>8, <1>a, OrderedKept DEF CountStore
<1> QED
  BY <1>1, <1>2, <1>3, <1>4, <1>5, <1>6, <1>7, <1>8 DEF Client

LEMMA ManagerOrdered ==
    ASSUME Structure, Exclusive, Flags, Wakeups, Ordered,
           Policy = "FCFS", "suspend" \in NonPreemptible, Manager
    PROVE  Ordered'
<1> USE DEF taskVars, mgrVars, queueVars, semVars, diskVars, Goto
<1>0. TypeOK /\ Lines
  BY DEF Structure
<1>1. CASE MgrTop
  BY <1>1, OrderedKept DEF MgrTop, Busy, Chosen
<1>2. CASE ProcessCompletionEvents
  <2>1. CASE ~sinal
    BY <1>2, <2>1, OrderedKept DEF ProcessCompletionEvents, Busy, Chosen
  <2>2. CASE sinal
    <3>1. /\ mpc = "complete" /\ mpc' = "new" /\ sinal' = FALSE /\ ResumeFirst
          /\ UNCHANGED <<driver, requestQueue>>
      BY <1>2, <2>2 DEF ProcessCompletionEvents
    <3>2. driver = NoRequest /\ InHand = 1 /\ InHand' = 0
      BY <2>2, <3>1 DEF InHand, Busy, Flags
    <3>3. diskQueue # <<>>
      BY <3>2, Lengths DEF Wakeups
    <3>4. /\ diskQueue' = Tail(diskQueue) /\ pc' = [pc EXCEPT ![Head(diskQueue)] = "load"]
          /\ Head(diskQueue) \in Parked /\ Len(diskQueue') = Len(diskQueue) - 1
          /\ \A i \in 1 .. Len(diskQueue) - 1 : diskQueue'[i] = diskQueue[i + 1]
      <4>1. /\ diskQueue' = Tail(diskQueue)
            /\ pc' = [pc EXCEPT ![Head(diskQueue)] = "load"]
        BY <3>1, <3>3 DEF ResumeFirst
      <4>2. Head(diskQueue) \in Parked /\ Len(Tail(diskQueue)) = Len(diskQueue) - 1
        BY <1>0, <3>3, LeaveLine DEF Lines
      <4>3. \A i \in 1 .. Len(Tail(diskQueue)) : Tail(diskQueue)[i] = diskQueue[i + 1]
        BY <1>0, <3>3, HeadTailProperties DEF TypeOK
      <4> QED
        BY <4>1, <4>2, <4>3
    <3>5. OnWay' = OnWay
      BY <1>0, <3>4 DEF OnWay, Parked, TypeOK
    <3>6. InOrder'
      <4> SUFFICES ASSUME NEW i \in 1 .. Len(requestQueue)
                   PROVE  IF i + 0 <= Len(diskQueue')
                          THEN requestQueue[i].task = diskQueue'[i + 0]
                          ELSE requestQueue[i].task \in OnWay
        BY <3>1, <3>2, <3>5, Lengths DEF InOrder
      <4>1. IF i + 1 <= Len(diskQueue) THEN requestQueue[i].task = diskQueue[i + 1]
            ELSE requestQueue[i].task \in OnWay
        BY <3>2, Lengths DEF Ordered, InOrder
      <4>2. CASE i + 1 <= Len(diskQueue)
        <5>1. i \in 1 .. Len(diskQueue) - 1 /\ i + 0 = i /\ i <= Len(diskQueue')
          BY <3>4, <4>2, Lengths
        <5> QED
          BY <3>4, <4>1, <4>2, <5>1
      <4>3. CASE ~(i + 1 <= Len(diskQueue))
        BY <3>4, <4>1, <4>3, Lengths
      <4> QED
        BY <4>2, <4>3
    <3> QED
      BY <3>1, <3>2, <3>6 DEF Ordered, Chosen
  <2> QED
    BY <1>0, <2>1, <2>2 DEF TypeOK
<1>3. CASE ProcessNewRequests
  <2>1. /\ mpc = "new" /\ mpc' # "cmd"
        /\ UNCHANGED <<pc, requestQueue, diskQueue, driver, sinal>>
        /\ mpc' = "down" => pick' = 1
        /\ mpc' \in {"down", "top", "new"}
    BY <1>3 DEF ProcessNewRequests, disk_scheduler, fcfs
  <2>2. InHand' = InHand /\ OnWay' = OnWay
    BY <2>1 DEF InHand, Busy, OnWay
  <2> QED
    BY <2>1, <2>2 DEF Ordered, InOrder, Chosen
<1>4. CASE MgrDown
  BY <1>4, OrderedKept DEF MgrDown, SemDown, Busy, Chosen
<1>5. CASE MgrRemove
  <2>1. OnWay = {} /\ pick = 1
    BY <1>5, NobodyAtRemove DEF MgrRemove, Ordered, Chosen
  <2>2. /\ mpc = "remove" /\ mpc' = "cmd"
        /\ UNCHANGED <<diskQueue, driver, sinal, next_request>>
        /\ next_request = requestQueue[1] /\ 1 \in 1 .. Len(requestQueue)
        /\ requestQueue' = queue_remove(requestQueue, 1)
        /\ requestQueue \in Seq(Request)
    BY <1>5, <2>1, RemoveEffect
  <2>3. /\ Len(requestQueue') = Len(requestQueue) - 1
        /\ DOMAIN requestQueue' = 1 .. Len(requestQueue) - 1
        /\ \A i \in 1 .. Len(requestQueue) - 1 : requestQueue'[i] = requestQueue[i + 1]
    <3>1. /\ requestQueue' \in Seq(Request)
          /\ Len(requestQueue') = Len(requestQueue) - 1
          /\ \A i \in 1 .. Len(requestQueue) - 1 :
                requestQueue'[i] = IF i < 1 THEN requestQueue[i] ELSE requestQueue[i + 1]
      BY <2>2, RemoveFacts DEF queue_remove
    <3>2. DOMAIN requestQueue' = 1 .. Len(requestQueue')
      BY <3>1, LenProperties
    <3> QED
      BY <3>1, <3>2, Lengths
  <2>4. InHand = 0 /\ InHand' = 1 /\ driver = NoRequest
    BY <2>2 DEF InHand, Busy, Flags, LivreTracksDriver, Taken
  <2>5. Len(diskQueue) = Len(requestQueue)
    BY <2>1, <2>4, Lengths DEF Wakeups
  <2>6. \A i \in 1 .. Len(requestQueue) : requestQueue[i].task = diskQueue[i]
    <3> TAKE i \in 1 .. Len(requestQueue)
    <3>1. i + InHand = i /\ i <= Len(diskQueue)
      BY <2>4, <2>5, Lengths
    <3> QED
      BY <3>1, Lengths DEF Ordered, InOrder
  <2>7. InOrder'
    <3> SUFFICES ASSUME NEW i \in 1 .. Len(requestQueue) - 1
                 PROVE  i + 1 <= Len(diskQueue) /\ requestQueue'[i].task = diskQueue[i + 1]
      BY <2>2, <2>3, <2>4 DEF InOrder
    <3>1. i + 1 \in 1 .. Len(requestQueue) /\ i + 1 <= Len(diskQueue)
      BY <2>5, Lengths
    <3> QED
      BY <2>3, <2>6, <3>1
  <2>8. diskQueue # <<>> /\ next_request.task = diskQueue[1]
    BY <2>2, <2>5, <2>6, Lengths
  <2> QED
    BY <2>2, <2>4, <2>7, <2>8 DEF Ordered, Chosen
<1>6. CASE ExecuteRequest
  <2>1. next_request \in Request /\ driver = NoRequest
    BY <1>6 DEF ExecuteRequest, Flags, LivreTracksDriver, Taken
  <2>2. /\ driver' = next_request /\ driver' # NoRequest /\ mpc = "cmd" /\ mpc' = "busy"
        /\ UNCHANGED <<pc, requestQueue, diskQueue, pick>>
    BY <1>6, <2>1, RequestFields DEF ExecuteRequest
  <2>3. InHand' = InHand /\ OnWay' = OnWay
    BY <2>2 DEF InHand, Busy, OnWay
  <2> QED
    BY <2>2, <2>3 DEF Ordered, InOrder, Chosen
<1>7. CASE MarkBusy
  BY <1>7, OrderedKept DEF MarkBusy, Busy, Chosen
<1> QED
  BY <1>1, <1>2, <1>3, <1>4, <1>5, <1>6, <1>7 DEF Manager

LEMMA OrderedInv ==
    ASSUME Policy = "FCFS", "suspend" \in NonPreemptible PROVE Spec => []Ordered
<1> USE DEF taskVars, mgrVars, queueVars, semVars, diskVars
<1>1. Init => Ordered
  BY DEF Init, Ordered, InOrder, Chosen
<1>2. ASSUME Structure, Exclusive, Flags, Wakeups, Own, Ordered, [Next]_vars PROVE Ordered'
  <2>1. ASSUME NEW c \in Clients, Client(c) PROVE Ordered'
    BY <1>2, <2>1, ClientOrdered
  <2>2. CASE Manager
    BY <1>2, <2>2, ManagerOrdered
  <2>3. CASE DriverDone
    BY <1>2, <2>3, OrderedKept DEF DriverDone, diskSignalHandler, Busy
  <2>4. CASE Shutdown
    BY <1>2, <2>4, OrderedKept DEF Shutdown, Busy
  <2>5. CASE UNCHANGED vars
    BY <1>2, <2>5, OrderedKept DEF vars, Busy
  <2> QED
    BY <1>2, <2>1, <2>2, <2>3, <2>4, <2>5 DEF Next
<1> QED
  BY <1>1, <1>2, ExclusiveInv, FlagsInv, WakeupsInv, OwnInv, StructureInv, PTL DEF Spec

\* Only sleeping tasks and the one on its way have something pending.
LEMMA WhoIsPending ==
    ASSUME Structure, Flags, Handed, Ordered, NEW c \in Clients, Unfinished(c)
    PROVE  pc[c] \in {"link", "up", "suspend", "blocked"}
<1>1. \A j \in 1 .. Len(diskQueue) : diskQueue[j] \in Parked
  BY ElementOfSeq DEF Structure, Lines
<1>2. \A i \in DOMAIN requestQueue : requestQueue[i].task \in Parked \cup OnWay
  <2> TAKE i \in DOMAIN requestQueue
  <2>1. CASE i + InHand <= Len(diskQueue)
    <3>1. i + InHand \in 1 .. Len(diskQueue)
      BY <2>1, Lengths
    <3> QED
      BY <1>1, <2>1, <3>1 DEF Ordered, InOrder
  <2>2. CASE ~(i + InHand <= Len(diskQueue))
    BY <2>2 DEF Ordered, InOrder
  <2> QED
    BY <2>1, <2>2
<1>3. NoRequest.task \notin Clients
  BY DiskParameters DEF NoRequest
<1>4. diskQueue # <<>> => diskQueue[1] \in Parked
  BY <1>1, Lengths
<1>5. next_request.task = c => c \in Parked \cup OnWay
  <2>1. CASE mpc \notin Taken
    BY <1>3, <2>1 DEF Handed
  <2>2. CASE Chosen
    BY <1>2, <2>2 DEF Structure, PickStays, Chosen
  <2>3. CASE mpc = "cmd"
    BY <1>4, <2>3 DEF Ordered
  <2> QED
    BY <2>1, <2>2, <2>3 DEF Taken, Chosen
<1>6. driver.task = c => c \in Parked
  BY <1>3, <1>4 DEF Ordered
<1>7. c \in Parked \cup OnWay
  BY <1>2, <1>5, <1>6 DEF Unfinished
<1> QED
  BY <1>7 DEF Parked, OnWay

\* Under FCFS, when no quantum ends between sem_up and task_suspend, a task is
\* resumed after its own operation and not after somebody else's: the promise of
\* disk_block_read and disk_block_write (processCompletionEvents resumes the head of
\* diskQueue whatever request the disk has finished).
THEOREM ResumedWhenDone ==
    ASSUME Policy = "FCFS", "suspend" \in NonPreemptible PROVE Spec => []OwnRequestDone
<1>1. Structure /\ Flags /\ Handed /\ Ordered => OwnRequestDone
  BY WhoIsPending DEF OwnRequestDone
<1> QED
  BY <1>1, FlagsInv, HandedInv, OrderedInv, StructureInv, PTL

-----------------------------------------------------------------------------
(* The report of the manager.                                              *)

\* Tasks that have been resumed and have not counted their operation yet.
Counting == {c \in Clients : pc[c] \in {"load", "store"}}

\* What a counter holds and what the tasks that have read it hold of it.
Seen(op) == {stats[op]} \cup {tmp[c] : c \in {d \in Clients :
                                               pc[d] = "store" /\ request[d].op = op}}

\* Requests processed that no task has yet counted: to be counted, or with the disk.
Uncounted == Cardinality(Counting) + IF driver # NoRequest \/ sinal THEN 1 ELSE 0
Processed == perf.processed + IF mpc = "busy" THEN 1 ELSE 0

\* Whichever value of a counter is the next to be incremented, stale or not.
Counted == \A x \in Seen("read"), y \in Seen("write") : x + y + Uncounted <= Processed

LEMMA CountingFinite == IsFiniteSet(Counting) /\ Cardinality(Counting) \in Nat
<1>1. Counting \subseteq Clients
  BY DEF Counting
<1> QED
  BY <1>1, DiskParameters, FS_Subset, FS_CardinalityType

LEMMA CountNumbers ==
    ASSUME TypeOK
    PROVE  /\ Uncounted \in Nat /\ Processed \in Nat
           /\ Seen("read") \subseteq Nat /\ Seen("write") \subseteq Nat
  BY CountingFinite DEF TypeOK, Uncounted, Processed, Seen, Operations

LEMMA CountedKept ==
    ASSUME Counted, UNCHANGED <<stats, perf>>,
           (driver' # NoRequest \/ sinal') <=> (driver # NoRequest \/ sinal),
           mpc' = "busy" <=> mpc = "busy",
           \A c \in Clients :
              /\ pc'[c] \in {"load", "store"} <=> pc[c] \in {"load", "store"}
              /\ pc'[c] = "store" =>
                    pc[c] = "store" /\ tmp'[c] = tmp[c] /\ request'[c] = request[c]
    PROVE  Counted'
<1>1. Counting' = Counting
  BY DEF Counting
<1>2. Uncounted' = Uncounted /\ Processed' = Processed
  BY <1>1 DEF Uncounted, Processed
<1>3. Seen("read")' \subseteq Seen("read") /\ Seen("write")' \subseteq Seen("write")
  BY DEF Seen
<1> QED
  BY <1>2, <1>3 DEF Counted

LEMMA ClientCounted ==
    ASSUME Structure, Counted, NEW c \in Clients, Client(c)
    PROVE  Counted'
<1> USE DEF taskVars, mgrVars, queueVars, semVars, diskVars, Goto
<1>0. /\ pc \in [Clients -> ClientPoints] /\ tmp \in [Clients -> Nat]
      /\ request \in [Clients -> Request \cup {NoRequest}]
      /\ stats \in [Operations -> Nat] /\ perf.processed \in Nat
      /\ mpc' = "busy" <=> mpc = "busy"
      /\ UNCHANGED <<perf, driver, sinal>>
  BY ClientFrame DEF Structure, TypeOK
<1>00. /\ Uncounted \in Nat /\ Processed \in Nat /\ Processed' = Processed
       /\ Seen("read") \subseteq Nat /\ Seen("write") \subseteq Nat
  BY <1>0, CountNumbers DEF Structure, Processed
<1>1. ASSUME NEW op \in Operations, NEW b \in ValidBlocks, Call(c, op, b)
      PROVE  Counted'
  BY <1>0, <1>1, CountedKept DEF Call
<1>2. CASE ClientDown(c)
  BY <1>0, <1>2, CountedKept DEF ClientDown, SemDown
<1>3. CASE QueueAppend(c)
  BY <1>0, <1>3, CountedKept DEF QueueAppend
<1>4. CASE QueueLink(c)
  BY <1>0, <1>4, CountedKept DEF QueueLink
<1>5. CASE ClientUp(c)
  BY <1>0, <1>5, UpEffect, CountedKept
<1>6. CASE Suspend(c)
  BY <1>0, <1>6, CountedKept DEF Suspend
<1>7. CASE CountLoad(c)
  <2>1. /\ pc[c] = "load" /\ pc' = [pc EXCEPT ![c] = "store"]
        /\ tmp' = [tmp EXCEPT ![c] = stats[request[c].op]]
        /\ UNCHANGED <<stats, request, mpc>>
    BY <1>7 DEF CountLoad
  <2>2. Counting' = Counting
    BY <1>0, <2>1 DEF Counting
  <2>3. Uncounted' = Uncounted
    BY <1>0, <2>2 DEF Uncounted
  <2>4. Seen("read")' \subseteq Seen("read") /\ Seen("write")' \subseteq Seen("write")
    BY <1>0, <2>1 DEF Seen
  <2> QED
    BY <1>00, <2>3, <2>4 DEF Counted
<1>8. CASE CountStore(c)
  <2> DEFINE op == request[c].op
             n == tmp[c]
  <2>1. /\ pc[c] = "store" /\ pc' = [pc EXCEPT ![c] = "user"]
        /\ stats' = [stats EXCEPT ![op] = n + 1]
        /\ tmp' = [tmp EXCEPT ![c] = 0]
        /\ UNCHANGED <<request, mpc>>
    BY <1>8 DEF CountStore
  <2>2. op \in {"read", "write"} /\ n \in Seen(op) /\ n \in Nat
    <3>1. op \in {"read", "write"}
      BY <2>1, RequestFields DEF Structure, Filled
    <3> QED
      BY <1>0, <2>1, <3>1 DEF Seen
  <2>3. Uncounted' = Uncounted - 1
    <3>1. Counting' = Counting \ {c} /\ c \in Counting
      BY <1>0, <2>1 DEF Counting
    <3>2. Cardinality(Counting') = Cardinality(Counting) - 1
      BY <3>1, CountingFinite, FS_RemoveElement
    <3> QED
      BY <1>0, <3>2, CountingFinite DEF Uncounted
  <2>4. ASSUME NEW kind \in {"read", "write"}
        PROVE  Seen(kind)' \subseteq Seen(kind) \cup (IF kind = op THEN {n + 1} ELSE {})
    <3>1. stats'[kind] = IF kind = op THEN n + 1 ELSE stats[kind]
      BY <1>0, <2>1, <2>2, <2>4 DEF Operations
    <3>2. \A d \in Clients : pc'[d] = "store" => pc[d] = "store" /\ tmp'[d] = tmp[d]
      BY <1>0, <2>1
    <3> QED
      BY <2>1, <3>1, <3>2 DEF Seen
  <2> HIDE DEF op, n
  <2>5. ASSUME NEW x \in Seen("read")', NEW y \in Seen("write")'
        PROVE  x + y + Uncounted' <= Processed'
    <3>1. CASE op = "read"
      <4>1. y \in Seen("write") /\ (x \in Seen("read") \/ x = n + 1)
        BY <2>4, <2>5, <3>1
      <4>2. x + y + Uncounted <= Processed \/ (x = n + 1 /\ n + y + Uncounted <= Processed)
        BY <2>2, <3>1, <4>1 DEF Counted
      <4>3. x \in Nat /\ y \in Nat
        BY <1>00, <2>2, <4>1
      <4> QED
        BY <1>00, <2>2, <2>3, <4>2, <4>3
    <3>2. CASE op = "write"
      <4>1. x \in Seen("read") /\ (y \in Seen("write") \/ y = n + 1)
        BY <2>4, <2>5, <3>2
      <4>2. x + y + Uncounted <= Processed \/ (y = n + 1 /\ x + n + Uncounted <= Processed)
        BY <2>2, <3>2, <4>1 DEF Counted
      <4>3. x \in Nat /\ y \in Nat
        BY <1>00, <2>2, <4>1
      <4> QED
        BY <1>00, <2>2, <2>3, <4>2, <4>3
    <3> QED
      BY <2>2, <3>1, <3>2
  <2> QED
    BY <2>5 DEF Counted
<1> QED
  BY <1>1, <1>2, <1>3, <1>4, <1>5, <1>6, <1>7, <1>8 DEF Client

LEMMA StillBelow ==
    \A x, y, u, v, p, q \in Int : x + y + u <= p /\ v - q <= u - p => x + y + v <= q
  OBVIOUS

LEMMA NoMoreLeft ==
    \A u, v, p, q \in Nat : v <= u /\ p <= q => v - q <= u - p /\ v \in Int /\ q \in Int
  OBVIOUS

\* A step that changes no counter, and leaves at most as much to be counted.
LEMMA CountedLater ==
    ASSUME TypeOK, Counted, UNCHANGED <<stats, tmp, request>>,
           \A c \in Clients : pc'[c] = "store" => pc[c] = "store",
           Uncounted' \in Int, Processed' \in Int,
           Uncounted' - Processed' <= Uncounted - Processed
    PROVE  Counted'
<1>1. Seen("read")' \subseteq Seen("read") /\ Seen("write")' \subseteq Seen("write")
  BY DEF Seen
<1>2. /\ Uncounted \in Nat /\ Processed \in Nat
      /\ Seen("read") \subseteq Nat /\ Seen("write") \subseteq Nat
  BY CountNumbers
<1>3. ASSUME NEW x \in Seen("read")', NEW y \in Seen("write")'
      PROVE  x + y + Uncounted' <= Processed'
  <2>1. x + y + Uncounted <= Processed /\ x \in Int /\ y \in Int
    BY <1>1, <1>2, <1>3 DEF Counted
  <2>2. Uncounted \in Int /\ Processed \in Int
    BY <1>2
  <2> QED
    BY <2>1, <2>2, StillBelow
<1> QED
  BY <1>3 DEF Counted

LEMMA ManagerCounted ==
    ASSUME Structure, Flags, Counted, Manager
    PROVE  Counted'
<1> USE DEF taskVars, mgrVars, queueVars, semVars, diskVars, Goto
<1>0. TypeOK /\ Lines /\ perf.processed \in Nat
  BY DEF Structure, TypeOK
<1>1. CASE MgrTop
  BY <1>1, CountedKept DEF MgrTop
<1>2. CASE ProcessCompletionEvents
  <2>1. CASE ~sinal
    BY <1>2, <2>1, CountedKept DEF ProcessCompletionEvents
  <2>2. CASE sinal
    <3>1. /\ mpc = "complete" /\ mpc' = "new" /\ sinal' = FALSE /\ ResumeFirst
          /\ UNCHANGED <<driver, request, tmp, stats, perf>>
      BY <1>2, <2>2 DEF ProcessCompletionEvents
    <3>2. driver = NoRequest
      BY <2>2 DEF Flags
    <3>3. /\ Cardinality(Counting') \in Nat
          /\ Cardinality(Counting') <= Cardinality(Counting) + 1
          /\ \A d \in Clients : pc'[d] = "store" => pc[d] = "store"
      <4>1. CASE diskQueue = <<>>
        BY <3>1, <4>1, CountingFinite DEF ResumeFirst, Counting
      <4>2. CASE diskQueue # <<>>
        <5>1. pc' = [pc EXCEPT ![Head(diskQueue)] = "load"] /\ Head(diskQueue) \in Parked
          BY <1>0, <3>1, <4>2, LeaveLine DEF ResumeFirst, Lines
        <5>2. /\ Counting' = Counting \cup {Head(diskQueue)}
              /\ Head(diskQueue) \notin Counting
          BY <1>0, <5>1 DEF Counting, Parked, TypeOK
        <5>3. Cardinality(Counting') = Cardinality(Counting) + 1
          BY <5>2, CountingFinite, FS_AddElement
        <5> QED
          BY <1>0, <5>1, <5>3, CountingFinite DEF TypeOK
      <4> QED
        BY <4>1, <4>2
    <3>4. Processed' = Processed /\ Processed \in Nat
      BY <1>0, <3>1 DEF Processed
    <3>5. Uncounted' \in Nat /\ Uncounted \in Nat /\ Uncounted' <= Uncounted
      BY <2>2, <3>1, <3>2, <3>3, CountingFinite DEF Uncounted
    <3>6. /\ Uncounted' \in Int /\ Processed' \in Int
          /\ Uncounted' - Processed' <= Uncounted - Processed
      <4>1. Processed' \in Nat /\ Processed <= Processed'
        BY <3>4
      <4> QED
        BY <3>4, <3>5, <4>1, NoMoreLeft
    <3>7. /\ TypeOK /\ UNCHANGED <<stats, tmp, request>>
          /\ \A d \in Clients : pc'[d] = "store" => pc[d] = "store"
      BY <1>0, <3>1, <3>3
    <3> QED
      BY <3>6, <3>7, CountedLater, Zenon
  <2> QED
    BY <1>0, <2>1, <2>2 DEF TypeOK
<1>3. CASE ProcessNewRequests
  <2>1. /\ mpc = "new" /\ mpc' # "busy"
        /\ UNCHANGED <<pc, tmp, request, stats, perf, driver, sinal>>
    BY <1>3 DEF ProcessNewRequests
  <2> QED
    BY <2>1, CountedKept
<1>4. CASE MgrDown
  BY <1>4, CountedKept DEF MgrDown, SemDown
<1>5. CASE MgrRemove
  <2>1. /\ mpc # "busy" /\ mpc' # "busy" /\ UNCHANGED <<stats, perf, driver, sinal, tmp, request>>
        /\ \A d \in Clients : pc'[d] = pc[d] \/ (pc[d] = "semwait" /\ pc'[d] = "append")
    BY <1>5, RemoveEffect
  <2> QED
    BY <2>1, CountedKept
<1>6. CASE ExecuteRequest
  <2>1. next_request \in Request /\ driver = NoRequest /\ ~sinal
    BY <1>6 DEF ExecuteRequest, Flags, LivreTracksDriver, Taken
  <2>2. /\ driver' # NoRequest /\ mpc = "cmd" /\ mpc' = "busy"
        /\ perf'.processed = perf.processed
        /\ UNCHANGED <<pc, tmp, request, stats>>
    BY <1>0, <1>6, <2>1, RequestFields DEF ExecuteRequest, TypeOK
  <2>3. Counting' = Counting
    BY <2>2 DEF Counting
  <2>4. Processed' = Processed + 1 /\ Processed \in Nat
    BY <1>0, <2>2 DEF Processed
  <2>5. Uncounted' = Uncounted + 1 /\ Uncounted \in Nat
    BY <2>1, <2>2, <2>3, CountingFinite DEF Uncounted
  <2> QED
    BY <1>0, <2>2, <2>4, <2>5, CountedLater
<1>7. CASE MarkBusy
  <2>1. /\ mpc = "busy" /\ mpc' = "top" /\ perf'.processed = perf.processed + 1
        /\ UNCHANGED <<pc, tmp, request, stats, driver, sinal>>
    BY <1>0, <1>7 DEF MarkBusy, TypeOK
  <2>2. Counting' = Counting
    BY <2>1 DEF Counting
  <2>3. Processed' = Processed /\ Processed \in Nat
    BY <1>0, <2>1 DEF Processed
  <2>4. Uncounted' = Uncounted /\ Uncounted \in Nat
    BY <2>1, <2>2, CountingFinite DEF Uncounted
  <2> QED
    BY <1>0, <2>1, <2>3, <2>4, CountedLater
<1> QED
  BY <1>1, <1>2, <1>3, <1>4, <1>5, <1>6, <1>7 DEF Manager

LEMMA CountedInv == Spec => []Counted
<1> USE DEF taskVars, mgrVars, queueVars, semVars, diskVars
<1>1. Init => Counted
  <2> SUFFICES ASSUME Init PROVE Counted
    OBVIOUS
  <2>1. Counting = {} /\ stats["read"] = 0 /\ stats["write"] = 0 /\ perf.processed = 0
    BY DEF Init, Counting, Operations
  <2>2. Uncounted = 0 /\ Processed = 0
    BY <2>1, FS_EmptySet DEF Init, Uncounted, Processed
  <2>3. Seen("read") = {0} /\ Seen("write") = {0}
    BY <2>1 DEF Init, Seen
  <2> QED
    BY <2>2, <2>3 DEF Counted
<1>2. ASSUME Structure, Flags, Counted, [Next]_vars PROVE Counted'
  <2>1. ASSUME NEW c \in Clients, Client(c) PROVE Counted'
    BY <1>2, <2>1, ClientCounted
  <2>2. CASE Manager
    BY <1>2, <2>2, ManagerCounted
  <2>3. CASE DriverDone
    BY <1>2, <2>3, CountedKept DEF DriverDone, diskSignalHandler
  <2>4. CASE Shutdown
    BY <1>2, <2>4, CountedKept DEF Shutdown
  <2>5. CASE UNCHANGED vars
    BY <1>2, <2>5, CountedKept DEF vars
  <2> QED
    BY <1>2, <2>1, <2>2, <2>3, <2>4, <2>5 DEF Next
<1> QED
  BY <1>1, <1>2, FlagsInv, StructureInv, PTL DEF Spec

\* At every moment, under every policy and wherever quanta end, inside an increment
\* too, the operations counted by type are at most the requests counted as processed
\* (stats.*_operations++, executeRequest).
THEOREM ReportBounded == Spec => []ReportNeverExceeds
<1>1. Structure /\ Flags /\ Counted => ReportNeverExceeds
  <2> SUFFICES ASSUME Structure, Flags, Counted PROVE ReportNeverExceeds
    OBVIOUS
  <2>0. TypeOK /\ stats["read"] \in Nat /\ stats["write"] \in Nat /\ perf.processed \in Nat
    BY DEF Structure, TypeOK, Operations
  <2>1. stats["read"] + stats["write"] + Uncounted <= Processed
    BY DEF Counted, Seen
  <2>2. Uncounted \in Nat /\ (mpc = "busy" => Uncounted >= 1)
    BY CountingFinite DEF Flags, Uncounted
  <2>3. stats["read"] + stats["write"] <= perf.processed
    <3>1. CASE mpc = "busy"
      <4>1. Processed = perf.processed + 1
        BY <3>1 DEF Processed
      <4> QED
        BY <2>0, <2>1, <2>2, <3>1, <4>1
    <3>2. CASE mpc # "busy"
      <4>1. Processed = perf.processed
        BY <2>0, <3>2 DEF Processed
      <4> QED
        BY <2>0, <2>1, <2>2, <4>1
    <3> QED
      BY <3>1, <3>2
  <2> QED
    BY <2>3 DEF ReportNeverExceeds
<1> QED
  BY <1>1, CountedInv, FlagsInv, StructureInv, PTL

-----------------------------------------------------------------------------
(* The service.                                                            *)

\* A pending request is still the one its task has filled in.
Pending ==
    /\ \A i \in DOMAIN requestQueue : requestQueue[i] = request[requestQueue[i].task]
    /\ mpc = "cmd" => next_request = request[next_request.task]
    /\ driver # NoRequest => driver = request[driver.task]

LEMMA PendingKept ==
    ASSUME Pending, UNCHANGED <<request, requestQueue, next_request>>,
           driver' \in {driver, NoRequest}, mpc' = "cmd" => mpc = "cmd"
    PROVE  Pending'
  BY DEF Pending

LEMMA PendingInv ==
    ASSUME Policy = "FCFS", "suspend" \in NonPreemptible PROVE Spec => []Pending
<1> USE DEF taskVars, mgrVars, queueVars, semVars, diskVars, Goto
<1>1. Init => Pending
  BY DEF Init, Pending
<1>2. ASSUME Structure, Flags, Handed, Own, Ordered, Pending, [Next]_vars PROVE Pending'
  <2>0. /\ TypeOK /\ Filled
        /\ \A i \in DOMAIN requestQueue : requestQueue[i] \in Request
    BY <1>2, ElementOfSeq DEF Structure, TypeOK
  <2>1. ASSUME NEW c \in Clients, Client(c) PROVE Pending'
    <3>0. UNCHANGED <<next_request, driver>> /\ (mpc' = "cmd" => mpc = "cmd")
      BY <1>2, <2>1, ClientFrame
    <3>1. ASSUME NEW op \in Operations, NEW b \in ValidBlocks, Call(c, op, b) PROVE Pending'
      <4>1. /\ pc[c] = "user" /\ requestQueue' = requestQueue
            /\ request' = [request EXCEPT ![c] = [task |-> c, op |-> op, block |-> b]]
        BY <3>1 DEF Call
      <4>2. ~Unfinished(c)
        BY <1>2, <4>1, WhoIsPending
      <4>3. /\ \A i \in DOMAIN requestQueue : requestQueue[i].task # c
            /\ next_request.task # c /\ driver.task # c
        BY <4>2 DEF Unfinished
      <4>4. ASSUME NEW r \in Request, r.task # c PROVE request'[r.task] = request[r.task]
        BY <2>0, <4>1, <4>4, RequestFields DEF TypeOK
      <4>5. \A i \in DOMAIN requestQueue :
               requestQueue[i] = request'[requestQueue[i].task]
        BY <1>2, <2>0, <4>3, <4>4 DEF Pending
      <4>6. mpc = "cmd" => next_request = request'[next_request.task]
        BY <1>2, <4>3, <4>4 DEF Pending, Flags, Taken
      <4>7. driver # NoRequest => driver = request'[driver.task]
        BY <1>2, <2>0, <4>3, <4>4 DEF Pending, TypeOK
      <4> QED
        BY <3>0, <4>1, <4>5, <4>6, <4>7 DEF Pending
    <3>2. CASE QueueAppend(c)
      <4>1. /\ pc[c] = "append" /\ request' = request
            /\ requestQueue' = Append(requestQueue, request[c])
        BY <3>2 DEF QueueAppend
      <4>2. request[c] \in Request /\ request[c].task = c
        BY <1>2, <2>0, <4>1 DEF Filled, Own
      <4>3. /\ \A i \in 1 .. Len(requestQueue) : requestQueue'[i] = requestQueue[i]
            /\ requestQueue'[Len(requestQueue) + 1] = request[c]
            /\ DOMAIN requestQueue' = 1 .. Len(requestQueue) + 1
        BY <2>0, <4>1, <4>2, AppendProperties, LenProperties DEF TypeOK
      <4>4. \A i \in DOMAIN requestQueue' :
               requestQueue'[i] = request[requestQueue'[i].task]
        <5> TAKE i \in DOMAIN requestQueue'
        <5>1. i \in DOMAIN requestQueue \/ i = Len(requestQueue) + 1
          BY <1>2, <4>3, Lengths
        <5>2. i \in DOMAIN requestQueue => requestQueue'[i] = requestQueue[i]
          BY <1>2, <4>3, Lengths
        <5> QED
          BY <1>2, <4>2, <4>3, <5>1, <5>2 DEF Pending
      <4> QED
        BY <1>2, <3>0, <4>1, <4>4 DEF Pending
    <3>3. CASE \/ ClientDown(c) \/ QueueLink(c) \/ Suspend(c)
               \/ CountLoad(c) \/ CountStore(c)
      BY <1>2, <3>0, <3>3, PendingKept
      DEF ClientDown, QueueLink, Suspend, CountLoad, CountStore
    <3>4. CASE ClientUp(c)
      BY <1>2, <3>0, <3>4, UpEffect, PendingKept
    <3> QED
      BY <2>1, <3>1, <3>2, <3>3, <3>4 DEF Client
  <2>2. CASE Manager
    <3>1. CASE MgrTop \/ ProcessCompletionEvents \/ MgrDown \/ MarkBusy
      BY <1>2, <3>1, PendingKept
      DEF MgrTop, ProcessCompletionEvents, MgrDown, SemDown, MarkBusy
    <3>2. CASE ProcessNewRequests
      BY <1>2, <3>2 DEF ProcessNewRequests, Pending
    <3>3. CASE MgrRemove
      <4>1. /\ mpc' = "cmd" /\ UNCHANGED <<request, driver, next_request>>
            /\ requestQueue' = queue_remove(requestQueue, pick)
            /\ requestQueue \in Seq(Request) /\ pick \in 1 .. Len(requestQueue)
            /\ requestQueue[pick] = next_request
        BY <1>2, <3>3, RemoveEffect
      <4>2. /\ requestQueue' \in Seq(Request)
            /\ Len(requestQueue') = Len(requestQueue) - 1
            /\ \A i \in 1 .. Len(requestQueue) - 1 : requestQueue'[i] =
                  IF i < pick THEN requestQueue[i] ELSE requestQueue[i + 1]
        BY <4>1, RemoveFacts DEF queue_remove
      <4>3. \A i \in DOMAIN requestQueue' :
               \E j \in DOMAIN requestQueue : requestQueue'[i] = requestQueue[j]
        <5> TAKE i \in DOMAIN requestQueue'
        <5>1. i \in 1 .. Len(requestQueue) - 1
          BY <4>2, LenProperties
        <5>2. i \in DOMAIN requestQueue /\ i + 1 \in DOMAIN requestQueue
          BY <1>2, <5>1, Lengths
        <5> QED
          BY <4>2, <5>1, <5>2
      <4>4. next_request = request[next_request.task]
        BY <1>2, <4>1, Lengths DEF Pending
      <4> QED
        BY <1>2, <4>1, <4>3, <4>4 DEF Pending
    <3>4. CASE ExecuteRequest
      BY <1>2, <3>4 DEF ExecuteRequest, Pending
    <3> QED
      BY <2>2, <3>1, <3>2, <3>3, <3>4 DEF Manager
  <2>3. CASE DriverDone
    BY <1>2, <2>3, PendingKept DEF DriverDone
  <2>4. CASE Shutdown
    BY <1>2, <2>4, PendingKept DEF Shutdown
  <2>5. CASE UNCHANGED vars
    BY <1>2, <2>5, PendingKept DEF vars
  <2> QED
    BY <1>2, <2>1, <2>2, <2>3, <2>4, <2>5 DEF Next
<1> QED
  BY <1>1, <1>2, FlagsInv, HandedInv, OwnInv, OrderedInv, StructureInv, PTL DEF Spec

\* What Svc substitutes for call.
Done(c) == pc[c] \notin Before /\ ~Unfinished(c)
CallOf(c) ==
    IF pc[c] = "user" THEN [op |-> "none", block |-> 0, data |-> Blank, done |-> FALSE]
    ELSE [op |-> request[c].op, block |-> request[c].block, data |-> buffer[c],
          done |-> Done(c)]
Calls == [c \in Clients |-> CallOf(c)]

ServiceStays == store' = store /\ Calls' = Calls

LEMMA ServiceKept ==
    ASSUME UNCHANGED <<store, request, buffer>>,
           \A c \in Clients : /\ pc'[c] = "user" <=> pc[c] = "user"
                              /\ Done(c)' <=> Done(c)
    PROVE  ServiceStays
<1>1. \A c \in Clients : Done(c)' = Done(c) /\ Done(c) \in BOOLEAN
  BY DEF Done
<1>2. \A c \in Clients : CallOf(c)' = CallOf(c)
  BY <1>1 DEF CallOf
<1> QED
  BY <1>2 DEF ServiceStays, Calls

\* Which requests are pending does not change, nor who has yet to append.
LEMMA DoneKept ==
    ASSUME UNCHANGED <<requestQueue, next_request, driver>>,
           NEW c \in Clients, pc'[c] \in Before <=> pc[c] \in Before
    PROVE  Done(c)' <=> Done(c)
  BY DEF Done, Unfinished

LEMMA ServiceSteps ==
    /\ ServiceStays => UNCHANGED Svc!svcvars
    /\ \A c \in Clients, op \in Operations, b \in Blocks :
          /\ Calls[c] = [op |-> "none", block |-> 0, data |-> Blank, done |-> FALSE]
          /\ Calls' = [Calls EXCEPT ![c] =
                          [op |-> op, block |-> b, done |-> FALSE,
                           data |-> IF op = "write" THEN c ELSE Blank]]
          /\ store' = store
          => Svc!SvcNext
    /\ \A c \in Clients :
          /\ Calls[c].op # "none" /\ ~Calls[c].done
          /\ IF Calls[c].op = "write"
             THEN /\ store' = [store EXCEPT ![Calls[c].block] = Calls[c].data]
                  /\ Calls' = [Calls EXCEPT ![c].done = TRUE]
             ELSE /\ store' = store
                  /\ Calls' = [Calls EXCEPT ![c].done = TRUE,
                                            ![c].data = store[Calls[c].block]]
          => Svc!SvcNext
    /\ \A c \in Clients :
          /\ Calls[c].done
          /\ Calls' = [Calls EXCEPT ![c] =
                          [op |-> "none", block |-> 0, data |-> Blank, done |-> FALSE]]
          /\ store' = store
          => Svc!SvcNext
<1>1. ServiceStays => UNCHANGED Svc!svcvars
  BY DEF ServiceStays, Svc!svcvars, Calls, CallOf, Done, Before
<1>2. ASSUME NEW c \in Clients, NEW op \in Operations, NEW b \in Blocks,
             Calls[c] = [op |-> "none", block |-> 0, data |-> Blank, done |-> FALSE],
             Calls' = [Calls EXCEPT ![c] =
                          [op |-> op, block |-> b, done |-> FALSE,
                           data |-> IF op = "write" THEN c ELSE Blank]],
             store' = store
      PROVE  Svc!SvcNext
  <2>1. Svc!Invoke(c, op, b, c)
    BY <1>2 DEF Svc!Invoke, Svc!NoCall, Calls, CallOf, Done, Before
  <2> QED
    BY <2>1 DEF Svc!SvcNext
<1>3. ASSUME NEW c \in Clients, Calls[c].op # "none" /\ ~Calls[c].done,
             IF Calls[c].op = "write"
             THEN /\ store' = [store EXCEPT ![Calls[c].block] = Calls[c].data]
                  /\ Calls' = [Calls EXCEPT ![c].done = TRUE]
             ELSE /\ store' = store
                  /\ Calls' = [Calls EXCEPT ![c].done = TRUE,
                                            ![c].data = store[Calls[c].block]]
      PROVE  Svc!SvcNext
  <2>1. Svc!Transfer(c)
    BY <1>3 DEF Svc!Transfer, Calls, CallOf, Done, Before
  <2> QED
    BY <2>1 DEF Svc!SvcNext
<1>4. ASSUME NEW c \in Clients, Calls[c].done,
             Calls' = [Calls EXCEPT ![c] =
                          [op |-> "none", block |-> 0, data |-> Blank, done |-> FALSE]],
             store' = store
      PROVE  Svc!SvcNext
  <2>1. Svc!Return(c)
    BY <1>4 DEF Svc!Return, Svc!NoCall, Calls, CallOf, Done, Before
  <2> QED
    BY <2>1 DEF Svc!SvcNext
<1> QED
  BY <1>1, <1>2, <1>3, <1>4

LEMMA CallsPointwise ==
    ASSUME NEW c \in Clients, NEW x, CallOf(c)' = x,
           \A d \in Clients \ {c} : CallOf(d)' = CallOf(d)
    PROVE  Calls' = [Calls EXCEPT ![c] = x]
  BY DEF Calls

LEMMA ClientServes ==
    ASSUME Structure, Flags, Handed, Own, Ordered, NEW c \in Clients, Client(c)
    PROVE  Svc!SvcNext \/ ServiceStays
<1> USE DEF taskVars, mgrVars, queueVars, semVars, diskVars, Goto
<1>0. /\ TypeOK /\ Filled /\ pc \in [Clients -> ClientPoints]
      /\ UNCHANGED <<next_request, driver, store>>
  BY ClientFrame DEF Structure, TypeOK
<1>1. ASSUME NEW op \in Operations, NEW b \in ValidBlocks, Call(c, op, b) PROVE Svc!SvcNext
  <2> DEFINE x == [op |-> op, block |-> b, done |-> FALSE,
                   data |-> IF op = "write" THEN c ELSE Blank]
  <2>1. /\ pc[c] = "user" /\ pc' = [pc EXCEPT ![c] = "down"]
        /\ request' = [request EXCEPT ![c] = [task |-> c, op |-> op, block |-> b]]
        /\ buffer' = [buffer EXCEPT ![c] = IF op = "write" THEN c ELSE Blank]
        /\ requestQueue' = requestQueue
    BY <1>1 DEF Call
  <2>2. /\ pc'[c] = "down" /\ request'[c] = [task |-> c, op |-> op, block |-> b]
        /\ buffer'[c] = IF op = "write" THEN c ELSE Blank
        /\ \A d \in Clients \ {c} :
              pc'[d] = pc[d] /\ request'[d] = request[d] /\ buffer'[d] = buffer[d]
    BY <1>0, <2>1 DEF TypeOK
  <2>3. CallOf(c)' = x
    <3>1. Done(c)' = FALSE
      BY <2>2 DEF Done, Before
    <3>2. CallOf(c)' = [op |-> request'[c].op, block |-> request'[c].block,
                        data |-> buffer'[c], done |-> Done(c)']
      BY <2>2 DEF CallOf
    <3>3. request'[c].op = op /\ request'[c].block = b
      BY <2>2
    <3> QED
      BY <2>2, <3>1, <3>2, <3>3, Zenon
  <2>4. \A d \in Clients \ {c} : CallOf(d)' = CallOf(d)
    BY <1>0, <2>1, <2>2 DEF CallOf, Done, Unfinished, Before
  <2>5. Calls[c] = [op |-> "none", block |-> 0, data |-> Blank, done |-> FALSE]
    BY <2>1 DEF Calls, CallOf
  <2>6. Calls' = [Calls EXCEPT ![c] = x]
    BY <2>3, <2>4, CallsPointwise
  <2> QED
    BY <1>0, <2>5, <2>6, ServiceSteps DEF ValidBlocks
<1>2. CASE ClientDown(c)
  BY <1>0, <1>2, ServiceKept, DoneKept DEF ClientDown, SemDown, Before
<1>3. CASE QueueAppend(c)
  <2>1. /\ pc[c] = "append" /\ requestQueue' = Append(requestQueue, request[c])
        /\ \E point \in {"link", "up"} : pc' = [pc EXCEPT ![c] = point]
        /\ UNCHANGED <<request, buffer>>
    BY <1>3 DEF QueueAppend
  <2>2. request[c] \in Request /\ request[c].task = c /\ requestQueue \in Seq(Request)
    BY <1>0, <2>1 DEF Filled, Own, TypeOK
  <2>3. /\ \A i \in 1 .. Len(requestQueue) : requestQueue'[i] = requestQueue[i]
        /\ requestQueue'[Len(requestQueue) + 1] = request[c]
        /\ DOMAIN requestQueue' = 1 .. Len(requestQueue) + 1
    BY <2>1, <2>2, AppendProperties, LenProperties
  <2>4. DOMAIN requestQueue = 1 .. Len(requestQueue) /\ Len(requestQueue) \in Nat
    BY Lengths
  <2>5. ~Done(c) /\ ~Done(c)'
    <3>1. Len(requestQueue) + 1 \in DOMAIN requestQueue'
      BY <2>3, <2>4
    <3>2. Unfinished(c)'
      BY <2>2, <2>3, <3>1 DEF Unfinished
    <3> QED
      BY <2>1, <3>2 DEF Done, Before
  <2>6. ASSUME NEW d \in Clients \ {c} PROVE Done(d)' <=> Done(d)
    <3>1. (\E i \in DOMAIN requestQueue' : requestQueue'[i].task = d)
          <=> \E i \in DOMAIN requestQueue : requestQueue[i].task = d
      <4>1. ASSUME NEW i \in DOMAIN requestQueue', requestQueue'[i].task = d
            PROVE  i \in DOMAIN requestQueue /\ requestQueue[i].task = d
        <5>1. i # Len(requestQueue) + 1
          BY <2>2, <2>3, <2>6, <4>1
        <5>2. i \in 1 .. Len(requestQueue)
          BY <2>3, <2>4, <5>1
        <5> QED
          BY <2>3, <2>4, <4>1, <5>2
      <4>2. ASSUME NEW i \in DOMAIN requestQueue
            PROVE  i \in DOMAIN requestQueue' /\ requestQueue'[i] = requestQueue[i]
        BY <2>3, <2>4
      <4> QED
        BY <4>1, <4>2
    <3>2. pc'[d] = pc[d]
      BY <1>0, <2>1
    <3> QED
      BY <1>0, <3>1, <3>2 DEF Done, Unfinished
  <2>7. \A d \in Clients : pc'[d] = "user" <=> pc[d] = "user"
    BY <1>0, <2>1
  <2>8. \A d \in Clients : Done(d)' <=> Done(d)
    BY <2>5, <2>6
  <2> QED
    BY <1>0, <2>1, <2>7, <2>8, ServiceKept
<1>4. CASE QueueLink(c)
  BY <1>0, <1>4, ServiceKept, DoneKept DEF QueueLink, Before
<1>5. CASE ClientUp(c)
  <2>1. \A d \in Clients : /\ pc'[d] \in Before <=> pc[d] \in Before
                           /\ pc'[d] = "user" <=> pc[d] = "user"
    BY <1>5, UpEffect DEF Before
  <2> QED
    BY <1>0, <1>5, <2>1, UpEffect, ServiceKept, DoneKept
<1>6. CASE Suspend(c)
  BY <1>0, <1>6, ServiceKept, DoneKept DEF Suspend, Before
<1>7. CASE CountLoad(c)
  BY <1>0, <1>7, ServiceKept, DoneKept DEF CountLoad, Before
<1>8. CASE CountStore(c)
  <2>1. /\ pc[c] = "store" /\ pc' = [pc EXCEPT ![c] = "user"]
        /\ UNCHANGED <<request, buffer, requestQueue>>
    BY <1>8 DEF CountStore
  <2>2. Done(c)
    BY <2>1, WhoIsPending DEF Done, Before
  <2>3. Calls[c].done
    BY <2>1, <2>2 DEF Calls, CallOf
  <2>4. CallOf(c)' = [op |-> "none", block |-> 0, data |-> Blank, done |-> FALSE]
    BY <1>0, <2>1 DEF CallOf
  <2>5. \A d \in Clients \ {c} : CallOf(d)' = CallOf(d)
    BY <1>0, <2>1 DEF CallOf, Done, Unfinished, Before
  <2> QED
    BY <1>0, <2>3, <2>4, <2>5, CallsPointwise, ServiceSteps
<1> QED
  BY <1>1, <1>2, <1>3, <1>4, <1>5, <1>6, <1>7, <1>8 DEF Client

LEMMA ManagerServesNobody ==
    ASSUME Structure, Flags, Handed, Manager
    PROVE  ServiceStays
<1> USE DEF taskVars, mgrVars, queueVars, semVars, diskVars, Goto
<1>0. TypeOK /\ Lines /\ pc \in [Clients -> ClientPoints]
  BY DEF Structure, TypeOK
<1>a. NoRequest.task \notin Clients
  BY DiskParameters DEF NoRequest
<1>1. CASE MgrTop
  BY <1>1, ServiceKept, DoneKept DEF MgrTop
<1>2. CASE ProcessCompletionEvents
  <2>1. /\ UNCHANGED <<store, request, buffer, requestQueue, next_request, driver>>
        /\ \A c \in Clients : /\ pc'[c] \in Before <=> pc[c] \in Before
                              /\ pc'[c] = "user" <=> pc[c] = "user"
    <3>1. CASE diskQueue = <<>> \/ ~sinal
      BY <1>2, <3>1 DEF ProcessCompletionEvents, ResumeFirst
    <3>2. CASE diskQueue # <<>> /\ sinal
      <4>1. Head(diskQueue) \in Parked
        BY <1>0, <3>2, LeaveLine DEF Lines
      <4> QED
        BY <1>0, <1>2, <3>2, <4>1 DEF ProcessCompletionEvents, ResumeFirst, Parked, Before
    <3> QED
      BY <3>1, <3>2
  <2> QED
    BY <2>1, ServiceKept, DoneKept
<1>3. CASE ProcessNewRequests
  <2>1. /\ UNCHANGED <<store, request, buffer, pc, requestQueue, driver>>
        /\ next_request = NoRequest
        /\ \/ next_request' = next_request
           \/ \E i \in DOMAIN requestQueue : next_request' = requestQueue[i]
    BY <1>3 DEF ProcessNewRequests, Handed, Taken
  <2>2. \A c \in Clients : Unfinished(c)' <=> Unfinished(c)
    BY <1>a, <2>1 DEF Unfinished
  <2> QED
    BY <2>1, <2>2, ServiceKept DEF Done
<1>4. CASE MgrDown
  BY <1>4, ServiceKept, DoneKept DEF MgrDown, SemDown
<1>5. CASE MgrRemove
  <2>1. /\ UNCHANGED <<store, request, buffer, driver, next_request>>
        /\ requestQueue' = queue_remove(requestQueue, pick)
        /\ requestQueue \in Seq(Request) /\ pick \in 1 .. Len(requestQueue)
        /\ requestQueue[pick] = next_request
        /\ \A d \in Clients : pc'[d] = pc[d] \/ (pc[d] = "semwait" /\ pc'[d] = "append")
    BY <1>5, RemoveEffect
  <2>2. /\ requestQueue' \in Seq(Request)
        /\ Len(requestQueue') = Len(requestQueue) - 1
        /\ \A i \in 1 .. Len(requestQueue) - 1 : requestQueue'[i] =
              IF i < pick THEN requestQueue[i] ELSE requestQueue[i + 1]
    BY <2>1, RemoveFacts DEF queue_remove
  <2>3. /\ Len(requestQueue) \in Nat /\ DOMAIN requestQueue = 1 .. Len(requestQueue)
        /\ DOMAIN requestQueue' = 1 .. Len(requestQueue) - 1
    BY <2>2, Lengths, LenProperties
  <2>4. \A i \in DOMAIN requestQueue' :
           \E j \in DOMAIN requestQueue : requestQueue'[i] = requestQueue[j]
    <3> TAKE i \in DOMAIN requestQueue'
    <3>1. i \in DOMAIN requestQueue /\ i + 1 \in DOMAIN requestQueue
      BY <2>3
    <3> QED
      BY <2>2, <2>3, <3>1
  <2>5. \A j \in DOMAIN requestQueue :
           \/ requestQueue[j] = next_request
           \/ \E i \in DOMAIN requestQueue' : requestQueue'[i] = requestQueue[j]
    <3> TAKE j \in DOMAIN requestQueue
    <3>1. CASE j < pick
      <4>1. j \in 1 .. Len(requestQueue) - 1
        BY <2>1, <2>3, <3>1
      <4> QED
        BY <2>2, <2>3, <3>1, <4>1
    <3>2. CASE j > pick
      <4>1. j - 1 \in 1 .. Len(requestQueue) - 1 /\ ~(j - 1 < pick) /\ (j - 1) + 1 = j
        BY <2>1, <2>3, <3>2
      <4>2. requestQueue'[j - 1] = requestQueue[j]
        BY <2>2, <4>1
      <4> QED
        BY <2>3, <4>1, <4>2
    <3> QED
      BY <2>1, <2>3, <3>1, <3>2
  <2>6. \A c \in Clients : Unfinished(c)' <=> Unfinished(c)
    BY <2>1, <2>4, <2>5, Lengths DEF Unfinished
  <2>7. \A c \in Clients : /\ pc'[c] = "user" <=> pc[c] = "user"
                           /\ pc'[c] \in Before <=> pc[c] \in Before
    BY <2>1 DEF Before
  <2> QED
    BY <2>1, <2>6, <2>7, ServiceKept DEF Done
<1>6. CASE ExecuteRequest
  <2>1. driver = NoRequest
    BY <1>6 DEF ExecuteRequest, Flags, LivreTracksDriver, Taken
  <2>2. /\ driver' = next_request /\ next_request' = NoRequest
        /\ UNCHANGED <<store, request, buffer, pc, requestQueue>>
    BY <1>6, <2>1 DEF ExecuteRequest
  <2>3. \A c \in Clients : Unfinished(c)' <=> Unfinished(c)
    BY <1>a, <2>1, <2>2 DEF Unfinished
  <2> QED
    BY <2>2, <2>3, ServiceKept DEF Done
<1>7. CASE MarkBusy
  BY <1>7, ServiceKept, DoneKept DEF MarkBusy
<1> QED
  BY <1>1, <1>2, <1>3, <1>4, <1>5, <1>6, <1>7 DEF Manager

\* Marking a call, and putting the data read into it.
LEMMA Transferred ==
    ASSUME NEW f, NEW c \in DOMAIN f, NEW op, NEW b, NEW d, NEW e, NEW x, NEW y,
           f[c] = [op |-> op, block |-> b, data |-> d, done |-> x]
    PROVE  /\ [f EXCEPT ![c].done = y]
              = [f EXCEPT ![c] = [op |-> op, block |-> b, data |-> d, done |-> y]]
           /\ [f EXCEPT ![c].done = y, ![c].data = e]
              = [f EXCEPT ![c] = [op |-> op, block |-> b, data |-> e, done |-> y]]
<1>1. [f[c] EXCEPT !.done = y] = [op |-> op, block |-> b, data |-> d, done |-> y]
  OBVIOUS
<1>2. ASSUME NEW r, r = [op |-> op, block |-> b, data |-> d, done |-> y]
      PROVE  [r EXCEPT !.data = e] = [op |-> op, block |-> b, data |-> e, done |-> y]
  BY <1>2
<1>3. [[f[c] EXCEPT !.done = y] EXCEPT !.data = e]
      = [op |-> op, block |-> b, data |-> e, done |-> y]
  BY <1>1, <1>2, Zenon
<1> QED
  BY <1>1, <1>3

\* The driver transfers the block of the call whose task sleeps longest.
LEMMA DriverServes ==
    ASSUME Structure, Flags, Handed, Ordered, Pending, DriverDone
    PROVE  Svc!SvcNext
<1>0. driver # NoRequest /\ driver \in Request /\ driver.task \in Clients
  BY RequestFields DEF DriverDone, Structure, TypeOK
<1> PICK c \in Clients : c = driver.task
  BY <1>0
<1>1. /\ driver # NoRequest /\ driver' = NoRequest
      /\ UNCHANGED <<pc, request, requestQueue, next_request>>
      /\ IF driver.op = "write"
         THEN store' = [store EXCEPT ![driver.block] = buffer[c]] /\ buffer' = buffer
         ELSE buffer' = [buffer EXCEPT ![c] = store[driver.block]] /\ store' = store
  BY DEF DriverDone, mgrVars, queueVars
<1>2. /\ driver.op \in {"read", "write"}
      /\ buffer \in [Clients -> Clients \cup {Blank}]
      /\ diskQueue # <<>> /\ diskQueue[1] = c /\ request[c] = driver
  BY <1>0, RequestFields DEF Structure, TypeOK, Ordered, Pending
<1>3. pc[c] = "blocked"
  <2>1. 1 \in DOMAIN diskQueue
    BY <1>2, Lengths
  <2>2. diskQueue[1] \in Parked
    BY <2>1, ElementOfSeq DEF Structure, Lines
  <2> QED
    BY <1>2, <2>2 DEF Parked
<1>4. NoRequest.task \notin Clients
  BY DiskParameters DEF NoRequest
<1>5. next_request = NoRequest
  BY <1>1 DEF Handed, Taken, Flags, LivreTracksDriver
<1>6. \A i \in DOMAIN requestQueue : requestQueue[i].task # c
  <2> SUFFICES ASSUME NEW i \in DOMAIN requestQueue, requestQueue[i].task = c PROVE FALSE
    OBVIOUS
  <2>1. InHand = 1 /\ c \notin OnWay
    BY <1>1, <1>3 DEF InHand, Busy, OnWay
  <2>2. i + 1 <= Len(diskQueue) /\ diskQueue[i + 1] = c
    BY <2>1 DEF Ordered, InOrder
  <2>3. i + 1 \in DOMAIN diskQueue /\ 1 \in DOMAIN diskQueue /\ i + 1 # 1
    BY <2>2, Lengths
  <2> QED
    BY <1>2, <2>2, <2>3 DEF Structure, Lines, NoRepeat
<1>7. ~Done(c) /\ Done(c)'
  BY <1>1, <1>2, <1>3, <1>4, <1>5, <1>6 DEF Done, Unfinished, Before
<1>8. \A d \in Clients \ {c} : Done(d)' <=> Done(d)
  BY <1>1, <1>4 DEF Done, Unfinished
<1>9. Calls[c] = [op |-> driver.op, block |-> driver.block, data |-> buffer[c],
                  done |-> FALSE]
  <2>1. Done(c) = FALSE
    BY <1>7 DEF Done
  <2>2. Calls[c] = [op |-> request[c].op, block |-> request[c].block,
                    data |-> buffer[c], done |-> Done(c)]
    BY <1>3 DEF Calls, CallOf
  <2> QED
    BY <1>2, <2>1, <2>2
<1>10. CallOf(c)' = [op |-> driver.op, block |-> driver.block, data |-> buffer'[c],
                     done |-> TRUE]
  BY <1>1, <1>2, <1>3, <1>7 DEF CallOf, Done
<1>11. \A d \in Clients \ {c} : CallOf(d)' = CallOf(d)
  <2> TAKE d \in Clients \ {c}
  <2>1. buffer'[d] = buffer[d]
    BY <1>1, <1>2
  <2>2. Done(d)' = Done(d)
    BY <1>8 DEF Done
  <2> QED
    BY <1>1, <2>1, <2>2 DEF CallOf
<1>12. Calls' = [Calls EXCEPT ![c] = [op |-> driver.op, block |-> driver.block,
                                      data |-> buffer'[c], done |-> TRUE]]
  BY <1>2, <1>10, <1>11, CallsPointwise
<1>13. /\ Calls[c].op = driver.op /\ Calls[c].block = driver.block
       /\ Calls[c].data = buffer[c] /\ ~Calls[c].done /\ driver.op # "none"
       /\ c \in DOMAIN Calls
  BY <1>2, <1>9 DEF Calls
<1> HIDE DEF Calls
<1>14. CASE driver.op = "write"
  <2>1. Calls' = [Calls EXCEPT ![c].done = TRUE]
    BY <1>1, <1>9, <1>12, <1>13, <1>14, Transferred
  <2> QED
    BY <1>1, <1>13, <1>14, <2>1, ServiceSteps
<1>15. CASE driver.op = "read"
  <2>1. buffer'[c] = store[driver.block]
    BY <1>1, <1>2, <1>15
  <2>2. Calls' = [Calls EXCEPT ![c].done = TRUE, ![c].data = store[driver.block]]
    BY <1>9, <1>12, <1>13, <2>1, Transferred
  <2> QED
    BY <1>1, <1>13, <1>15, <2>2, ServiceSteps
<1> QED
  BY <1>2, <1>14, <1>15

\* Under FCFS, when no quantum ends between sem_up and task_suspend, each call of
\* disk_block_read and disk_block_write is one transfer of its block between the call
\* and the return, whatever else is preempted (ppos_disk.h, disk_block_read,
\* disk_block_write, the driver); the fairness of ImplementsService is left to the runs.
THEOREM ManagerIsService ==
    ASSUME Policy = "FCFS", "suspend" \in NonPreemptible PROVE Spec => Svc!SvcSpec
<1> USE DEF taskVars, mgrVars, queueVars, semVars, diskVars
<1>1. Init => Svc!SvcInit
  BY DEF Init, Svc!SvcInit, Svc!NoCall
<1>2. ASSUME Structure, Flags, Handed, Own, Ordered, Pending, [Next]_vars
      PROVE  [Svc!SvcNext]_(Svc!svcvars)
  <2>1. ASSUME NEW c \in Clients, Client(c) PROVE Svc!SvcNext \/ ServiceStays
    BY <1>2, <2>1, ClientServes
  <2>2. CASE Manager
    BY <1>2, <2>2, ManagerServesNobody, ServiceSteps
  <2>3. CASE DriverDone
    BY <1>2, <2>3, DriverServes
  <2>4. CASE Shutdown
    BY <2>4, ServiceKept, DoneKept, ServiceSteps DEF Shutdown
  <2>5. CASE UNCHANGED vars
    BY <2>5, ServiceKept, DoneKept, ServiceSteps DEF vars
  <2> QED
    BY <1>2, <2>1, <2>2, <2>3, <2>4, <2>5, ServiceSteps DEF Next
<1> QED
  BY <1>1, <1>2, FlagsInv, HandedInv, OwnInv, OrderedInv, PendingInv, StructureInv, PTL
  DEF Spec, Svc!SvcSpec
=============================================================================
