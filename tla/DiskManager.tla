----------------------------- MODULE DiskManager -----------------------------
(***************************************************************************)
(* The disk manager of PingPongOS (ppos_disk.c): the tasks inside          *)
(* disk_block_read and disk_block_write, the manager task bodyDiskManager, *)
(* the virtual disk and its signal.                                        *)
(*                                                                         *)
(* One step is what runs between two points where a preemption shows.  The *)
(* scheduler is left out: any task that is not suspended may run next, so  *)
(* what holds here holds for every priority and quantum.  A tick exhausts  *)
(* the quantum of a task in disk_block_* only outside the control points   *)
(* of NonPreemptible, which is empty when nothing is assumed.              *)
(*                                                                         *)
(* disk.semaforo is left out: only the manager uses it and never waits.    *)
(***************************************************************************)
EXTENDS DiskPolicy, FiniteSets, FiniteSetsExt

CONSTANTS
    Clients,          \* tasks that call disk_block_read and disk_block_write
    Mgr,              \* taskDiskMgr
    Blocks,           \* block numbers 0 .. numBlocks - 1
    Blank,            \* initial contents of blocks and buffers
    Policy,           \* SCHEDULER_DEFAULT of the build
    NonPreemptible,   \* control points of a call where no quantum runs out
    MainWaits,        \* TRUE: main joins the clients before it exits
    MaxOps            \* bound: calls each client makes

ASSUME DiskParameters ==
    /\ Blocks \subseteq Nat /\ 0 \in Blocks
    /\ Policy \in Policies
    /\ IsFiniteSet(Clients) /\ Mgr \notin Clients
    /\ MaxOps \in Nat
    /\ MainWaits \in BOOLEAN

\* DiskArm's name for the task of an idle disk.
ASSUME NobodyFree == "nobody" \notin Clients

VARIABLES
    pc,             \* control point of each client
    request,        \* the request of its latest call
    buffer,         \* its buffer
    left,           \* calls it has still to make
    tmp,            \* the counter value it has read and not yet written back
    mpc,            \* control point of the manager
    pick,           \* position of next_request in requestQueue
    next_request,   \* the request the manager has taken
    requestQueue,   \* pending requests, oldest first
    unlinked,       \* the only queued request has no links yet
    diskQueue,      \* suspended clients, oldest first
    semaforo_queue, \* value of the semaphore
    semWait,        \* tasks suspended on it, oldest first
    livre, sinal, system_shutdown_requested,
    driver,         \* request the disk works on, or NoRequest
    store,          \* contents of the disk
    perf,           \* perf_tracker: head position, requests processed
    stats,          \* read and write operations
    crashed         \* the process has dereferenced a null link

taskVars == <<pc, request, buffer, left, tmp>>
mgrVars == <<mpc, pick, next_request, livre, perf>>
queueVars == <<requestQueue, unlinked>>
semVars == <<semaforo_queue, semWait>>
diskVars == <<driver, store, sinal>>
vars == <<taskVars, mgrVars, queueVars, semVars, diskVars, diskQueue, stats,
          system_shutdown_requested, crashed>>

Operations == {"read", "write"}
Request == [task : Clients, op : Operations, block : Blocks]
NoRequest == [task |-> Mgr, op |-> "none", block |-> 0]

ClientPoints == {"user", "down", "semwait", "append", "link", "up", "suspend",
                 "blocked", "load", "store"}
MgrPoints == {"top", "complete", "new", "down", "semwait", "remove", "cmd",
              "busy", "exited"}

\* p may run now: no other task is at a point where it keeps the CPU.
MayRun(p) ==
    /\ ~crashed
    /\ \A c \in Clients \ {p} : pc[c] \notin NonPreemptible

-----------------------------------------------------------------------------
(* disk_block_read and disk_block_write, called with valid arguments.      *)

Goto(c, point) == pc' = [pc EXCEPT ![c] = point]

\* Mutant: the check lets block = numBlocks in.
BlocksOneTooMany == Blocks \cup {Cardinality(Blocks)}

\* The blocks the checks at the top let in.
ValidBlocks == Blocks

\* createDiskRequest fills in the request.
Call(c, op, b) ==
    /\ MayRun(c) /\ pc[c] = "user" /\ left[c] > 0
    /\ Goto(c, "down")
    /\ left' = [left EXCEPT ![c] = left[c] - 1]
    /\ request' = [request EXCEPT ![c] = [task |-> c, op |-> op, block |-> b]]
    /\ buffer' = [buffer EXCEPT ![c] = IF op = "write" THEN c ELSE Blank]
    /\ UNCHANGED <<tmp, mgrVars, queueVars, semVars, diskVars, diskQueue, stats,
                   system_shutdown_requested, crashed>>

\* sem_down(&disk.semaforo_queue): take it or wait in line.
SemDown(p, taken, waiting) ==
    /\ semaforo_queue' = semaforo_queue - 1
    /\ IF semaforo_queue > 0 THEN taken /\ UNCHANGED semWait
       ELSE waiting /\ semWait' = Append(semWait, p)

\* sem_up: the oldest waiter, if any, is resumed past its sem_down.  `points' is
\* where the caller itself goes on, mgrPoint the manager's next point.
SemUp(points, mgrPoint) ==
    /\ semaforo_queue' = semaforo_queue + 1
    /\ IF semWait = <<>>
       THEN pc' = points /\ mpc' = mgrPoint /\ UNCHANGED semWait
       ELSE LET p == Head(semWait)
            IN  /\ semWait' = Tail(semWait)
                /\ IF p = Mgr
                   THEN pc' = points /\ mpc' = "remove"
                   ELSE pc' = [points EXCEPT ![p] = "append"] /\ mpc' = mgrPoint

\* Mutant: the list is edited without the semaphore.
ClientDownNot(c) ==
    /\ MayRun(c) /\ pc[c] = "down"
    /\ Goto(c, "append")
    /\ UNCHANGED <<request, buffer, left, tmp, mgrVars, queueVars, semVars, diskVars,
                   diskQueue, stats, system_shutdown_requested, crashed>>

ClientDown(c) ==
    /\ MayRun(c) /\ pc[c] = "down"
    /\ SemDown(c, Goto(c, "append"), Goto(c, "semwait"))
    /\ UNCHANGED <<request, buffer, left, tmp, mgrVars, queueVars, diskVars,
                   diskQueue, stats, system_shutdown_requested, crashed>>

\* Mutant: the new request becomes the first of the list.
QueuePrepend(c) ==
    /\ MayRun(c) /\ pc[c] = "append"
    /\ requestQueue' = <<request[c]>> \o requestQueue
    /\ unlinked' = (requestQueue = <<>>)
    /\ Goto(c, IF requestQueue = <<>> THEN "link" ELSE "up")
    /\ UNCHANGED <<request, buffer, left, tmp, mgrVars, semVars, diskVars,
                   diskQueue, stats, system_shutdown_requested, crashed>>

\* queue_append: on an empty queue the head pointer is set before the links of
\* the element; otherwise the last write makes a linked element visible.
QueueAppend(c) ==
    /\ MayRun(c) /\ pc[c] = "append"
    /\ requestQueue' = Append(requestQueue, request[c])
    /\ unlinked' = (requestQueue = <<>>)
    /\ Goto(c, IF requestQueue = <<>> THEN "link" ELSE "up")
    /\ UNCHANGED <<request, buffer, left, tmp, mgrVars, semVars, diskVars,
                   diskQueue, stats, system_shutdown_requested, crashed>>

QueueLink(c) ==
    /\ MayRun(c) /\ pc[c] = "link"
    /\ unlinked' = FALSE
    /\ Goto(c, "up")
    /\ UNCHANGED <<request, buffer, left, tmp, mgrVars, requestQueue, semVars,
                   diskVars, diskQueue, stats, system_shutdown_requested, crashed>>

ClientUp(c) ==
    /\ MayRun(c) /\ pc[c] = "up"
    /\ SemUp([pc EXCEPT ![c] = "suspend"], mpc)
    /\ UNCHANGED <<request, buffer, left, tmp, pick, next_request, livre, perf,
                   queueVars, diskVars, diskQueue, stats,
                   system_shutdown_requested, crashed>>

\* task_suspend(taskExec, &disk.diskQueue); task_yield().
Suspend(c) ==
    /\ MayRun(c) /\ pc[c] = "suspend"
    /\ diskQueue' = Append(diskQueue, c)
    /\ Goto(c, "blocked")
    /\ UNCHANGED <<request, buffer, left, tmp, mgrVars, queueVars, semVars, diskVars,
                   stats, system_shutdown_requested, crashed>>

\* stats.read_operations++ or stats.write_operations++: a load and a store.
CountLoad(c) ==
    /\ MayRun(c) /\ pc[c] = "load"
    /\ tmp' = [tmp EXCEPT ![c] = stats[request[c].op]]
    /\ Goto(c, "store")
    /\ UNCHANGED <<request, buffer, left, mgrVars, queueVars, semVars, diskVars,
                   diskQueue, stats, system_shutdown_requested, crashed>>

CountStore(c) ==
    /\ MayRun(c) /\ pc[c] = "store"
    /\ stats' = [stats EXCEPT ![request[c].op] = tmp[c] + 1]
    /\ tmp' = [tmp EXCEPT ![c] = 0]
    /\ Goto(c, "user")
    /\ UNCHANGED <<request, buffer, left, mgrVars, queueVars, semVars, diskVars,
                   diskQueue, system_shutdown_requested, crashed>>

Client(c) ==
    \/ \E op \in Operations, b \in ValidBlocks : Call(c, op, b)
    \/ ClientDown(c) \/ QueueAppend(c) \/ QueueLink(c) \/ ClientUp(c)
    \/ Suspend(c) \/ CountLoad(c) \/ CountStore(c)

-----------------------------------------------------------------------------
(* bodyDiskManager *)

\* Mutant: a negation missing in the test.
ShutdownWhenWaited ==
    system_shutdown_requested /\ requestQueue = <<>> /\ diskQueue # <<>>

\* The three reads of the test as one: the flag only rises, and of the two lists
\* only the manager itself takes something out, so what the reads find one after
\* another they would also find together, at the read of requestQueue when all
\* three succeed and at the one that fails otherwise.
ShutdownTest ==
    system_shutdown_requested /\ requestQueue = <<>> /\ diskQueue = <<>>

\* The shutdown test at the top of the loop; printSystemStatistics and task_exit.
MgrTop ==
    /\ MayRun(Mgr) /\ mpc = "top"
    /\ mpc' = IF ShutdownTest THEN "exited" ELSE "complete"
    /\ UNCHANGED <<taskVars, pick, next_request, livre, perf, queueVars, semVars,
                   diskVars, diskQueue, stats, system_shutdown_requested, crashed>>

\* Mutant: the completion is noted and nobody is resumed.
ResumeNobody == UNCHANGED <<diskQueue, pc>>

\* Whoever is first in diskQueue is resumed.
ResumeFirst ==
    IF diskQueue = <<>> THEN UNCHANGED <<diskQueue, pc>>
    ELSE diskQueue' = Tail(diskQueue) /\ Goto(Head(diskQueue), "load")

ProcessCompletionEvents ==
    /\ MayRun(Mgr) /\ mpc = "complete"
    /\ mpc' = "new"
    /\ IF sinal
       THEN sinal' = FALSE /\ livre' = TRUE /\ ResumeFirst
       ELSE UNCHANGED <<sinal, livre, diskQueue, pc>>
    /\ UNCHANGED <<request, buffer, left, tmp, pick, next_request, perf, queueVars,
                   semVars, driver, store, stats, system_shutdown_requested, crashed>>

\* Mutant: livre is not looked at.
WorkAlways == requestQueue # <<>>

Work == livre /\ requestQueue # <<>>

\* processNewRequests up to disk_scheduler's choice, made without the semaphore.
\* The scans of SSTF and CSCAN follow the links of every request they meet.
ProcessNewRequests ==
    /\ MayRun(Mgr) /\ mpc = "new"
    /\ \/ /\ ~Work
          /\ mpc' = "top"
          /\ UNCHANGED <<pick, next_request, crashed>>
       \/ /\ Work /\ unlinked /\ Policy # "FCFS"
          /\ crashed' = TRUE
          /\ UNCHANGED <<mpc, pick, next_request>>
       \/ /\ Work /\ ~(unlinked /\ Policy # "FCFS")
          /\ \E i \in DOMAIN requestQueue :
                /\ disk_scheduler(Policy, requestQueue, perf.head, i)
                /\ pick' = i
                /\ next_request' = requestQueue[i]
          /\ mpc' = "down"
          /\ UNCHANGED crashed
    /\ UNCHANGED <<taskVars, livre, perf, queueVars, semVars, diskVars, diskQueue,
                   stats, system_shutdown_requested>>

MgrDown ==
    /\ MayRun(Mgr) /\ mpc = "down"
    /\ SemDown(Mgr, mpc' = "remove", mpc' = "semwait")
    /\ UNCHANGED <<taskVars, pick, next_request, livre, perf, queueVars, diskVars,
                   diskQueue, stats, system_shutdown_requested, crashed>>

\* Mutant: the request is executed and left in the list.
MgrRemoveNothing ==
    /\ MayRun(Mgr) /\ mpc = "remove"
    /\ pick' = 0
    /\ SemUp(pc, "cmd")
    /\ UNCHANGED <<request, buffer, left, tmp, next_request, livre, perf, queueVars,
                   diskVars, diskQueue, stats, system_shutdown_requested, crashed>>

\* queue_remove and sem_up.
MgrRemove ==
    /\ MayRun(Mgr) /\ mpc = "remove"
    /\ requestQueue' = queue_remove(requestQueue, pick)
    /\ pick' = 0
    /\ SemUp(pc, "cmd")
    /\ UNCHANGED <<request, buffer, left, tmp, next_request, livre, perf, unlinked,
                   diskVars, diskQueue, stats, system_shutdown_requested, crashed>>

\* executeRequest up to disk_cmd, which refuses a command while the disk works.
ExecuteRequest ==
    /\ MayRun(Mgr) /\ mpc = "cmd"
    /\ perf' = [perf EXCEPT !.head = next_request.block]
    /\ driver' = IF driver = NoRequest THEN next_request ELSE driver
    /\ next_request' = NoRequest
    /\ mpc' = "busy"
    /\ UNCHANGED <<taskVars, pick, livre, queueVars, semVars, store, sinal, diskQueue,
                   stats, system_shutdown_requested, crashed>>

\* Mutant: requests_processed is not incremented.
MarkBusyUncounted ==
    /\ MayRun(Mgr) /\ mpc = "busy"
    /\ livre' = FALSE
    /\ mpc' = "top"
    /\ UNCHANGED <<taskVars, perf, pick, next_request, queueVars, semVars, diskVars,
                   diskQueue, stats, system_shutdown_requested, crashed>>

\* executeRequest after disk_cmd; then the manager yields and starts over.
MarkBusy ==
    /\ MayRun(Mgr) /\ mpc = "busy"
    /\ livre' = FALSE
    /\ perf' = [perf EXCEPT !.processed = perf.processed + 1]
    /\ mpc' = "top"
    /\ UNCHANGED <<taskVars, pick, next_request, queueVars, semVars, diskVars,
                   diskQueue, stats, system_shutdown_requested, crashed>>

Manager ==
    \/ MgrTop \/ ProcessCompletionEvents \/ ProcessNewRequests
    \/ MgrDown \/ MgrRemove \/ ExecuteRequest \/ MarkBusy

-----------------------------------------------------------------------------
\* Mutant: the signal of the disk is not caught.
SignalLost == UNCHANGED sinal

diskSignalHandler == sinal' = TRUE

\* The driver's timer: the block is transferred from or to the buffer as it is
\* now, the disk is idle again, and SIGUSR1 runs diskSignalHandler.
DriverDone ==
    /\ ~crashed /\ driver # NoRequest
    /\ IF driver.op = "write"
       THEN /\ store' = [store EXCEPT ![driver.block] = buffer[driver.task]]
            /\ UNCHANGED buffer
       ELSE /\ buffer' = [buffer EXCEPT ![driver.task] = store[driver.block]]
            /\ UNCHANGED store
    /\ driver' = NoRequest
    /\ diskSignalHandler
    /\ UNCHANGED <<pc, request, left, tmp, mgrVars, queueVars, semVars, diskQueue,
                   stats, system_shutdown_requested, crashed>>

\* after_task_exit of main calls disk_mgr_shutdown.
Shutdown ==
    /\ MayRun(Mgr) /\ ~system_shutdown_requested
    /\ MainWaits => \A c \in Clients : pc[c] = "user" /\ left[c] = 0
    /\ system_shutdown_requested' = TRUE
    /\ UNCHANGED <<taskVars, mgrVars, queueVars, semVars, diskVars, diskQueue, stats,
                   crashed>>

\* disk_mgr_init.
Init ==
    /\ pc = [c \in Clients |-> "user"]
    /\ request = [c \in Clients |-> NoRequest]
    /\ buffer = [c \in Clients |-> Blank]
    /\ left = [c \in Clients |-> MaxOps]
    /\ tmp = [c \in Clients |-> 0]
    /\ mpc = "top" /\ pick = 0 /\ next_request = NoRequest
    /\ requestQueue = <<>> /\ unlinked = FALSE
    /\ diskQueue = <<>>
    /\ semaforo_queue = 1 /\ semWait = <<>>
    /\ livre = TRUE /\ sinal = FALSE
    /\ system_shutdown_requested = FALSE
    /\ driver = NoRequest
    /\ store = [b \in Blocks |-> Blank]
    /\ perf = [head |-> 0, processed |-> 0]
    /\ stats = [op \in Operations |-> 0]
    /\ crashed = FALSE

Next == (\E c \in Clients : Client(c)) \/ Manager \/ DriverDone \/ Shutdown

Spec == Init /\ [][Next]_vars

\* Aging gives every ready task the CPU (Scheduler!NoStarvation), the driver's
\* timer fires, and main gets to its end.
Fairness ==
    /\ \A c \in Clients : WF_vars(Client(c))
    /\ WF_vars(Manager) /\ WF_vars(DriverDone) /\ WF_vars(Shutdown)

FairSpec == Spec /\ Fairness

-----------------------------------------------------------------------------
TypeOK ==
    /\ pc \in [Clients -> ClientPoints]
    /\ request \in [Clients -> Request \cup {NoRequest}]
    /\ buffer \in [Clients -> Clients \cup {Blank}]
    /\ left \in [Clients -> 0 .. MaxOps]
    /\ tmp \in [Clients -> Nat]
    /\ mpc \in MgrPoints /\ pick \in Nat
    /\ next_request \in Request \cup {NoRequest}
    /\ requestQueue \in Seq(Request)
    /\ diskQueue \in Seq(Clients)
    /\ semaforo_queue \in Int /\ semWait \in Seq(Clients \cup {Mgr})
    /\ {unlinked, livre, sinal, system_shutdown_requested, crashed} \subseteq BOOLEAN
    /\ driver \in Request \cup {NoRequest}
    /\ store \in [Blocks -> Clients \cup {Blank}]
    /\ perf \in [head : Blocks, processed : Nat]
    /\ stats \in [Operations -> Nat]

\* Outside the instants between disk_cmd and `livre = 0', the manager believes the
\* disk free exactly when the driver is idle and its last signal was consumed: no
\* signal is lost, none is counted twice (processCompletionEvents, executeRequest).
LivreTracksDriver ==
    mpc # "busy" => (livre <=> driver = NoRequest /\ ~sinal)

\* No command meets a busy driver, so none is refused: executeRequest ignores the
\* result of disk_cmd and frees the request at once.
CommandAccepted == mpc = "cmd" => driver = NoRequest /\ ~sinal

\* The position disk_scheduler chose without holding semaforo_queue still
\* designates the same request when the manager, with it, removes it.
PickStays ==
    mpc \in {"down", "semwait", "remove"} =>
        pick \in DOMAIN requestQueue /\ requestQueue[pick] = next_request

\* The holders of semaforo_queue: one task at most edits the list, and the value
\* counts it and those in line (sem_down, sem_up around queue_append, queue_remove).
Holders == {c \in Clients : pc[c] \in {"append", "link", "up"}}
           \cup {m \in {Mgr} : mpc = "remove"}
QueueMutex ==
    /\ Cardinality(Holders) <= 1
    /\ semaforo_queue = 1 - Cardinality(Holders) - Len(semWait)

\* No request is lost or served twice: what the clients appended is queued, in the
\* manager's hands, or counted as processed.
Submitted(c) ==
    MaxOps - left[c] - IF pc[c] \in {"down", "semwait", "append"} THEN 1 ELSE 0
NoRequestLost ==
    MapThenSumSet(Submitted, Clients) =
        perf.processed + Len(requestQueue) + IF mpc \in {"cmd", "busy"} THEN 1 ELSE 0

\* Task c has a request that is queued, taken or with the driver.
Unfinished(c) ==
    \/ \E i \in DOMAIN requestQueue : requestQueue[i].task = c
    \/ next_request.task = c
    \/ driver.task = c

\* ppos_disk.c:168-169, 209-210: the call suspends the task until the operation
\* is concluded, so a task past its suspension has nothing pending.
OwnRequestDone == \A c \in Clients : pc[c] \in {"load", "store"} => ~Unfinished(c)

\* Wakeups and waiters balance: as many tasks wait, or are about to, as there are
\* completions to come.  Fails if a completion can find diskQueue empty.
WakeupsBalance ==
    Len(diskQueue) + Cardinality({c \in Clients : pc[c] \in {"link", "up", "suspend"}})
        = Len(requestQueue)
          + IF mpc = "cmd" \/ driver # NoRequest \/ sinal THEN 1 ELSE 0

\* Every call of disk_block_read and disk_block_write returns.
EveryCallReturns == \A c \in Clients : pc[c] = "down" ~> pc[c] = "user"

\* The manager ends once main has, and the program with it.
ManagerExits == system_shutdown_requested ~> mpc = "exited"

\* The operations counted by type never exceed the requests processed, at any
\* moment and however the increments of the tasks interleave: a count may be lost
\* (ReportAddsUp), none is made up or made before its request is counted as
\* processed (stats.*_operations++, executeRequest).
ReportNeverExceeds == stats["read"] + stats["write"] <= perf.processed

\* README.md:287-289: the report's operations by type add up to the requests
\* processed (printSystemStatistics).  Fails: two increments of one counter
\* interleave.
ReportAddsUp ==
    mpc = "exited" => stats["read"] + stats["write"] = perf.processed

\* README.md:74: semaphores protect the critical structures, so no scan of the
\* request queue meets a half-linked element.
NeverCrashes == ~crashed

-----------------------------------------------------------------------------
(* What the manager implements.                                            *)

\* The queue and the arm, whatever is preempted: choosing a request and removing
\* it later is one step of DiskArm.
Chosen == mpc \in {"down", "semwait", "remove"}
AbsRequest(r) == [task |-> r.task, block |-> r.block]
OneBuffer(r) == [task |-> r.task, op |-> r.op, block |-> r.block, buf |-> 1]
AbsQueue ==
    LET q == IF Chosen THEN queue_remove(requestQueue, pick) ELSE requestQueue
    IN  [i \in DOMAIN q |-> AbsRequest(q[i])]

Arm == INSTANCE DiskArm WITH
    queue <- AbsQueue,
    head <- IF next_request # NoRequest THEN next_request.block ELSE perf.head,
    current <- IF next_request # NoRequest THEN AbsRequest(next_request)
               ELSE IF driver # NoRequest THEN AbsRequest(driver)
               ELSE [task |-> "nobody", block |-> 0],
    MaxQueue <- MaxOps * Cardinality(Clients)

ImplementsArm == Arm!ASpec

\* The two lines of DiskQueues, whatever is preempted and wherever a quantum may
\* not end: the part of a call before its request is in the list and the counting
\* after it is resumed do not show, nor do the links, livre and who waits for the
\* semaphore.
Queues == INSTANCE DiskQueues WITH
    at <- [c \in Clients |->
        CASE pc[c] \in {"user", "down", "semwait", "append"} -> "user"
          [] pc[c] \in {"link", "up"} -> "up"
          [] pc[c] \in {"suspend", "blocked"} -> pc[c]
          [] pc[c] \in {"load", "store"} -> "back"],
    requestQueue <-
        LET q == IF Chosen THEN queue_remove(requestQueue, pick) ELSE requestQueue
        IN  [i \in DOMAIN q |-> OneBuffer(q[i])],
    driver <- IF next_request # NoRequest THEN OneBuffer(next_request)
              ELSE IF driver # NoRequest THEN OneBuffer(driver) ELSE NoRequest,
    removed <- mpc = "cmd" \/ driver # NoRequest,
    head <- IF next_request # NoRequest THEN next_request.block ELSE perf.head,
    NonPreemptible <- NonPreemptible \cap {"suspend"},
    Idle <- NoRequest

ImplementsQueues == Queues!DQSpec

\* The synchronous service each task is promised: the code keeps the promise under
\* FCFS, if no quantum ends between sem_up and task_suspend.
Svc == INSTANCE DiskService WITH
    call <- [c \in Clients |->
        IF pc[c] = "user" THEN [op |-> "none", block |-> 0, data |-> Blank, done |-> FALSE]
        ELSE [op |-> request[c].op, block |-> request[c].block, data |-> buffer[c],
              done |-> pc[c] \notin {"down", "semwait", "append"} /\ ~Unfinished(c)]]

ImplementsService == Svc!SvcFairSpec
=============================================================================
