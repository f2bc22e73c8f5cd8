----------------------------- MODULE DiskQueues -----------------------------
(***************************************************************************)
(* disk_block_read and disk_block_write as the code gives them, with the   *)
(* manager: two lines, one of requests and one of sleeping tasks.  The     *)
(* policy takes a request out of the one, and when the disk has signalled  *)
(* the first of the other is resumed, whoever has asked for what is done.  *)
(*                                                                         *)
(* A step here is several of DiskManager: the links of the list, the flag  *)
(* livre, the counters and who waits for semaforo_queue are out of sight.  *)
(* What is left is what a program can tell.                                *)
(***************************************************************************)
EXTENDS DiskPolicy

CONSTANTS
    Clients,         \* tasks that use the disk
    Blocks,          \* block numbers, 0 .. numBlocks - 1
    Policy,          \* SCHEDULER_DEFAULT of the build
    NonPreemptible,  \* where no quantum runs out: {} or {"suspend"}
    Idle             \* no request

VARIABLES
    at,              \* where in disk_block_read or disk_block_write a task is
    requestQueue,    \* pending requests, oldest first
    diskQueue,       \* suspended tasks, oldest first
    driver,          \* request the manager has chosen or the disk works on, or Idle
    removed,         \* that request is out of the list, under semaforo_queue
    sinal,           \* the disk has signalled, the manager has not looked yet
    head             \* perf_tracker.current_head_position

dqvars == <<at, requestQueue, diskQueue, driver, removed, sinal, head>>

ASSUME QueuesShape ==
    /\ Blocks \subseteq Nat /\ 0 \in Blocks
    /\ Policy \in Policies
    /\ NonPreemptible \subseteq {"suspend"}

\* The buffer is the caller's first or its second.
Request == [task : Clients, op : {"read", "write"}, block : Blocks, buf : {1, 2}]

ASSUME IdleIsNoRequest == Idle \notin Request

Points == {"user", "up", "suspend", "blocked", "back"}

Goto(c, point) == at' = [at EXCEPT ![c] = point]

\* No other task is at a point where it keeps the CPU.
CPUFree(c) == \A d \in Clients \ {c} : at[d] \notin NonPreemptible
CPUFreeForManager == \A d \in Clients : at[d] \notin NonPreemptible

-----------------------------------------------------------------------------
\* semaforo_queue is free: no task is between queue_append and sem_up.
ListFree == \A c \in Clients : at[c] # "up"

\* sem_down(&disk.semaforo_queue) has returned: the request joins the list.
Ask(r) ==
    /\ at[r.task] = "user" /\ CPUFree(r.task)
    /\ ListFree
    /\ requestQueue' = Append(requestQueue, r)
    /\ Goto(r.task, "up")
    /\ UNCHANGED <<diskQueue, driver, removed, sinal, head>>

\* sem_up(&disk.semaforo_queue).
Up(c) ==
    /\ at[c] = "up" /\ CPUFree(c)
    /\ Goto(c, "suspend")
    /\ UNCHANGED <<requestQueue, diskQueue, driver, removed, sinal, head>>

\* task_suspend(taskExec, &disk.diskQueue); task_yield().
Suspend(c) ==
    /\ at[c] = "suspend" /\ CPUFree(c)
    /\ diskQueue' = Append(diskQueue, c)
    /\ Goto(c, "blocked")
    /\ UNCHANGED <<requestQueue, driver, removed, sinal, head>>

\* The resumed task counts its operation and returns.
Return(c) ==
    /\ at[c] = "back" /\ CPUFree(c)
    /\ Goto(c, "user")
    /\ UNCHANGED <<requestQueue, diskQueue, driver, removed, sinal, head>>

\* disk_scheduler chooses the request at position k, whoever edits the list.
Take(k) ==
    /\ CPUFreeForManager
    /\ driver = Idle /\ ~sinal
    /\ disk_scheduler(Policy, requestQueue, head, k)
    /\ driver' = requestQueue[k]
    /\ head' = requestQueue[k].block
    /\ requestQueue' = queue_remove(requestQueue, k)
    /\ UNCHANGED <<at, diskQueue, removed, sinal>>

\* The manager has semaforo_queue and removes what it has chosen; disk_cmd follows.
Start ==
    /\ CPUFreeForManager /\ ListFree
    /\ driver # Idle /\ ~removed
    /\ removed' = TRUE
    /\ UNCHANGED <<at, requestQueue, diskQueue, driver, sinal, head>>

\* The disk is done and signals, whoever has the CPU.
Done ==
    /\ removed
    /\ driver' = Idle /\ removed' = FALSE
    /\ sinal' = TRUE
    /\ UNCHANGED <<at, requestQueue, diskQueue, head>>

\* processCompletionEvents.
Complete ==
    /\ CPUFreeForManager
    /\ sinal
    /\ sinal' = FALSE
    /\ IF diskQueue = <<>> THEN UNCHANGED <<at, diskQueue>>
       ELSE diskQueue' = Tail(diskQueue) /\ Goto(Head(diskQueue), "back")
    /\ UNCHANGED <<requestQueue, driver, removed, head>>

DQInit ==
    /\ at = [c \in Clients |-> "user"]
    /\ requestQueue = <<>> /\ diskQueue = <<>>
    /\ driver = Idle /\ removed = FALSE /\ sinal = FALSE /\ head = 0

DQNext ==
    \/ \E r \in Request : Ask(r)
    \/ \E c \in Clients : Up(c) \/ Suspend(c) \/ Return(c)
    \/ \E k \in DOMAIN requestQueue : Take(k)
    \/ Start \/ Done \/ Complete

DQSpec == DQInit /\ [][DQNext]_dqvars
=============================================================================
