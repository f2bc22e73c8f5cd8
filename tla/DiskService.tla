----------------------------- MODULE DiskService -----------------------------
(***************************************************************************)
(* What disk_block_read and disk_block_write promise a task in the         *)
(* comments before them (ppos_disk.c:160-174, 206-215): the call returns   *)
(* after its block has been transferred, once, between call and return.    *)
(*                                                                         *)
(* The code resumes the first task of diskQueue (ppos_disk.c:295-298) and  *)
(* keeps this promise only under FCFS, when no quantum ends between sem_up *)
(* and task_suspend.  The default policy of the code is CSCAN: what it     *)
(* gives under any policy is DiskQueues.                                   *)
(***************************************************************************)
CONSTANTS
    Clients,
    Blocks,
    Blank        \* initial contents of every block and of a fresh buffer

VARIABLES
    store,       \* contents of each block
    call         \* each task's call in progress

svcvars == <<store, call>>

NoCall == [op |-> "none", block |-> 0, data |-> Blank, done |-> FALSE]

\* A task calls, with what it writes, or an empty buffer.
Invoke(c, op, b, data) ==
    /\ call[c] = NoCall
    /\ call' = [call EXCEPT ![c] = [op |-> op, block |-> b, done |-> FALSE,
                                    data |-> IF op = "write" THEN data ELSE Blank]]
    /\ UNCHANGED store

\* The transfer takes place.
Transfer(c) ==
    /\ call[c].op # "none" /\ ~call[c].done
    /\ IF call[c].op = "write"
       THEN /\ store' = [store EXCEPT ![call[c].block] = call[c].data]
            /\ call' = [call EXCEPT ![c].done = TRUE]
       ELSE /\ UNCHANGED store
            /\ call' = [call EXCEPT ![c].done = TRUE, ![c].data = store[call[c].block]]

\* After the caller's own transfer, not another's.
Return(c) ==
    /\ call[c].done
    /\ call' = [call EXCEPT ![c] = NoCall]
    /\ UNCHANGED store

SvcInit ==
    /\ store = [b \in Blocks |-> Blank]
    /\ call = [c \in Clients |-> NoCall]

\* What a task writes here is its own mark.
SvcNext ==
    \E c \in Clients :
        \/ \E op \in {"read", "write"}, b \in Blocks : Invoke(c, op, b, c)
        \/ Transfer(c) \/ Return(c)

SvcFairness == \A c \in Clients : WF_svcvars(Transfer(c)) /\ WF_svcvars(Return(c))

SvcSpec == SvcInit /\ [][SvcNext]_svcvars

SvcFairSpec == SvcSpec /\ SvcFairness
=============================================================================
