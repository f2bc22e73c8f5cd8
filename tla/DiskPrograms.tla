---------------------------- MODULE DiskPrograms ----------------------------
(***************************************************************************)
(* The test programs of the disk, pingpong-disco1.c and pingpong-disco2.c, *)
(* over the disk interface as the code gives it (DiskQueues, which         *)
(* DiskManager implements under every policy and every preemption).        *)
(*                                                                         *)
(* disco1: main reads every block, then writes each with a new character.  *)
(* disco2: NUMTASKS tasks exchange the lower blocks with the upper ones.   *)
(***************************************************************************)
EXTENDS DiskQueues

CONSTANTS
    NUMTASKS,
    numblocks,
    Char,        \* what disco1 writes
    Blank        \* contents of a fresh buffer

ASSUME MoversShape ==
    /\ NUMTASKS \in Nat \ {0} /\ numblocks \in Nat
    /\ Clients = 0 .. NUMTASKS - 1 /\ Blocks = 0 .. numblocks - 1
    /\ {Char, Blank} \cap Blocks = {}

VARIABLES
    store,       \* contents of each block
    program,     \* the program that runs
    i,           \* rounds of its loop each task has behind it
    step,        \* the operation it has reached in this round
    buffer       \* its two buffers

vars == <<dqvars, store, program, i, step, buffer>>

Op(op, block, buf) == [op |-> op, block |-> block, buf |-> buf]

blocksPerTask == (numblocks \div NUMTASKS) \div 2

\* Mutant: block_orig++ is missing.
OrigStill(my, n) == my * blocksPerTask

\* block_orig and block_dest in round n.
Orig(my, n) == my * blocksPerTask + n
Dest(my, n) == numblocks - 1 - my * blocksPerTask - n

\* Mutant: the second block is read when it has been overwritten.
MoveOneBuffer(my, n) ==
    <<Op("read", Orig(my, n), 1), Op("write", Dest(my, n), 1),
      Op("read", Dest(my, n), 2), Op("write", Orig(my, n), 2)>>

\* One round of moverBody.
Move(my, n) ==
    <<Op("read", Orig(my, n), 1), Op("read", Dest(my, n), 2),
      Op("write", Dest(my, n), 1), Op("write", Orig(my, n), 2)>>

\* One round of one of main's two loops.
ReadOrWrite(n) ==
    <<IF n < numblocks THEN Op("read", n, 1) ELSE Op("write", n - numblocks, 1)>>

Body(c) == IF program = "disco1" THEN ReadOrWrite(i[c]) ELSE Move(c, i[c])

\* In disco1 the first client stands for main.
Rounds(c) ==
    CASE program = "disco2" -> blocksPerTask
      [] program = "disco1" /\ c = 0 -> 2 * numblocks
      [] OTHER -> 0

-----------------------------------------------------------------------------
\* What a task asks for when it has reached an operation (createDiskRequest).
Asked(c) ==
    LET op == Body(c)[step[c]]
    IN  [task |-> c, op |-> op.op, block |-> op.block, buf |-> op.buf]

\* disk_block_read or disk_block_write is called; disco1 first fills its buffer.
Call(c) ==
    /\ i[c] < Rounds(c)
    /\ Asked(c).block \in Blocks /\ Ask(Asked(c))
    /\ buffer' = IF program = "disco1" /\ Asked(c).op = "write"
                 THEN [buffer EXCEPT ![c][1] = Char] ELSE buffer
    /\ UNCHANGED <<store, program, i, step>>

\* The block is transferred from or to the buffer as it is now.
Serve ==
    /\ Done
    /\ IF driver.op = "write"
       THEN /\ store' = [store EXCEPT ![driver.block] = buffer[driver.task][driver.buf]]
            /\ UNCHANGED buffer
       ELSE /\ buffer' = [buffer EXCEPT ![driver.task][driver.buf] = store[driver.block]]
            /\ UNCHANGED store
    /\ UNCHANGED <<program, i, step>>

\* The call returns and the task goes on to its next operation, or round.
Back(c) ==
    /\ Return(c)
    /\ IF step[c] < Len(Body(c))
       THEN step' = [step EXCEPT ![c] = @ + 1] /\ UNCHANGED i
       ELSE step' = [step EXCEPT ![c] = 1] /\ i' = [i EXCEPT ![c] = @ + 1]
    /\ UNCHANGED <<store, program, buffer>>

\* Steps of the interface and the manager that the program does not see.
Unseen ==
    /\ \/ \E c \in Clients : Up(c) \/ Suspend(c)
       \/ \E k \in DOMAIN requestQueue : Take(k)
       \/ Start \/ Complete
    /\ UNCHANGED <<store, program, i, step, buffer>>

Finished == \A c \in Clients : i[c] = Rounds(c)

Init ==
    /\ DQInit
    /\ program \in {"disco1", "disco2"}
    /\ store = [b \in Blocks |-> b]
    /\ i = [c \in Clients |-> 0] /\ step = [c \in Clients |-> 1]
    /\ buffer = [c \in Clients |-> [n \in {1, 2} |-> Blank]]

Next ==
    \/ \E c \in Clients : Call(c) \/ Back(c)
    \/ Serve \/ Unseen
    \/ Finished /\ UNCHANGED vars

Spec == Init /\ [][Next]_vars
-----------------------------------------------------------------------------
\* No block's contents are lost while the movers work: at any time they are on
\* the disk or in the hands of a task (pingpong-disco2.c:39-85).  The code gives this
\* under FCFS and if no quantum ends between sem_up and task_suspend; under CSCAN it
\* fails, since the completion resumes the head of diskQueue (ppos_disk.c:296) and a
\* task may write a buffer it has not read yet.
NothingLost == program = "disco2" => \A b \in Blocks :
    \/ \E d \in Blocks : store[d] = b
    \/ \E c \in Clients, n \in {1, 2} : buffer[c][n] = b

\* The blocks the movers exchange.
Moved(b) == \E c \in Clients, n \in 0 .. blocksPerTask - 1 : b \in {Orig(c, n), Dest(c, n)}

\* At the end disco1 has written every block, and disco2 has put the blocks it
\* moves in reverse order, each by one task, and left the others alone: under FCFS
\* and with no quantum that ends between sem_up and task_suspend, as for NothingLost.
DiskAtTheEnd == Finished => \A b \in Blocks :
    store[b] = IF program = "disco1" THEN Char
               ELSE IF Moved(b) THEN numblocks - 1 - b ELSE b
=============================================================================
