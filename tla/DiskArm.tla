------------------------------- MODULE DiskArm -------------------------------
(***************************************************************************)
(* The disk seen from its request queue: requests come in, the manager     *)
(* takes one when the disk is free (disk_scheduler), the arm moves to its  *)
(* block, the driver completes it.  This is what DiskManager implements,   *)
(* with its semaphores, its signal and its preemptions out of sight.       *)
(***************************************************************************)
EXTENDS DiskPolicy

CONSTANTS
    Clients,     \* tasks that use the disk
    Blocks,      \* block numbers, 0 .. numBlocks - 1
    Policy,      \* the policy compiled in
    MaxQueue     \* bound: pending requests

ASSUME DiskShape == Blocks \subseteq Nat /\ 0 \in Blocks /\ Policy \in Policies
ASSUME QueueBound == MaxQueue \in Nat

Nobody == "nobody"
ASSUME NobodyIsNoClient == Nobody \notin Clients

VARIABLES
    queue,       \* pending requests, oldest first
    head,        \* block the arm is on
    current      \* request the disk works on, or Idle

avars == <<queue, head, current>>

Request == [task : Clients, block : Blocks]
Idle == [task |-> Nobody, block |-> 0]

Submit(c, b) ==
    /\ Len(queue) < MaxQueue
    /\ queue' = Append(queue, [task |-> c, block |-> b])
    /\ UNCHANGED <<head, current>>

\* The request its policy prefers leaves the queue and the arm goes there.
Take(i) ==
    /\ disk_scheduler(Policy, queue, head, i)
    /\ current' = queue[i]
    /\ head' = queue[i].block
    /\ queue' = queue_remove(queue, i)

\* processNewRequests on a free disk.
Serve(i) == current = Idle /\ Take(i)

Complete ==
    /\ current # Idle
    /\ current' = Idle
    /\ UNCHANGED <<queue, head>>

AInit == queue = <<>> /\ head = 0 /\ current = Idle

ANext ==
    \/ \E c \in Clients, b \in Blocks : Submit(c, b)
    \/ \E i \in DOMAIN queue : Serve(i)
    \/ Complete

ASpec == AInit /\ [][ANext]_avars

-----------------------------------------------------------------------------
ATypeOK ==
    /\ queue \in Seq(Request) /\ Len(queue) <= MaxQueue
    /\ head \in Blocks
    /\ current \in Request \cup {Idle}
    /\ current # Idle => current.block = head

\* The arm never travels over a block somebody waits for without serving it: under
\* SSTF in neither direction, under CSCAN on its way up (sstf_scheduler,
\* cscan_scheduler and the head position they compare with).
NothingPassedOver ==
    [][\A i \in DOMAIN queue :
          LET b == queue[i].block
          IN  /\ Policy \in {"SSTF", "CSCAN"} => ~(head < b /\ b < head')
              /\ Policy = "SSTF" => ~(head' < b /\ b < head)]_avars
=============================================================================
