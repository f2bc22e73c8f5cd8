----------------------------- MODULE DiskPolicy ------------------------------
(***************************************************************************)
(* The disk schedulers of ppos_disk.c: which pending request the manager   *)
(* takes next.  A queue is the list of pending requests, oldest first, and *)
(* a choice is a position in it.                                           *)
(*                                                                         *)
(* diskrequest_t declares next before prev and queue_t prev before next,   *)
(* so `current->next' of the schedulers is the back link of the list: they *)
(* visit the head, then the newest request, and so on back to the second   *)
(* oldest.  The comparisons are strict, so the first one visited wins.     *)
(***************************************************************************)
EXTENDS Integers, Sequences, SequencesExt

Policies == {"FCFS", "SSTF", "CSCAN"}

Abs(n) == IF n < 0 THEN -n ELSE n

VisitedBefore(i, j) == j # 1 /\ (i = 1 \/ i > j)

\* Position i has the smallest key of the positions in S, and is the first
\* visited of those that share it.
FirstLeast(S, key(_), i) ==
    /\ i \in S
    /\ \A j \in S \ {i} :
          \/ key(i) < key(j)
          \/ key(i) = key(j) /\ VisitedBefore(i, j)

fcfs(q, i) == q # <<>> /\ i = 1

sstf(q, head, i) ==
    LET seek(j) == Abs(q[j].block - head) IN FirstLeast(DOMAIN q, seek, i)

\* Mutant: a request under the head counts as passed.
ForwardStrict(q, head) == {j \in DOMAIN q : q[j].block > head}

\* The nearest request ahead of the head or under it, else the lowest block.
Forward(q, head) == {j \in DOMAIN q : q[j].block >= head}

\* Mutant: `distance > min', the farthest request ahead.
cscanFarthest(q, head, i) ==
    LET near(j) == q[j].block
        far(j) == -q[j].block
    IN  IF Forward(q, head) # {} THEN FirstLeast(Forward(q, head), far, i)
        ELSE FirstLeast(DOMAIN q, near, i)

\* Mutant: the wrap goes to the nearest request behind, as a SCAN would.
cscanTurnsBack(q, head, i) ==
    LET near(j) == Abs(q[j].block - head)
    IN  IF Forward(q, head) # {} THEN FirstLeast(Forward(q, head), near, i)
        ELSE FirstLeast(DOMAIN q, near, i)

cscan(q, head, i) ==
    LET block(j) == q[j].block
    IN  IF Forward(q, head) # {} THEN FirstLeast(Forward(q, head), block, i)
        ELSE FirstLeast(DOMAIN q, block, i)

\* disk_scheduler: the policy compiled in picks position i of q.
disk_scheduler(policy, q, head, i) ==
    \/ policy = "FCFS" /\ fcfs(q, i)
    \/ policy = "SSTF" /\ sstf(q, head, i)
    \/ policy = "CSCAN" /\ cscan(q, head, i)

\* queue_remove: the list without its i-th element.
queue_remove(q, i) == RemoveAt(q, i)
=============================================================================
