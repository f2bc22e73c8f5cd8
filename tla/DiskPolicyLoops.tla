--------------------------- MODULE DiskPolicyLoops ---------------------------
(***************************************************************************)
(* The loops of sstf_scheduler and cscan_scheduler, one iteration per      *)
(* value of the function, to be compared with what DiskPolicy says they    *)
(* choose.                                                                 *)
(***************************************************************************)
EXTENDS DiskArm

INT_MAX == 2147483647

\* A block number is an int below numBlocks, which is one too.
ASSUME BlocksFit == \A b \in Blocks : b < INT_MAX

\* The position the k-th iteration looks at: the head, then the back links.
Visit(q, k) == IF k = 1 THEN 1 ELSE Len(q) + 2 - k

SstfBegin == [best |-> 0, minimal |-> INT_MAX]

SstfStep(q, h, k, so_far) ==
    LET seek_distance == Abs(q[Visit(q, k)].block - h)
    IN  IF seek_distance < so_far.minimal
        THEN [best |-> Visit(q, k), minimal |-> seek_distance]
        ELSE so_far

SstfLoop(q, h) ==
    LET loop[k \in 0 .. Len(q)] ==
            IF k = 0 THEN SstfBegin ELSE SstfStep(q, h, k, loop[k - 1])
    IN  loop[Len(q)].best

CscanBegin == [forward |-> 0, minForward |-> INT_MAX, wrap |-> 0, minWrap |-> INT_MAX]

CscanStep(q, h, k, so_far) ==
    LET at == Visit(q, k)
        position == q[at].block
    IN  IF position >= h /\ position - h < so_far.minForward
        THEN [so_far EXCEPT !.forward = at, !.minForward = position - h]
        ELSE IF position < h /\ position < so_far.minWrap
        THEN [so_far EXCEPT !.wrap = at, !.minWrap = position]
        ELSE so_far

CscanLoop(q, h) ==
    LET loop[k \in 0 .. Len(q)] ==
            IF k = 0 THEN CscanBegin ELSE CscanStep(q, h, k, loop[k - 1])
        result == loop[Len(q)]
    IN  IF result.forward # 0 THEN result.forward ELSE result.wrap

\* On every queue and head position that occurs, each loop ends on the one
\* request DiskPolicy's definition allows (sstf_scheduler, cscan_scheduler).
LoopsAgree ==
    queue # <<>> =>
        /\ {i \in DOMAIN queue : sstf(queue, head, i)} = {SstfLoop(queue, head)}
        /\ {i \in DOMAIN queue : cscan(queue, head, i)} = {CscanLoop(queue, head)}
=============================================================================
