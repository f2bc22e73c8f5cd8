--------------------------- MODULE DiskArmProofs ---------------------------
(***************************************************************************)
(* Machine-checked facts about the disk policies, for every number of      *)
(* blocks, tasks and pending requests.                                     *)
(***************************************************************************)
EXTENDS CscanSweep, DiskPolicyLoops, ListsAndSums

-----------------------------------------------------------------------------
(* What the operators return.                                              *)

\* The blocks of a list of requests are numbers.
LEMMA BlocksOf ==
    ASSUME NEW q \in Seq(Request)
    PROVE  /\ Len(q) \in Nat /\ DOMAIN q = 1 .. Len(q)
           /\ \A j \in 1 .. Len(q) : q[j] \in Request /\ q[j].block \in Nat
<1>1. \A r \in Request : r.block \in Nat
  BY DiskShape DEF Request
<1>2. \A j \in 1 .. Len(q) : q[j] \in Request
  BY ElementOfSeq
<1> QED
  BY <1>1, <1>2, LenProperties

\* cscan_scheduler: the nearest request ahead, and with none ahead the lowest.
LEMMA CscanChoice ==
    ASSUME NEW q \in Seq(Request), NEW h \in Nat, NEW i, cscan(q, h, i)
    PROVE  /\ i \in 1 .. Len(q)
           /\ q[i].block < h => \A j \in 1 .. Len(q) : q[j].block < h
           /\ \A j \in 1 .. Len(q) :
                 q[j].block >= h \/ q[i].block < h => q[i].block <= q[j].block
<1>1. DOMAIN q = 1 .. Len(q) /\ \A j \in 1 .. Len(q) : q[j].block \in Nat
  BY BlocksOf
<1>2. CASE Forward(q, h) # {}
  <2>1. i \in Forward(q, h) /\ \A j \in Forward(q, h) : q[i].block <= q[j].block
    BY <1>1, <1>2 DEF cscan, FirstLeast, Forward
  <2> QED
    BY <1>1, <2>1 DEF Forward
<1>3. CASE Forward(q, h) = {}
  <2>1. i \in DOMAIN q /\ \A j \in DOMAIN q : q[i].block <= q[j].block
    BY <1>1, <1>3 DEF cscan, FirstLeast
  <2> QED
    BY <1>1, <1>3, <2>1 DEF Forward
<1> QED
  BY <1>2, <1>3

\* sstf_scheduler: no request is nearer to the head.
LEMMA SstfChoice ==
    ASSUME NEW q \in Seq(Request), NEW h \in Nat, NEW i, sstf(q, h, i)
    PROVE  /\ i \in 1 .. Len(q)
           /\ \A j \in 1 .. Len(q) : Abs(q[i].block - h) <= Abs(q[j].block - h)
<1>1. DOMAIN q = 1 .. Len(q) /\ \A j \in 1 .. Len(q) : q[j].block \in Nat
  BY BlocksOf
<1> DEFINE seek(j) == Abs(q[j].block - h)
<1>2. \A j \in DOMAIN q : seek(j) \in Nat
  BY <1>1 DEF Abs
<1>3. /\ i \in DOMAIN q
      /\ \A j \in DOMAIN q \ {i} : seek(i) < seek(j) \/ seek(i) = seek(j)
  BY DEF sstf, FirstLeast
<1> HIDE DEF seek
<1>4. \A j \in DOMAIN q : seek(i) <= seek(j)
  BY <1>2, <1>3
<1> QED
  BY <1>1, <1>3, <1>4 DEF seek

\* Every policy chooses a request of the list.
LEMMA ChoiceInQueue ==
    ASSUME NEW q \in Seq(Request), NEW h \in Nat, NEW i, disk_scheduler(Policy, q, h, i)
    PROVE  i \in 1 .. Len(q)
<1>1. CASE Policy = "FCFS"
  BY <1>1 DEF disk_scheduler, fcfs
<1>2. CASE Policy = "SSTF"
  BY <1>2, SstfChoice DEF disk_scheduler
<1>3. CASE Policy = "CSCAN"
  BY <1>3, CscanChoice DEF disk_scheduler
<1> QED
  BY <1>1, <1>2, <1>3, DiskShape DEF Policies

-----------------------------------------------------------------------------
(* The arm.                                                                *)

LEMMA TakeFacts ==
    ASSUME ATypeOK, NEW i, Take(i)
    PROVE  /\ i \in 1 .. Len(queue)
           /\ queue[i] \in Request
           /\ queue' \in Seq(Request)
           /\ Len(queue') = Len(queue) - 1
           /\ \A j \in 1 .. Len(queue) - 1 :
                 queue'[j] = IF j < i THEN queue[j] ELSE queue[j + 1]
<1>1. queue \in Seq(Request) /\ head \in Nat
  BY DiskShape DEF ATypeOK
<1>2. i \in 1 .. Len(queue) /\ queue' = queue_remove(queue, i)
  BY <1>1, ChoiceInQueue DEF Take
<1>3. queue[i] \in Request
  BY <1>1, <1>2, BlocksOf
<1> QED
  BY <1>1, <1>2, <1>3, RemoveFacts DEF queue_remove

LEMMA ATypeInv == ATypeOK /\ [ANext]_avars => ATypeOK'
<1> SUFFICES ASSUME ATypeOK, [ANext]_avars PROVE ATypeOK'
  OBVIOUS
<1> USE DiskShape, QueueBound, NobodyIsNoClient
<1>1. ASSUME NEW c \in Clients, NEW b \in Blocks, Submit(c, b) PROVE ATypeOK'
  <2>1. [task |-> c, block |-> b] \in Request
    BY DEF Request
  <2> QED
    BY <1>1, <2>1 DEF Submit, ATypeOK
<1>2. ASSUME NEW i \in DOMAIN queue, Serve(i) PROVE ATypeOK'
  <2>1. Take(i)
    BY <1>2 DEF Serve
  <2>2. queue[i].block \in Blocks
    BY <2>1, TakeFacts DEF Request
  <2> QED
    BY <2>1, <2>2, TakeFacts DEF Take, ATypeOK
<1>3. CASE Complete
  BY <1>3 DEF Complete, ATypeOK
<1>4. CASE UNCHANGED avars
  BY <1>4 DEF avars, ATypeOK
<1> QED
  BY <1>1, <1>2, <1>3, <1>4 DEF ANext

LEMMA AInitType == AInit => ATypeOK
  BY DiskShape, QueueBound DEF AInit, ATypeOK

\* The arm stays on the disk, on the block of the request it works on, and the
\* list within its bound (processNewRequests, updatePerformanceMetrics).
THEOREM ArmTypeCorrect == ASpec => []ATypeOK
  BY AInitType, ATypeInv, PTL DEF ASpec

LEMMA TakePassesNothing ==
    ASSUME ATypeOK, NEW i, Take(i), NEW j \in DOMAIN queue
    PROVE  LET b == queue[j].block
           IN  /\ Policy \in {"SSTF", "CSCAN"} => ~(head < b /\ b < head')
               /\ Policy = "SSTF" => ~(head' < b /\ b < head)
<1>1. queue \in Seq(Request) /\ head \in Nat /\ j \in 1 .. Len(queue)
  BY DiskShape DEF ATypeOK
<1>2. head' = queue[i].block /\ i \in 1 .. Len(queue)
  BY TakeFacts DEF Take
<1>3. queue[j].block \in Nat /\ queue[i].block \in Nat
  BY <1>1, <1>2, BlocksOf
<1>4. CASE Policy = "CSCAN"
  <2>1. cscan(queue, head, i)
    BY <1>4 DEF Take, disk_scheduler
  <2> QED
    BY <1>1, <1>2, <1>3, <1>4, <2>1, CscanChoice
<1>5. CASE Policy = "SSTF"
  <2>1. sstf(queue, head, i)
    BY <1>5 DEF Take, disk_scheduler
  <2>2. Abs(queue[i].block - head) <= Abs(queue[j].block - head)
    BY <1>1, <2>1, SstfChoice
  <2> QED
    BY <1>1, <1>2, <1>3, <1>5, <2>2 DEF Abs
<1> QED
  BY <1>4, <1>5

\* Under SSTF the arm serves whatever lies in its way, and under CSCAN on its way
\* up, for every list of requests (sstf_scheduler, cscan_scheduler).
THEOREM ServedOnTheWay == ASpec => NothingPassedOver
<1> DEFINE Passes ==
        \A i \in DOMAIN queue :
          LET b == queue[i].block
          IN  /\ Policy \in {"SSTF", "CSCAN"} => ~(head < b /\ b < head')
              /\ Policy = "SSTF" => ~(head' < b /\ b < head)
<1>1. ATypeOK /\ [ANext]_avars => [Passes]_avars
  <2> SUFFICES ASSUME ATypeOK, [ANext]_avars PROVE [Passes]_avars
    OBVIOUS
  <2>1. CASE head' = head
    <3>1. head \in Nat /\ \A i \in DOMAIN queue : queue[i].block \in Nat
      BY DiskShape, BlocksOf DEF ATypeOK
    <3> QED
      BY <2>1, <3>1
  <2>2. ASSUME NEW i \in DOMAIN queue, Serve(i) PROVE Passes
    BY <2>2, TakePassesNothing DEF Serve
  <2> QED
    BY <2>1, <2>2 DEF ANext, Submit, Complete, avars
<1> QED
  BY <1>1, ArmTypeCorrect, PTL DEF ASpec, NothingPassedOver

-----------------------------------------------------------------------------
(* The sweeps of CSCAN.                                                    *)

SweepInv ==
    /\ ATypeOK
    /\ wraps \in Seq(Nat) /\ Len(wraps) = Len(queue)
    /\ OneWrapPerWait

LEMMA SweepStep == SweepInv /\ [SNext]_svars => SweepInv'
<1> SUFFICES ASSUME SweepInv, [SNext]_svars PROVE SweepInv'
  OBVIOUS
<1> USE DEF SweepInv
<1>0. queue \in Seq(Request) /\ head \in Nat
      /\ Len(queue) \in Nat /\ DOMAIN queue = 1 .. Len(queue)
      /\ \A j \in 1 .. Len(queue) : queue[j].block \in Nat
  BY DiskShape, BlocksOf DEF ATypeOK
<1>1. ATypeOK'
  <2>1. [ANext]_avars
    BY DEF SNext, SSubmit, SServe, ANext, svars, avars
  <2> QED
    BY <2>1, ATypeInv
<1>2. ASSUME NEW c \in Clients, NEW b \in Blocks, SSubmit(c, b) PROVE SweepInv'
  <2>1. /\ queue' = Append(queue, [task |-> c, block |-> b])
        /\ wraps' = Append(wraps, 0) /\ head' = head
    BY <1>2 DEF SSubmit, Submit
  <2>2. wraps' \in Seq(Nat) /\ Len(wraps') = Len(queue')
    BY <1>0, <2>1
  <2>3. OneWrapPerWait'
    BY <1>0, <2>1, <2>2 DEF OneWrapPerWait
  <2> QED
    BY <1>1, <2>2, <2>3
<1>3. ASSUME NEW i \in DOMAIN queue, SServe(i) PROVE SweepInv'
  <2> DEFINE n == Len(queue)
             more == IF head' < head THEN 1 ELSE 0
  <2>1. Take(i)
    BY <1>3 DEF SServe, Serve
  <2>2. /\ i \in 1 .. n /\ Len(queue') = n - 1 /\ n \in Nat
        /\ queue' \in Seq(Request)
        /\ \A j \in 1 .. n - 1 :
              queue'[j] = IF j < i THEN queue[j] ELSE queue[j + 1]
    BY <1>0, <1>1, <2>1, TakeFacts
  <2>3. wraps' = [j \in 1 .. n - 1 |->
                    IF j < i THEN wraps[j] + more ELSE wraps[j + 1] + more]
    BY <1>3 DEF SServe
  <2>4. \A j \in 1 .. n : wraps[j] \in Nat
    BY <1>0
  <2>5. more \in {0, 1}
    OBVIOUS
  <2>6. wraps' \in [1 .. n - 1 -> Nat]
    <3> HIDE DEF more, n
    <3>1. \A j \in 1 .. n - 1 :
             /\ wraps[j] + more \in Nat
             /\ wraps[j + 1] + more \in Nat
      BY <2>2, <2>4, <2>5
    <3> QED
      BY <2>3, <3>1
  <2>7. wraps' \in Seq(Nat) /\ Len(wraps') = Len(queue')
    <3> HIDE DEF n
    <3> QED
      BY <2>2, <2>6
  <2>8. ASSUME Policy = "CSCAN", NEW j \in 1 .. n, j # i
        PROVE  /\ wraps[j] + more <= 1
               /\ wraps[j] + more = 1 => head' <= queue[j].block
    <3>1. cscan(queue, head, i) /\ head' = queue[i].block
      BY <2>1, <2>8 DEF Take, disk_scheduler
    <3>2. /\ head' < head => \A k \in 1 .. n : queue[k].block < head
          /\ queue[j].block >= head \/ head' < head => head' <= queue[j].block
      BY <1>0, <3>1, CscanChoice
    <3>3. wraps[j] <= 1 /\ (wraps[j] = 1 => head <= queue[j].block)
      BY <1>0, <2>8 DEF OneWrapPerWait
    <3>4. head' \in Nat
      BY <1>0, <2>2, <3>1
    <3> QED
      BY <1>0, <2>4, <2>8, <3>2, <3>3, <3>4
  <2>9. OneWrapPerWait'
    <3> SUFFICES ASSUME Policy = "CSCAN", NEW j \in 1 .. n - 1
                 PROVE  /\ wraps'[j] <= 1
                        /\ wraps'[j] = 1 => head' <= queue'[j].block
      BY <2>2 DEF OneWrapPerWait
    <3>1. CASE j < i
      <4>1. wraps'[j] = wraps[j] + more /\ queue'[j] = queue[j]
            /\ j \in 1 .. n /\ j # i
        BY <2>2, <2>3, <3>1
      <4> QED
        BY <2>8, <4>1
    <3>2. CASE ~(j < i)
      <4>1. wraps'[j] = wraps[j + 1] + more /\ queue'[j] = queue[j + 1]
            /\ j + 1 \in 1 .. n /\ j + 1 # i
        BY <2>2, <2>3, <3>2
      <4> QED
        BY <2>8, <4>1
    <3> QED
      BY <3>1, <3>2
  <2> QED
    BY <1>1, <2>7, <2>9
<1>4. CASE Complete /\ UNCHANGED wraps
  BY <1>1, <1>4 DEF Complete, OneWrapPerWait
<1>5. CASE UNCHANGED svars
  BY <1>1, <1>5 DEF svars, OneWrapPerWait
<1> QED
  BY <1>2, <1>3, <1>4, <1>5 DEF SNext

\* CSCAN lets the arm go back at most once while a request waits, whatever arrives
\* in the meantime (cscan_scheduler).
THEOREM OneWrap == SSpec => []OneWrapPerWait
<1>1. SInit => SweepInv
  BY AInitType DEF SInit, AInit, SweepInv, OneWrapPerWait
<1> QED
  BY <1>1, SweepStep, PTL DEF SSpec, SweepInv

-----------------------------------------------------------------------------
(* The loops of the code.                                                  *)

LEMMA IntMax == INT_MAX \in Nat \ {0}
  BY SMT DEF INT_MAX

\* The iterations visit every request once, in the order that decides ties.
LEMMA VisitsAll ==
    ASSUME NEW q \in Seq(Request)
    PROVE  /\ \A k \in 1 .. Len(q) : Visit(q, k) \in 1 .. Len(q)
           /\ \A i \in 1 .. Len(q) : \E k \in 1 .. Len(q) : i = Visit(q, k)
           /\ \A k, j \in 1 .. Len(q) :
                 /\ k # j => Visit(q, k) # Visit(q, j)
                 /\ VisitedBefore(Visit(q, k), Visit(q, j)) <=> k < j
<1> DEFINE n == Len(q)
<1>1. n \in Nat
  BY BlocksOf
<1> HIDE DEF n
<1>2. \A k \in 1 .. n : Visit(q, k) = IF k = 1 THEN 1 ELSE n + 2 - k
  BY DEF Visit, n
<1>3. ASSUME NEW i \in 1 .. n PROVE \E k \in 1 .. n : i = Visit(q, k)
  <2>1. CASE i = 1
    BY <1>1, <1>2, <2>1
  <2>2. CASE i # 1
    <3>1. n + 2 - i \in 1 .. n /\ n + 2 - i # 1
      BY <1>1, <2>2
    <3>2. Visit(q, n + 2 - i) = i
      BY <1>1, <1>2, <3>1
    <3> QED
      BY <3>1, <3>2
  <2> QED
    BY <2>1, <2>2
<1>4. \A k \in 1 .. n : Visit(q, k) \in 1 .. n
  BY <1>1, <1>2
<1>5. ASSUME NEW k \in 1 .. n, NEW j \in 1 .. n
      PROVE  /\ k # j => Visit(q, k) # Visit(q, j)
             /\ VisitedBefore(Visit(q, k), Visit(q, j)) <=> k < j
  <2>1. /\ Visit(q, k) = IF k = 1 THEN 1 ELSE n + 2 - k
        /\ Visit(q, j) = IF j = 1 THEN 1 ELSE n + 2 - j
    BY <1>2
  <2> QED
    BY <1>1, <2>1 DEF VisitedBefore
<1> QED
  BY <1>3, <1>4, <1>5 DEF n

\* Blocks and distances are below INT_MAX, from which the searches start.
LEMMA DistancesFit ==
    ASSUME NEW q \in Seq(Request), NEW h \in Blocks
    PROVE  /\ h \in Nat
           /\ \A k \in 1 .. Len(q) :
                LET b == q[Visit(q, k)].block
                IN  /\ b \in Nat /\ b < INT_MAX /\ b - h < INT_MAX
                    /\ Abs(b - h) \in Nat /\ Abs(b - h) < INT_MAX
<1>1. h \in Nat /\ h < INT_MAX /\ INT_MAX \in Nat
  BY DiskShape, BlocksFit, IntMax
<1>2. \A i \in 1 .. Len(q) : q[i].block \in Nat /\ q[i].block < INT_MAX
  BY DiskShape, BlocksFit, BlocksOf DEF Request
<1> SUFFICES ASSUME NEW k \in 1 .. Len(q)
             PROVE  LET b == q[Visit(q, k)].block
                    IN  /\ b \in Nat /\ b < INT_MAX /\ b - h < INT_MAX
                        /\ Abs(b - h) \in Nat /\ Abs(b - h) < INT_MAX
  BY <1>1
<1> DEFINE b == q[Visit(q, k)].block
<1>3. b \in Nat /\ b < INT_MAX
  BY <1>2, VisitsAll
<1> HIDE DEF b
<1>4. b - h < INT_MAX /\ Abs(b - h) \in Nat /\ Abs(b - h) < INT_MAX
  BY <1>1, <1>3 DEF Abs
<1> QED
  BY <1>3, <1>4 DEF b

\* The loop of sstf_scheduler, as one step after the other.
LEMMA SstfRuns ==
    ASSUME NEW q \in Seq(Request), NEW h \in Blocks
    PROVE  \E loop : /\ SstfLoop(q, h) = loop[Len(q)].best
                     /\ loop[0] = SstfBegin
                     /\ \A k \in 1 .. Len(q) :
                           loop[k] = SstfStep(q, h, k, loop[k - 1])
<1> DEFINE n == Len(q)
           State == [best : Nat, minimal : Nat]
           step == [k \in 1 .. n |-> [s \in State |-> SstfStep(q, h, k, s)]]
           loop == CHOOSE f : f = [k \in 0 .. n |->
                       IF k = 0 THEN SstfBegin ELSE SstfStep(q, h, k, f[k - 1])]
<1>1. n \in Nat /\ \A k \in 1 .. n : Visit(q, k) \in Nat
  BY VisitsAll, BlocksOf
<1>2. SstfLoop(q, h) = loop[n].best
  BY DEF SstfLoop
<1>3. SstfBegin \in State
  BY IntMax DEF SstfBegin
<1>4. step \in [1 .. n -> [State -> State]]
  <2> SUFFICES ASSUME NEW k \in 1 .. n, NEW s \in State
               PROVE  SstfStep(q, h, k, s) \in State
    OBVIOUS
  <2>1. Abs(q[Visit(q, k)].block - h) \in Nat /\ Visit(q, k) \in Nat
    BY <1>1, DistancesFit
  <2>2. [best |-> Visit(q, k), minimal |-> Abs(q[Visit(q, k)].block - h)] \in State
    BY <2>1
  <2> QED
    BY <2>2 DEF SstfStep
<1>5. \A k \in 1 .. n, s \in State : step[k][s] = SstfStep(q, h, k, s)
  OBVIOUS
<1> HIDE DEF n, State, step
<1>6. PICK f \in [0 .. n -> State] : Iterates(f, n, SstfBegin, step)
  BY <1>1, <1>3, <1>4, LoopExists
<1>7. \A k \in 0 .. n : k # 0 => k \in 1 .. n /\ f[k - 1] \in State
  BY <1>1
<1>8. f = [k \in 0 .. n |->
             IF k = 0 THEN SstfBegin ELSE SstfStep(q, h, k, f[k - 1])]
  BY <1>5, <1>6, <1>7 DEF Iterates
<1>9. loop = [k \in 0 .. n |->
                IF k = 0 THEN SstfBegin ELSE SstfStep(q, h, k, loop[k - 1])]
  BY <1>8, Zenon
<1> HIDE DEF loop
<1>10. loop[0] = SstfBegin
  <2>1. 0 \in 0 .. n
    BY <1>1
  <2> QED
    BY <1>9, <2>1, Zenon
<1>11. ASSUME NEW k \in 1 .. n PROVE loop[k] = SstfStep(q, h, k, loop[k - 1])
  <2>1. k \in 0 .. n /\ k # 0
    BY <1>1
  <2> QED
    BY <1>9, <2>1, Zenon
<1> QED
  BY <1>2, <1>10, <1>11 DEF n

\* sstf_scheduler ends on the first nearest request of those it visits.
LEMMA SstfEnds ==
    ASSUME NEW q \in Seq(Request), q # <<>>, NEW h \in Blocks
    PROVE  \E b \in 1 .. Len(q) :
              /\ SstfLoop(q, h) = Visit(q, b)
              /\ \A j \in 1 .. Len(q) :
                    LET dist(k) == Abs(q[Visit(q, k)].block - h)
                    IN  dist(b) <= dist(j) /\ (j < b => dist(b) < dist(j))
<1> DEFINE n == Len(q)
           dist(k) == Abs(q[Visit(q, k)].block - h)
<1>1. PICK loop : /\ SstfLoop(q, h) = loop[n].best
                  /\ loop[0] = SstfBegin
                  /\ \A k \in 1 .. n : loop[k] = SstfStep(q, h, k, loop[k - 1])
  BY SstfRuns
<1> DEFINE key == [k \in 1 .. n |-> dist(k)]
           at == [k \in 1 .. n |-> Visit(q, k)]
           best == [k \in 0 .. n |-> loop[k].best]
           least == [k \in 0 .. n |-> loop[k].minimal]
<1>2. n \in Nat /\ n # 0
  BY LenProperties, EmptySeq
<1>3. \A k \in 1 .. n : dist(k) \in Nat /\ dist(k) < INT_MAX
  BY DistancesFit
<1>4. ASSUME NEW k \in 1 .. n
      PROVE  IF dist(k) < loop[k - 1].minimal
             THEN loop[k].best = Visit(q, k) /\ loop[k].minimal = dist(k)
             ELSE loop[k].best = loop[k - 1].best /\ loop[k].minimal = loop[k - 1].minimal
  <2>1. loop[k] = IF dist(k) < loop[k - 1].minimal
                  THEN [best |-> Visit(q, k), minimal |-> dist(k)]
                  ELSE loop[k - 1]
    BY <1>1 DEF SstfStep
  <2> HIDE DEF dist
  <2> QED
    BY <2>1
<1>5. loop[0].best = 0 /\ loop[0].minimal = INT_MAX
  BY <1>1 DEF SstfBegin
<1> HIDE DEF dist, n
<1>6. \A k \in 1 .. n : key[k] = dist(k) /\ at[k] = Visit(q, k)
  OBVIOUS
<1>7. \A k \in 0 .. n : best[k] = loop[k].best /\ least[k] = loop[k].minimal
  OBVIOUS
<1> HIDE DEF key, at, best, least
<1>8. KeepsBest(n, 1 .. n, key, INT_MAX, at, best, least)
  <2>1. 0 \in 0 .. n /\ \A k \in 1 .. n : k \in 0 .. n /\ k - 1 \in 0 .. n
    BY <1>2
  <2>2. \A k \in 1 .. n :
           IF key[k] < least[k - 1]
           THEN best[k] = at[k] /\ least[k] = key[k]
           ELSE best[k] = best[k - 1] /\ least[k] = least[k - 1]
    BY <1>4, <1>6, <1>7, <2>1
  <2> QED
    BY <1>3, <1>5, <1>6, <1>7, <2>1, <2>2 DEF KeepsBest
<1>9. PICK b \in 1 .. n : best[n] = at[b] /\ FirstOfLeast(b, 1 .. n, key)
  <2> DEFINE S == 1 .. n
  <2>1. 1 \in S /\ S \in SUBSET (1 .. n)
    BY <1>2
  <2>2. INT_MAX \in Nat /\ n \in Nat
    BY <1>2, IntMax
  <2>3. KeepsBest(n, S, key, INT_MAX, at, best, least)
    BY <1>8
  <2> HIDE DEF S
  <2>4. S # {}
    BY <2>1
  <2>5. \E b \in S : best[n] = at[b] /\ FirstOfLeast(b, S, key)
    BY <2>1, <2>2, <2>3, <2>4, FirstMinimum
  <2> QED
    BY <2>5 DEF S
<1>10. SstfLoop(q, h) = Visit(q, b)
  <2>1. n \in 0 .. n
    BY <1>2
  <2> QED
    BY <1>1, <1>6, <1>7, <1>9, <2>1
<1>11. \A j \in 1 .. n : dist(b) <= dist(j) /\ (j < b => dist(b) < dist(j))
  BY <1>6, <1>9 DEF FirstOfLeast
<1> QED
  BY <1>10, <1>11 DEF dist, n

CscanState == [forward : Nat, minForward : Nat, wrap : Nat, minWrap : Nat]

LEMMA CscanStepType ==
    ASSUME NEW q \in Seq(Request), NEW h \in Blocks, NEW k \in 1 .. Len(q),
           NEW s \in CscanState
    PROVE  CscanStep(q, h, k, s) \in CscanState
<1> DEFINE at == Visit(q, k)
           position == q[at].block
<1>1. at \in Nat /\ position \in Nat /\ h \in Nat
  <2>1. at \in 1 .. Len(q) /\ Len(q) \in Nat
    BY VisitsAll, BlocksOf
  <2>2. position \in Nat /\ h \in Nat
    BY DistancesFit
  <2> QED
    BY <2>1, <2>2
<1>2. position >= h => position - h \in Nat
  BY <1>1
<1>3. CscanStep(q, h, k, s) =
         IF position >= h /\ position - h < s.minForward
         THEN [s EXCEPT !.forward = at, !.minForward = position - h]
         ELSE IF position < h /\ position < s.minWrap
         THEN [s EXCEPT !.wrap = at, !.minWrap = position]
         ELSE s
  BY DEF CscanStep
<1> HIDE DEF position, at
<1> QED
  BY <1>1, <1>2, <1>3 DEF CscanState

\* The loop of cscan_scheduler, as one step after the other.
LEMMA CscanRuns ==
    ASSUME NEW q \in Seq(Request), NEW h \in Blocks
    PROVE  \E loop :
              /\ CscanLoop(q, h) = IF loop[Len(q)].forward # 0 THEN loop[Len(q)].forward
                                   ELSE loop[Len(q)].wrap
              /\ loop[0] = CscanBegin
              /\ \A k \in 1 .. Len(q) : /\ loop[k] = CscanStep(q, h, k, loop[k - 1])
                                        /\ loop[k - 1] \in CscanState
<1> DEFINE n == Len(q)
           step == [k \in 1 .. n |-> [s \in CscanState |-> CscanStep(q, h, k, s)]]
           loop == CHOOSE f : f = [k \in 0 .. n |->
                       IF k = 0 THEN CscanBegin ELSE CscanStep(q, h, k, f[k - 1])]
<1>1. n \in Nat
  BY BlocksOf
<1>2. CscanLoop(q, h) = IF loop[n].forward # 0 THEN loop[n].forward ELSE loop[n].wrap
  BY DEF CscanLoop
<1>3. CscanBegin \in CscanState
  BY IntMax DEF CscanBegin, CscanState
<1>4. step \in [1 .. n -> [CscanState -> CscanState]]
  BY CscanStepType
<1>5. \A k \in 1 .. n, s \in CscanState : step[k][s] = CscanStep(q, h, k, s)
  OBVIOUS
<1> HIDE DEF n, step
<1>6. PICK f \in [0 .. n -> CscanState] : Iterates(f, n, CscanBegin, step)
  BY <1>1, <1>3, <1>4, LoopExists
<1>7. \A k \in 0 .. n : k # 0 => k \in 1 .. n /\ f[k - 1] \in CscanState
  BY <1>1
<1>8. f = [k \in 0 .. n |->
             IF k = 0 THEN CscanBegin ELSE CscanStep(q, h, k, f[k - 1])]
  BY <1>5, <1>6, <1>7 DEF Iterates
<1>9. loop = [k \in 0 .. n |->
                IF k = 0 THEN CscanBegin ELSE CscanStep(q, h, k, loop[k - 1])]
  BY <1>8, Zenon
<1> HIDE DEF loop
<1>10. loop[0] = CscanBegin
  <2>1. 0 \in 0 .. n
    BY <1>1
  <2> QED
    BY <1>9, <2>1, Zenon
<1>11. ASSUME NEW k \in 1 .. n PROVE loop[k] = CscanStep(q, h, k, loop[k - 1])
  <2>1. k \in 0 .. n /\ k # 0
    BY <1>1
  <2> QED
    BY <1>9, <2>1, Zenon
<1>12. \A k \in 0 .. n : loop[k] \in CscanState
  <2> DEFINE Good == {k \in 0 .. n : loop[k] \in CscanState}
  <2>1. 0 \in Good
    BY <1>1, <1>3, <1>10
  <2>2. ASSUME NEW k \in 1 .. n, k - 1 \in Good PROVE k \in Good
    <3>1. CscanStep(q, h, k, loop[k - 1]) \in CscanState
      BY <2>2, CscanStepType DEF n
    <3> QED
      BY <1>1, <1>11, <3>1
  <2>3. \A k \in 1 .. n : k - 1 \in Good => k \in Good
    BY <2>2
  <2> HIDE DEF Good
  <2>4. \A k \in 0 .. n : k \in Good
    BY <1>1, <2>1, <2>3, AfterEach
  <2> QED
    BY <2>4 DEF Good
<1>13. \A k \in 1 .. n : loop[k - 1] \in CscanState
  BY <1>1, <1>12
<1> QED
  BY <1>2, <1>10, <1>11, <1>13 DEF n

\* The blocks in the order of the visits, those the arm has ahead and the others.
Seen(q, h, position, ahead, behind) ==
    /\ position = [k \in 1 .. Len(q) |-> q[Visit(q, k)].block]
    /\ ahead = {k \in 1 .. Len(q) : position[k] >= h}
    /\ behind = {k \in 1 .. Len(q) : position[k] < h}

\* The half of cscan_scheduler's loop that looks for what is ahead, and the other,
\* each ends on the first and lowest of the requests it looks at.
LEMMA CscanEnds ==
    ASSUME NEW q \in Seq(Request), NEW h \in Blocks,
           NEW position, NEW ahead, NEW behind, Seen(q, h, position, ahead, behind)
    PROVE  /\ ahead # {} => \E b \in ahead : /\ CscanLoop(q, h) = Visit(q, b)
                                             /\ FirstOfLeast(b, ahead, position)
           /\ ahead = {} /\ behind # {} =>
                 \E b \in behind : /\ CscanLoop(q, h) = Visit(q, b)
                                   /\ FirstOfLeast(b, behind, position)
<1> DEFINE n == Len(q)
<1>1. PICK loop :
         /\ CscanLoop(q, h) = IF loop[n].forward # 0 THEN loop[n].forward
                              ELSE loop[n].wrap
         /\ loop[0] = CscanBegin
         /\ \A k \in 1 .. n : /\ loop[k] = CscanStep(q, h, k, loop[k - 1])
                              /\ loop[k - 1] \in CscanState
  BY CscanRuns
<1> DEFINE distance == [k \in 1 .. n |-> position[k] - h]
           at == [k \in 1 .. n |-> Visit(q, k)]
           forward == [k \in 0 .. n |-> loop[k].forward]
           minForward == [k \in 0 .. n |-> loop[k].minForward]
           wrap == [k \in 0 .. n |-> loop[k].wrap]
           minWrap == [k \in 0 .. n |-> loop[k].minWrap]
<1>2. n \in Nat /\ h \in Nat
  BY BlocksOf, DistancesFit
<1>3. \A k \in 1 .. n : /\ position[k] \in Nat /\ position[k] < INT_MAX
                        /\ position[k] - h < INT_MAX
  BY DistancesFit DEF Seen
<1>4. \A k \in 1 .. n : Visit(q, k) \in 1 .. n
  BY VisitsAll
<1>5. ASSUME NEW k \in 1 .. n
      PROVE  /\ IF position[k] >= h /\ position[k] - h < loop[k - 1].minForward
                THEN loop[k].forward = Visit(q, k) /\ loop[k].minForward = position[k] - h
                ELSE /\ loop[k].forward = loop[k - 1].forward
                     /\ loop[k].minForward = loop[k - 1].minForward
             /\ IF position[k] < h /\ position[k] < loop[k - 1].minWrap
                THEN loop[k].wrap = Visit(q, k) /\ loop[k].minWrap = position[k]
                ELSE /\ loop[k].wrap = loop[k - 1].wrap
                     /\ loop[k].minWrap = loop[k - 1].minWrap
  <2>1. loop[k] = IF position[k] >= h /\ position[k] - h < loop[k - 1].minForward
                  THEN [loop[k - 1] EXCEPT !.forward = Visit(q, k),
                                           !.minForward = position[k] - h]
                  ELSE IF position[k] < h /\ position[k] < loop[k - 1].minWrap
                  THEN [loop[k - 1] EXCEPT !.wrap = Visit(q, k), !.minWrap = position[k]]
                  ELSE loop[k - 1]
    BY <1>1 DEF CscanStep, Seen
  <2>2. PICK s \in CscanState : s = loop[k - 1]
    BY <1>1
  <2>3. PICK p \in Nat : p = position[k]
    BY <1>3
  <2> HIDE DEF n
  <2>4. loop[k] = IF p >= h /\ p - h < s.minForward
                  THEN [s EXCEPT !.forward = Visit(q, k), !.minForward = p - h]
                  ELSE IF p < h /\ p < s.minWrap
                  THEN [s EXCEPT !.wrap = Visit(q, k), !.minWrap = p]
                  ELSE s
    BY <2>1, <2>2, <2>3
  <2> QED
    BY <1>2, <2>2, <2>3, <2>4 DEF CscanState
<1>6. /\ loop[0].forward = 0 /\ loop[0].minForward = INT_MAX
      /\ loop[0].wrap = 0 /\ loop[0].minWrap = INT_MAX
  BY <1>1 DEF CscanBegin
<1>7. \A k \in 1 .. n : distance[k] = position[k] - h /\ at[k] = Visit(q, k)
  OBVIOUS
<1>8. \A k \in 0 .. n : /\ forward[k] = loop[k].forward /\ wrap[k] = loop[k].wrap
                        /\ minForward[k] = loop[k].minForward
                        /\ minWrap[k] = loop[k].minWrap
  OBVIOUS
<1> HIDE DEF n, distance, at, forward, minForward, wrap, minWrap
<1>9. ahead = {k \in 1 .. n : position[k] >= h} /\ behind = {k \in 1 .. n : position[k] < h}
  BY DEF n, Seen
<1>10. INT_MAX \in Nat /\ ahead \in SUBSET (1 .. n) /\ behind \in SUBSET (1 .. n)
  BY <1>9, IntMax
<1>11. /\ 0 \in 0 .. n /\ n \in 0 .. n
       /\ \A k \in 1 .. n : k \in 0 .. n /\ k - 1 \in 0 .. n
  BY <1>2
<1>12. KeepsBest(n, ahead, distance, INT_MAX, at, forward, minForward)
  <2>1. forward[0] = 0 /\ minForward[0] = INT_MAX
    BY <1>6, <1>8, <1>11
  <2>2. \A k \in ahead : distance[k] \in Nat /\ distance[k] < INT_MAX
    <3> SUFFICES ASSUME NEW k \in ahead
                 PROVE  distance[k] \in Nat /\ distance[k] < INT_MAX
      OBVIOUS
    <3>1. k \in 1 .. n /\ position[k] >= h
      BY <1>9
    <3>2. /\ position[k] \in Nat /\ position[k] - h < INT_MAX
          /\ distance[k] = position[k] - h
      BY <1>3, <1>7, <3>1
    <3> QED
      BY <1>2, <3>1, <3>2
  <2>3. \A k \in 1 .. n :
           IF k \in ahead /\ distance[k] < minForward[k - 1]
           THEN forward[k] = at[k] /\ minForward[k] = distance[k]
           ELSE forward[k] = forward[k - 1] /\ minForward[k] = minForward[k - 1]
    BY <1>5, <1>7, <1>8, <1>9, <1>11
  <2> QED
    BY <2>1, <2>2, <2>3 DEF KeepsBest
<1>13. KeepsBest(n, behind, position, INT_MAX, at, wrap, minWrap)
  <2>1. wrap[0] = 0 /\ minWrap[0] = INT_MAX
    BY <1>6, <1>8, <1>11
  <2>2. \A k \in behind : position[k] \in Nat /\ position[k] < INT_MAX
    BY <1>3, <1>9
  <2>3. \A k \in 1 .. n :
           IF k \in behind /\ position[k] < minWrap[k - 1]
           THEN wrap[k] = at[k] /\ minWrap[k] = position[k]
           ELSE wrap[k] = wrap[k - 1] /\ minWrap[k] = minWrap[k - 1]
    BY <1>5, <1>7, <1>8, <1>9, <1>11
  <2> QED
    BY <2>1, <2>2, <2>3 DEF KeepsBest
<1>14. ASSUME ahead # {}
       PROVE  \E b \in ahead : /\ CscanLoop(q, h) = Visit(q, b)
                               /\ FirstOfLeast(b, ahead, position)
  <2>1. PICK b \in ahead : forward[n] = at[b] /\ FirstOfLeast(b, ahead, distance)
    BY <1>2, <1>10, <1>12, <1>14, FirstMinimum
  <2>2. CscanLoop(q, h) = Visit(q, b)
    <3>1. b \in 1 .. n
      BY <1>9
    <3>2. forward[n] = Visit(q, b) /\ Visit(q, b) \in 1 .. n
      BY <1>4, <1>7, <2>1, <3>1
    <3>3. Visit(q, b) # 0
      BY <1>2, <3>2
    <3> QED
      BY <1>1, <1>8, <1>11, <3>2, <3>3
  <2>3. FirstOfLeast(b, ahead, position)
    <3>1. \A j \in ahead : distance[j] = position[j] - h /\ position[j] \in Nat
      BY <1>3, <1>7, <1>9
    <3> QED
      BY <1>2, <2>1, <3>1 DEF FirstOfLeast
  <2> QED
    BY <2>2, <2>3
<1>15. ahead = {} => forward[n] = 0
  BY <1>2, <1>10, <1>12, FirstMinimum
<1>16. ASSUME ahead = {}, behind # {}
       PROVE  \E b \in behind : /\ CscanLoop(q, h) = Visit(q, b)
                                /\ FirstOfLeast(b, behind, position)
  <2>1. PICK b \in behind : wrap[n] = at[b] /\ FirstOfLeast(b, behind, position)
    BY <1>2, <1>10, <1>13, <1>16, FirstMinimum
  <2>2. forward[n] = 0
    BY <1>16, <1>15
  <2>3. CscanLoop(q, h) = Visit(q, b)
    BY <1>1, <1>7, <1>8, <1>9, <1>11, <2>1, <2>2
  <2> QED
    BY <2>1, <2>3
<1> QED
  BY <1>14, <1>16

\* FirstLeast, of DiskPolicy, with the keys in a function.
FirstByKey(S, key, i) ==
    /\ i \in S
    /\ \A j \in S \ {i} : \/ key[i] < key[j]
                          \/ key[i] = key[j] /\ VisitedBefore(i, j)

\* The first of the best in the order of the visits is the one request of S with the
\* least key, ties decided by VisitedBefore.
LEMMA FirstIsChosen ==
    ASSUME NEW q \in Seq(Request), NEW S \in SUBSET (1 .. Len(q)),
           NEW key, \A j \in S : key[j] \in Int,
           NEW K, K = {k \in 1 .. Len(q) : Visit(q, k) \in S},
           NEW keyOf, \A k \in K : keyOf[k] = key[Visit(q, k)],
           NEW b, FirstOfLeast(b, K, keyOf)
    PROVE  \A i : FirstByKey(S, key, i) <=> i = Visit(q, b)
<1> DEFINE n == Len(q)
           at == Visit(q, b)
<1>1. n \in Nat
  BY BlocksOf
<1>2. b \in 1 .. n /\ at \in S
  BY DEF FirstOfLeast
<1>3. ASSUME NEW j \in S \ {at}
      PROVE  key[at] < key[j] \/ (key[at] = key[j] /\ VisitedBefore(at, j))
  <2>1. PICK k \in 1 .. n : j = Visit(q, k)
    BY VisitsAll
  <2>2. k \in K /\ k # b
    BY <2>1, <1>3
  <2>3. key[at] <= key[j] /\ (k < b => key[at] < key[j])
    BY <1>2, <2>1, <2>2 DEF FirstOfLeast
  <2>4. b < k => VisitedBefore(at, j)
    BY <1>2, <2>1, VisitsAll
  <2>5. k < b \/ b < k
    BY <1>1, <1>2, <2>2
  <2>6. key[at] \in Int /\ key[j] \in Int
    BY <1>2, <1>3
  <2> HIDE DEF at
  <2> QED
    BY <2>3, <2>4, <2>5, <2>6
<1>4. FirstByKey(S, key, at)
  BY <1>2, <1>3 DEF FirstByKey
<1> HIDE DEF at
<1>5. ASSUME NEW i, FirstByKey(S, key, i), i # at PROVE FALSE
  <2>1. i \in S /\ at \in S /\ i \in Int /\ at \in Int /\ key[i] \in Int /\ key[at] \in Int
    BY <1>1, <1>2, <1>5 DEF FirstByKey
  <2>2. key[at] < key[i] \/ (key[at] = key[i] /\ VisitedBefore(at, i))
    BY <1>4, <1>5, <2>1 DEF FirstByKey
  <2>3. key[i] < key[at] \/ (key[i] = key[at] /\ VisitedBefore(i, at))
    BY <1>5, <2>1 DEF FirstByKey
  <2>4. VisitedBefore(at, i) /\ VisitedBefore(i, at)
    BY <2>1, <2>2, <2>3
  <2> QED
    BY <2>1, <2>4 DEF VisitedBefore
<1> QED
  BY <1>4, <1>5 DEF at

LEMMA SstfAgrees ==
    ASSUME NEW q \in Seq(Request), q # <<>>, NEW h \in Blocks
    PROVE  \A i : sstf(q, h, i) <=> i = SstfLoop(q, h)
<1> DEFINE n == Len(q)
           seek(j) == Abs(q[j].block - h)
           key == [j \in 1 .. n |-> seek(j)]
           keyOf == [k \in 1 .. n |-> seek(Visit(q, k))]
<1>1. n \in Nat /\ DOMAIN q = 1 .. n /\ \A k \in 1 .. n : Visit(q, k) \in 1 .. n
  BY VisitsAll, BlocksOf
<1>2. PICK b \in 1 .. n : /\ SstfLoop(q, h) = Visit(q, b)
                          /\ \A j \in 1 .. n :
                                /\ seek(Visit(q, b)) <= seek(Visit(q, j))
                                /\ j < b => seek(Visit(q, b)) < seek(Visit(q, j))
  BY SstfEnds
<1>3. \A j \in 1 .. n : seek(j) \in Int
  <2>1. h \in Nat /\ \A j \in 1 .. n : q[j].block \in Nat
    BY BlocksOf, DistancesFit
  <2> QED
    BY <2>1 DEF Abs
<1>4. ASSUME NEW i
      PROVE  sstf(q, h, i) <=> /\ i \in 1 .. n
                               /\ \A j \in 1 .. n \ {i} :
                                     \/ seek(i) < seek(j)
                                     \/ seek(i) = seek(j) /\ VisitedBefore(i, j)
  BY <1>1 DEF sstf, FirstLeast
<1> HIDE DEF seek
<1>5. /\ \A j \in 1 .. n : key[j] = seek(j)
      /\ \A k \in 1 .. n : keyOf[k] = seek(Visit(q, k)) /\ keyOf[k] = key[Visit(q, k)]
  BY <1>1
<1> HIDE DEF key, keyOf
<1>6. \A i : sstf(q, h, i) <=> FirstByKey(1 .. n, key, i)
  BY <1>4, <1>5 DEF FirstByKey
<1>7. FirstOfLeast(b, 1 .. n, keyOf)
  BY <1>2, <1>5 DEF FirstOfLeast
<1>8. \A i : FirstByKey(1 .. n, key, i) <=> i = Visit(q, b)
  <2> DEFINE S == 1 .. n
             K == {k \in 1 .. n : Visit(q, k) \in S}
  <2>1. K = 1 .. n
    BY <1>1
  <2>2. S \in SUBSET (1 .. Len(q)) /\ K = {k \in 1 .. Len(q) : Visit(q, k) \in S}
    OBVIOUS
  <2>3. \A j \in S : key[j] \in Int
    BY <1>3, <1>5
  <2>4. \A k \in K : keyOf[k] = key[Visit(q, k)]
    BY <1>5, <2>1
  <2> HIDE DEF S, K
  <2>5. FirstOfLeast(b, K, keyOf)
    BY <1>7, <2>1
  <2>6. \A i : FirstByKey(S, key, i) <=> i = Visit(q, b)
    BY <2>2, <2>3, <2>4, <2>5, FirstIsChosen
  <2> QED
    BY <2>6 DEF S
<1> QED
  BY <1>2, <1>6, <1>8

LEMMA CscanAgrees ==
    ASSUME NEW q \in Seq(Request), q # <<>>, NEW h \in Blocks
    PROVE  \A i : cscan(q, h, i) <=> i = CscanLoop(q, h)
<1> DEFINE n == Len(q)
           key == [j \in 1 .. n |-> q[j].block]
           keyOf == [k \in 1 .. n |-> q[Visit(q, k)].block]
           ahead == {k \in 1 .. n : keyOf[k] >= h}
           behind == {k \in 1 .. n : keyOf[k] < h}
           F == Forward(q, h)
<1>1. /\ n \in Nat /\ n # 0 /\ h \in Nat /\ DOMAIN q = 1 .. n
      /\ \A k \in 1 .. n : Visit(q, k) \in 1 .. n
  BY VisitsAll, BlocksOf, LenProperties, EmptySeq, DistancesFit
<1>2. Seen(q, h, keyOf, ahead, behind)
  BY DEF Seen
<1>3. \A j \in 1 .. n : key[j] = q[j].block /\ key[j] \in Nat
  BY BlocksOf
<1>4. \A k \in 1 .. n : keyOf[k] = key[Visit(q, k)]
  BY <1>1
<1>5. F = {j \in 1 .. n : key[j] >= h}
  BY <1>1, <1>3 DEF Forward
<1>6. ahead = {k \in 1 .. n : Visit(q, k) \in F}
  BY <1>1, <1>4, <1>5
<1>7. \A j \in F : \E k \in 1 .. n : j = Visit(q, k)
  BY <1>5, VisitsAll
<1>8. ASSUME NEW i
      PROVE  cscan(q, h, i) <=> IF F # {} THEN FirstByKey(F, key, i)
                                ELSE FirstByKey(1 .. n, key, i)
  <2>1. F \subseteq 1 .. n
    BY <1>5
  <2>2. CASE F # {}
    <3>1. cscan(q, h, i) <=> /\ i \in F
                             /\ \A j \in F \ {i} :
                                   \/ q[i].block < q[j].block
                                   \/ q[i].block = q[j].block /\ VisitedBefore(i, j)
      BY <2>2 DEF cscan, FirstLeast
    <3> HIDE DEF F, key
    <3> QED
      BY <1>3, <2>1, <2>2, <3>1 DEF FirstByKey
  <2>3. CASE F = {}
    <3>1. cscan(q, h, i) <=> /\ i \in 1 .. n
                             /\ \A j \in 1 .. n \ {i} :
                                   \/ q[i].block < q[j].block
                                   \/ q[i].block = q[j].block /\ VisitedBefore(i, j)
      BY <1>1, <2>3 DEF cscan, FirstLeast
    <3> HIDE DEF F, key
    <3> QED
      BY <1>3, <2>3, <3>1 DEF FirstByKey
  <2> QED
    BY <2>2, <2>3
<1> HIDE DEF key, keyOf, F
<1>9. CASE F # {}
  <2>1. ahead # {}
    BY <1>6, <1>7, <1>9
  <2> HIDE DEF ahead, behind
  <2>2. PICK b \in ahead : CscanLoop(q, h) = Visit(q, b) /\ FirstOfLeast(b, ahead, keyOf)
    BY <1>2, <2>1, CscanEnds
  <2>3. /\ F \in SUBSET (1 .. n) /\ \A j \in F : key[j] \in Int
        /\ \A k \in ahead : keyOf[k] = key[Visit(q, k)]
    BY <1>3, <1>4, <1>5, <1>6
  <2>4. \A i : FirstByKey(F, key, i) <=> i = Visit(q, b)
    BY <1>6, <2>2, <2>3, FirstIsChosen
  <2> QED
    BY <1>8, <1>9, <2>2, <2>4
<1>10. CASE F = {}
  <2> DEFINE S == 1 .. n
  <2>1. ahead = {}
    BY <1>6, <1>10
  <2>2. behind = 1 .. n /\ behind # {}
    <3>1. \A k \in 1 .. n : keyOf[k] \in Nat /\ ~(keyOf[k] >= h)
      BY <1>1, <1>3, <1>4, <2>1
    <3>2. 1 \in 1 .. n
      BY <1>1
    <3> QED
      BY <1>1, <3>1, <3>2
  <2>3. behind = {k \in 1 .. n : Visit(q, k) \in S}
    BY <1>1, <2>2
  <2>4. \A k \in behind : keyOf[k] = key[Visit(q, k)]
    BY <1>4, <2>2
  <2> HIDE DEF ahead, behind
  <2>5. PICK b \in behind : CscanLoop(q, h) = Visit(q, b) /\ FirstOfLeast(b, behind, keyOf)
    BY <1>2, <2>1, <2>2, CscanEnds
  <2>6. S \in SUBSET (1 .. n) /\ \A j \in S : key[j] \in Int
    BY <1>3
  <2> HIDE DEF S
  <2>7. \A i : FirstByKey(S, key, i) <=> i = Visit(q, b)
    BY <2>3, <2>4, <2>5, <2>6, FirstIsChosen
  <2> QED
    BY <1>8, <1>10, <2>5, <2>7 DEF S
<1> QED
  BY <1>9, <1>10

\* On every list of requests and every head position, each loop ends on the one
\* request its policy allows, ties included (sstf_scheduler, cscan_scheduler).
THEOREM LoopsFindTheChoice == ASpec => []LoopsAgree
<1>1. ATypeOK => LoopsAgree
  <2> SUFFICES ASSUME ATypeOK, queue # <<>>
               PROVE  /\ {i \in DOMAIN queue : sstf(queue, head, i)} = {SstfLoop(queue, head)}
                      /\ {i \in DOMAIN queue : cscan(queue, head, i)} = {CscanLoop(queue, head)}
    BY DEF LoopsAgree
  <2>1. queue \in Seq(Request) /\ head \in Blocks
    BY DEF ATypeOK
  <2>2. \A i : sstf(queue, head, i) <=> i = SstfLoop(queue, head)
    BY <2>1, SstfAgrees
  <2>3. \A i : cscan(queue, head, i) <=> i = CscanLoop(queue, head)
    BY <2>1, CscanAgrees
  <2>4. head \in Nat
    BY <2>1, DiskShape
  <2>5. SstfLoop(queue, head) \in DOMAIN queue /\ CscanLoop(queue, head) \in DOMAIN queue
    BY <2>1, <2>2, <2>3, <2>4, SstfChoice, CscanChoice, BlocksOf
  <2> QED
    BY <2>2, <2>3, <2>5
<1> QED
  BY <1>1, ArmTypeCorrect, PTL
=============================================================================
