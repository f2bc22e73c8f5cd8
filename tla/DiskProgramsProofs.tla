------------------------- MODULE DiskProgramsProofs -------------------------
(***************************************************************************)
(* The test programs of the disk do what they mean to, for every number of *)
(* tasks and every size of the disk.                                       *)
(***************************************************************************)
EXTENDS DiskPrograms, ListsAndSums

BPT == 0 .. blocksPerTask - 1

\* The tasks' shares fit twice into the disk, whatever the division leaves over.
LEMMA SharesFit ==
    /\ blocksPerTask \in Nat
    /\ 2 * (NUMTASKS * blocksPerTask) <= numblocks
<1> DEFINE q == numblocks \div NUMTASKS
<1>0. NUMTASKS \in Nat /\ NUMTASKS > 0 /\ numblocks \in Nat
  BY MoversShape
<1>1. q \in Nat /\ NUMTASKS * q <= numblocks
  BY <1>0, SMTT(30)
<1>2. blocksPerTask \in Nat /\ 2 * blocksPerTask <= q
  BY <1>1 DEF blocksPerTask
<1>3. NUMTASKS * (2 * blocksPerTask) <= NUMTASKS * q
  BY <1>0, <1>1, <1>2, SMTT(30)
<1> HIDE DEF q
<1> QED  BY <1>0, <1>1, <1>2, <1>3, SMTT(30)

\* Each share lies in a range of its own.
LEMMA ShareRange ==
    ASSUME NEW c \in Clients, NEW n \in BPT
    PROVE  /\ c \in Nat /\ c * blocksPerTask \in Nat
           /\ Orig(c, n) \in Nat
           /\ c * blocksPerTask <= Orig(c, n)
           /\ Orig(c, n) < (c + 1) * blocksPerTask
           /\ (c + 1) * blocksPerTask <= NUMTASKS * blocksPerTask
           /\ Dest(c, n) = numblocks - 1 - Orig(c, n)
<1>1. c \in Nat /\ c + 1 <= NUMTASKS /\ NUMTASKS \in Nat /\ n \in Nat /\ n < blocksPerTask
      /\ blocksPerTask \in Nat /\ numblocks \in Nat
  BY MoversShape, SharesFit DEF BPT
<1>2. c * blocksPerTask \in Nat /\ (c + 1) * blocksPerTask = c * blocksPerTask + blocksPerTask
  BY <1>1, SMTT(30)
<1>3. (c + 1) * blocksPerTask <= NUMTASKS * blocksPerTask
  BY <1>1, SMTT(30)
<1> QED  BY <1>1, <1>2, <1>3 DEF Orig, Dest

LEMMA SameShare ==
    ASSUME NEW c \in Clients, NEW n \in BPT, NEW d \in Clients, NEW m \in BPT,
           Orig(c, n) = Orig(d, m)
    PROVE  c = d /\ n = m
<1>0. ASSUME NEW e \in Clients, NEW k \in BPT, NEW f \in Clients, NEW l \in BPT, e < f
      PROVE  Orig(e, k) # Orig(f, l)
  <2>1. e \in Nat /\ f \in Nat /\ blocksPerTask \in Nat
    BY ShareRange, SharesFit
  <2>2. (e + 1) * blocksPerTask <= f * blocksPerTask
    BY <1>0, <2>1, SMTT(30)
  <2>3. (e + 1) * blocksPerTask \in Int /\ f * blocksPerTask \in Int
    BY <2>1, SMTT(30)
  <2>4. /\ Orig(e, k) \in Nat /\ Orig(e, k) < (e + 1) * blocksPerTask
        /\ Orig(f, l) \in Nat /\ f * blocksPerTask <= Orig(f, l)
    BY ShareRange
  <2> DEFINE x == (e + 1) * blocksPerTask
             y == f * blocksPerTask
  <2>5. x \in Int /\ y \in Int /\ x <= y /\ Orig(e, k) < x /\ y <= Orig(f, l)
    BY <2>2, <2>3, <2>4
  <2> HIDE DEF x, y
  <2> QED  BY <2>4, <2>5
<1>1. c \in Nat /\ d \in Nat
  BY ShareRange
<1>2. c = d
  BY <1>0, <1>1
<1>3. c * blocksPerTask \in Nat /\ n \in Nat /\ m \in Nat
  BY ShareRange DEF BPT
<1>4. c * blocksPerTask + n = c * blocksPerTask + m
  BY <1>2 DEF Orig
<1> DEFINE x == c * blocksPerTask
<1>5. x \in Nat /\ x + n = x + m
  BY <1>3, <1>4
<1> HIDE DEF x
<1> QED  BY <1>2, <1>3, <1>5

\* The movers keep apart: no block belongs to two exchanges.
LEMMA Apart ==
    ASSUME NEW c \in Clients, NEW n \in BPT, NEW d \in Clients, NEW m \in BPT
    PROVE  /\ Orig(c, n) \in Blocks /\ Dest(c, n) \in Blocks
           /\ Orig(c, n) # Dest(d, m)
           /\ (Orig(c, n) = Orig(d, m) \/ Dest(c, n) = Dest(d, m)) => c = d /\ n = m
           /\ numblocks - 1 - Orig(c, n) = Dest(c, n)
           /\ numblocks - 1 - Dest(c, n) = Orig(c, n)
<1> DEFINE all == NUMTASKS * blocksPerTask
<1>1. all \in Int /\ 2 * all <= numblocks /\ numblocks \in Nat /\ Blocks = 0 .. numblocks - 1
  BY SharesFit, MoversShape
<1>2. Orig(c, n) \in Nat /\ Orig(c, n) < all /\ Orig(d, m) \in Nat /\ Orig(d, m) < all
  <2>1. Orig(c, n) \in Nat /\ Orig(c, n) < (c + 1) * blocksPerTask
        /\ (c + 1) * blocksPerTask <= all /\ (c + 1) * blocksPerTask \in Int
    BY ShareRange, SharesFit
  <2>2. Orig(d, m) \in Nat /\ Orig(d, m) < (d + 1) * blocksPerTask
        /\ (d + 1) * blocksPerTask <= all /\ (d + 1) * blocksPerTask \in Int
    BY ShareRange, SharesFit
  <2> HIDE DEF all
  <2> QED  BY <1>1, <2>1, <2>2
<1>3. Dest(c, n) = numblocks - 1 - Orig(c, n) /\ Dest(d, m) = numblocks - 1 - Orig(d, m)
  BY ShareRange
<1>4. Orig(c, n) = Orig(d, m) => c = d /\ n = m
  BY SameShare
<1> DEFINE o == Orig(c, n)
           p == Orig(d, m)
<1>5. /\ all \in Int /\ 2 * all <= numblocks /\ numblocks \in Nat
      /\ o \in Nat /\ o < all /\ p \in Nat /\ p < all
  BY <1>1, <1>2
<1> HIDE DEF all, o, p
<1>6. /\ o \in 0 .. numblocks - 1 /\ numblocks - 1 - o \in 0 .. numblocks - 1
      /\ o # numblocks - 1 - p
      /\ numblocks - 1 - o = numblocks - 1 - p => o = p
      /\ numblocks - 1 - (numblocks - 1 - o) = o
  BY <1>5
<1> QED  BY <1>1, <1>3, <1>4, <1>6 DEF o, p

-----------------------------------------------------------------------------
(* The two lines, served in order and joined without a quantum in between. *)

QueueTypes ==
    /\ at \in [Clients -> Points]
    /\ requestQueue \in Seq(Request) /\ diskQueue \in Seq(Clients)
    /\ driver \in Request \cup {Idle} /\ removed \in BOOLEAN /\ sinal \in BOOLEAN

\* A request is chosen or with the disk, or done and not looked at.
InHand == IF driver # Idle \/ sinal THEN 1 ELSE 0

\* A task is on its way to diskQueue.
Way == {"up", "suspend"}
OnWay == IF \E c \in Clients : at[c] \in Way THEN 1 ELSE 0

\* The tasks asleep are those whose requests are in hand or queued, in that order.
InOrder ==
    /\ Len(requestQueue) + InHand = Len(diskQueue) + OnWay
    /\ \A k \in 1 .. Len(requestQueue) :
          IF k + InHand <= Len(diskQueue)
          THEN requestQueue[k].task = diskQueue[k + InHand]
          ELSE at[requestQueue[k].task] \in Way
    /\ driver # Idle => /\ ~sinal
                       /\ IF Len(diskQueue) >= 1 THEN driver.task = diskQueue[1]
                          ELSE at[driver.task] \in Way
    /\ removed \/ sinal => Len(diskQueue) >= 1
    /\ removed => driver # Idle

Sleepers ==
    /\ \A c, d \in Clients : at[c] \in Way /\ at[d] \in Way => c = d
    /\ \A k \in 1 .. Len(diskQueue) : at[diskQueue[k]] = "blocked"
    /\ \A j, k \in 1 .. Len(diskQueue) : diskQueue[j] = diskQueue[k] => j = k

LinesInv == QueueTypes /\ InOrder /\ Sleepers

\* Task c has a request that is queued or with the disk.
Pending(c) ==
    \/ driver # Idle /\ driver.task = c
    \/ \E k \in 1 .. Len(requestQueue) : requestQueue[k].task = c

Calling(c) == at[c] # "user"

\* Its transfer has taken place, and it has not returned.
Served(c) == Calling(c) /\ ~Pending(c)

LEMMA Lengths ==
    ASSUME QueueTypes
    PROVE  /\ Len(requestQueue) \in Nat /\ Len(diskQueue) \in Nat
           /\ DOMAIN requestQueue = 1 .. Len(requestQueue)
           /\ \A k \in 1 .. Len(requestQueue) :
                 requestQueue[k] \in Request /\ requestQueue[k].task \in Clients
           /\ \A k \in 1 .. Len(diskQueue) : diskQueue[k] \in Clients
<1>1. \A k \in 1 .. Len(requestQueue) : requestQueue[k] \in Request
  BY ElementOfSeq DEF QueueTypes
<1>2. \A r \in Request : r.task \in Clients
  BY DEF Request
<1> QED
  BY <1>1, <1>2, ElementOfSeq, LenProperties DEF QueueTypes

LEMMA DriverTyped ==
    ASSUME QueueTypes, driver # Idle
    PROVE  driver \in Request /\ driver.task \in Clients /\ driver.block \in Blocks
           /\ driver.buf \in {1, 2} /\ driver.op \in {"read", "write"}
<1>1. \A r \in Request : /\ r.task \in Clients /\ r.block \in Blocks
                         /\ r.buf \in {1, 2} /\ r.op \in {"read", "write"}
  BY DEF Request
<1> QED
  BY <1>1 DEF QueueTypes

\* Who has a request pending is asleep, or on the way.
LEMMA PendingWaits ==
    ASSUME LinesInv, NEW c \in Clients, Pending(c)
    PROVE  at[c] \in {"up", "suspend", "blocked"}
<1>1. CASE driver # Idle /\ driver.task = c
  BY <1>1, Lengths DEF LinesInv, InOrder, Sleepers, Way
<1>2. ASSUME NEW k \in 1 .. Len(requestQueue), requestQueue[k].task = c
      PROVE  at[c] \in {"up", "suspend", "blocked"}
  <2>1. CASE k + InHand <= Len(diskQueue)
    <3>1. k + InHand \in 1 .. Len(diskQueue) /\ c = diskQueue[k + InHand]
      BY <1>2, <2>1, Lengths DEF LinesInv, InOrder, InHand
    <3> QED
      BY <3>1 DEF LinesInv, Sleepers
  <2>2. CASE ~(k + InHand <= Len(diskQueue))
    BY <1>2, <2>2 DEF LinesInv, InOrder, Way
  <2> QED
    BY <2>1, <2>2
<1> QED
  BY <1>1, <1>2 DEF Pending

LEMMA LinesStart ==
    ASSUME DQInit PROVE LinesInv /\ \A c \in Clients : ~Calling(c)
<1>1. /\ at = [c \in Clients |-> "user"] /\ requestQueue = <<>> /\ diskQueue = <<>>
      /\ driver = Idle /\ removed = FALSE /\ sinal = FALSE /\ Len(requestQueue) = 0 /\ Len(diskQueue) = 0
  BY DEF DQInit
<1>2. InHand = 0 /\ OnWay = 0
  BY <1>1 DEF InHand, OnWay, Way
<1>3. requestQueue \in Seq(Request) /\ diskQueue \in Seq(Clients)
  BY <1>1
<1>4. \A c \in Clients : at[c] = "user"
  BY <1>1
<1>5. QueueTypes
  BY <1>1, <1>3 DEF QueueTypes, Points
<1>6. InOrder
  BY <1>1, <1>2 DEF InOrder
<1>7. Sleepers
  BY <1>1, <1>4 DEF Sleepers, Way
<1> QED
  BY <1>4, <1>5, <1>6, <1>7 DEF LinesInv, Calling

LEMMA AskLines ==
    ASSUME LinesInv, "suspend" \in NonPreemptible, NEW r \in Request, Ask(r)
    PROVE  /\ LinesInv'
           /\ ~Calling(r.task) /\ Calling(r.task)' /\ Pending(r.task)'
           /\ requestQueue' = Append(requestQueue, r) /\ UNCHANGED driver
           /\ \A c \in Clients \ {r.task} : /\ Calling(c)' <=> Calling(c)
                                            /\ Pending(c)' <=> Pending(c)
<1> DEFINE c == r.task
           R == Len(requestQueue)
<1>0. QueueTypes /\ InOrder /\ Sleepers
  BY DEF LinesInv
<1>1. /\ at[c] = "user" /\ at' = [at EXCEPT ![c] = "up"] /\ c \in Clients
      /\ requestQueue' = Append(requestQueue, r)
      /\ UNCHANGED <<diskQueue, driver, removed, sinal>>
      /\ \A d \in Clients : at[d] \notin Way
  BY DEF Ask, Goto, CPUFree, ListFree, Request, Way
<1>2. /\ requestQueue' \in Seq(Request) /\ Len(requestQueue') = R + 1 /\ R \in Nat
      /\ \A k \in 1 .. R : requestQueue'[k] = requestQueue[k]
      /\ requestQueue'[R + 1] = r
  BY <1>0, <1>1, AppendProperties, Lengths DEF QueueTypes
<1>3. /\ at' \in [Clients -> Points] /\ at'[c] = "up"
      /\ \A d \in Clients \ {c} : at'[d] = at[d]
  BY <1>0, <1>1 DEF QueueTypes, Points
<1>4. /\ OnWay = 0 /\ OnWay' = 1 /\ InHand' = InHand /\ InHand \in {0, 1}
      /\ R + InHand = Len(diskQueue)
  BY <1>0, <1>1, <1>3, Lengths DEF OnWay, InHand, InOrder, Way
<1>5. QueueTypes'
  BY <1>0, <1>1, <1>2, <1>3 DEF QueueTypes
<1>6. Sleepers'
  <2>1. \A k \in 1 .. Len(diskQueue) : diskQueue[k] # c /\ diskQueue[k] \in Clients
    BY <1>0, <1>1, Lengths DEF Sleepers
  <2> QED
    BY <1>0, <1>1, <1>3, <2>1 DEF Sleepers, Way
<1>7. InOrder'
  <2>1. ASSUME NEW k \in 1 .. R + 1
        PROVE  IF k + InHand <= Len(diskQueue)
               THEN requestQueue'[k].task = diskQueue[k + InHand]
               ELSE at'[requestQueue'[k].task] \in Way
    <3>1. CASE k = R + 1
      BY <1>2, <1>3, <1>4, <3>1 DEF Way
    <3>2. CASE k \in 1 .. R
      BY <1>0, <1>1, <1>2, <1>4, <3>2, Lengths DEF InOrder
    <3> QED
      BY <1>2, <3>1, <3>2
  <2>2. driver # Idle => IF Len(diskQueue) >= 1 THEN driver.task = diskQueue[1]
                         ELSE at'[driver.task] \in Way
    BY <1>0, <1>1, DriverTyped DEF InOrder
  <2> QED
    BY <1>0, <1>1, <1>2, <1>4, <2>1, <2>2 DEF InOrder
<1>8. \A d \in Clients : Pending(d)' <=> Pending(d) \/ d = c
  <2> TAKE d \in Clients
  <2>1. (\E k \in 1 .. R + 1 : requestQueue'[k].task = d)
          <=> (\E k \in 1 .. R : requestQueue[k].task = d) \/ d = c
    <3>1. 1 .. R + 1 = 1 .. R \cup {R + 1}
      BY <1>2
    <3> QED
      BY <1>2, <3>1
  <2> QED
    BY <1>1, <1>2, <2>1 DEF Pending
<1> QED
  BY <1>1, <1>3, <1>5, <1>6, <1>7, <1>8 DEF LinesInv, Calling

LEMMA UpLines ==
    ASSUME LinesInv, NEW c \in Clients, Up(c)
    PROVE  /\ LinesInv'
           /\ UNCHANGED <<requestQueue, driver>>
           /\ \A d \in Clients : Calling(d)' <=> Calling(d)
<1>0. QueueTypes /\ InOrder /\ Sleepers
  BY DEF LinesInv
<1>1. /\ at[c] = "up" /\ at' = [at EXCEPT ![c] = "suspend"]
      /\ UNCHANGED <<requestQueue, diskQueue, driver, removed, sinal>>
  BY DEF Up, Goto
<1>2. /\ at' \in [Clients -> Points] /\ at'[c] = "suspend"
      /\ \A d \in Clients \ {c} : at'[d] = at[d]
  BY <1>0, <1>1 DEF QueueTypes, Points
<1>3. \A d \in Clients : at'[d] \in Way <=> at[d] \in Way
  BY <1>1, <1>2 DEF Way
<1>4. InHand' = InHand /\ OnWay' = OnWay
  BY <1>1, <1>3 DEF InHand, OnWay
<1>5. \A k \in 1 .. Len(diskQueue) : diskQueue[k] \in Clients /\ diskQueue[k] # c
  BY <1>0, <1>1, Lengths DEF Sleepers
<1>6. QueueTypes' /\ Sleepers'
  BY <1>0, <1>1, <1>2, <1>3, <1>5 DEF QueueTypes, Sleepers
<1>7. InOrder'
  BY <1>0, <1>1, <1>3, <1>4, Lengths, DriverTyped DEF InOrder
<1> QED
  BY <1>1, <1>2, <1>6, <1>7 DEF LinesInv, Calling

LEMMA SuspendLines ==
    ASSUME LinesInv, NEW c \in Clients, Suspend(c)
    PROVE  /\ LinesInv'
           /\ UNCHANGED <<requestQueue, driver>>
           /\ \A d \in Clients : Calling(d)' <=> Calling(d)
<1> DEFINE D == Len(diskQueue)
<1>0. QueueTypes /\ InOrder /\ Sleepers
  BY DEF LinesInv
<1>1. /\ at[c] = "suspend" /\ at' = [at EXCEPT ![c] = "blocked"]
      /\ diskQueue' = Append(diskQueue, c)
      /\ UNCHANGED <<requestQueue, driver, removed, sinal>>
  BY DEF Suspend, Goto
<1>2. /\ diskQueue' \in Seq(Clients) /\ Len(diskQueue') = D + 1 /\ D \in Nat
      /\ \A k \in 1 .. D : diskQueue'[k] = diskQueue[k]
      /\ diskQueue'[D + 1] = c
  BY <1>0, <1>1, AppendProperties, Lengths DEF QueueTypes
<1>3. /\ at' \in [Clients -> Points] /\ at'[c] = "blocked"
      /\ \A d \in Clients \ {c} : at'[d] = at[d] /\ at[d] \notin Way
  BY <1>0, <1>1 DEF QueueTypes, Points, Sleepers, Way
<1>4. OnWay = 1 /\ OnWay' = 0 /\ InHand' = InHand /\ InHand \in {0, 1}
  BY <1>1, <1>3 DEF OnWay, InHand, Way
<1>5. QueueTypes'
  BY <1>0, <1>1, <1>2, <1>3 DEF QueueTypes
<1>6. Sleepers'
  <2>1. \A k \in 1 .. D : diskQueue[k] # c /\ diskQueue[k] \in Clients
    BY <1>0, <1>1, Lengths DEF Sleepers
  <2>2. \A k \in 1 .. D + 1 : k \in 1 .. D \/ k = D + 1
    BY <1>2
  <2> QED
    BY <1>0, <1>2, <1>3, <2>1, <2>2 DEF Sleepers, Way
<1>7. InOrder'
  <2>0. Len(requestQueue) + InHand = D + 1 /\ Len(requestQueue) \in Nat
    BY <1>0, <1>4, Lengths DEF InOrder
  <2>1. ASSUME NEW k \in 1 .. Len(requestQueue)
        PROVE  /\ k + InHand <= D + 1
               /\ requestQueue[k].task = diskQueue'[k + InHand]
    <3>1. CASE k + InHand <= D
      <4>1. k + InHand \in 1 .. D
        BY <1>4, <2>0, <3>1
      <4> QED
        BY <1>0, <1>2, <2>0, <3>1, <4>1 DEF InOrder
    <3>2. CASE ~(k + InHand <= D)
      <4>1. k + InHand = D + 1
        BY <1>2, <1>4, <2>0, <3>2
      <4>2. at[requestQueue[k].task] \in Way /\ requestQueue[k].task \in Clients
        BY <1>0, <3>2, Lengths DEF InOrder
      <4> QED
        BY <1>2, <1>3, <4>1, <4>2
    <3> QED
      BY <3>1, <3>2
  <2>2. driver # Idle => D + 1 >= 1 /\ driver.task = diskQueue'[1]
    <3> SUFFICES ASSUME driver # Idle PROVE driver.task = diskQueue'[1]
      BY <1>2
    <3>1. CASE D >= 1
      BY <1>0, <1>2, <3>1 DEF InOrder
    <3>2. CASE ~(D >= 1)
      <4>1. at[driver.task] \in Way /\ driver.task \in Clients /\ D + 1 = 1
        BY <1>0, <1>2, <3>2, DriverTyped DEF InOrder
      <4> QED
        BY <1>2, <1>3, <4>1
    <3> QED
      BY <3>1, <3>2
  <2> QED
    BY <1>0, <1>1, <1>2, <1>4, <2>0, <2>1, <2>2 DEF InOrder
<1> QED
  BY <1>1, <1>3, <1>5, <1>6, <1>7 DEF LinesInv, Calling

LEMMA ReturnLines ==
    ASSUME LinesInv, NEW c \in Clients, Return(c)
    PROVE  /\ LinesInv'
           /\ UNCHANGED <<requestQueue, driver>>
           /\ Served(c) /\ ~Calling(c)'
           /\ \A d \in Clients \ {c} : Calling(d)' <=> Calling(d)
<1>0. QueueTypes /\ InOrder /\ Sleepers
  BY DEF LinesInv
<1>1. /\ at[c] = "back" /\ at' = [at EXCEPT ![c] = "user"]
      /\ UNCHANGED <<requestQueue, diskQueue, driver, removed, sinal>>
  BY DEF Return, Goto
<1>2. /\ at' \in [Clients -> Points] /\ at'[c] = "user"
      /\ \A d \in Clients \ {c} : at'[d] = at[d]
  BY <1>0, <1>1 DEF QueueTypes, Points
<1>3. InHand' = InHand /\ OnWay' = OnWay
  BY <1>1, <1>2 DEF InHand, OnWay, Way
<1>4. \A d \in Clients : at'[d] \in Way <=> at[d] \in Way
  BY <1>1, <1>2 DEF Way
<1>5. \A k \in 1 .. Len(diskQueue) : diskQueue[k] \in Clients /\ diskQueue[k] # c
  BY <1>0, <1>1, Lengths DEF Sleepers
<1>6. QueueTypes' /\ Sleepers'
  BY <1>0, <1>1, <1>2, <1>4, <1>5 DEF QueueTypes, Sleepers
<1>7. InOrder'
  BY <1>0, <1>1, <1>3, <1>4, Lengths, DriverTyped DEF InOrder
<1>8. Served(c)
  BY <1>1, PendingWaits DEF Served, Calling
<1> QED
  BY <1>1, <1>2, <1>6, <1>7, <1>8 DEF LinesInv, Calling

LEMMA TakeLines ==
    ASSUME LinesInv, Policy = "FCFS", NEW k \in DOMAIN requestQueue, Take(k)
    PROVE  /\ LinesInv'
           /\ driver' = requestQueue[1] /\ driver' # Idle /\ Len(requestQueue) >= 1
           /\ Len(requestQueue') = Len(requestQueue) - 1
           /\ \A j \in 1 .. Len(requestQueue) - 1 : requestQueue'[j] = requestQueue[j + 1]
           /\ \A d \in Clients : Calling(d)' <=> Calling(d)
           /\ \A d \in Clients : Pending(d)' <=> Pending(d)
<1> DEFINE R == Len(requestQueue)
<1>0. QueueTypes /\ InOrder /\ Sleepers
  BY DEF LinesInv
<1>1. k = 1 /\ requestQueue # <<>>
  BY DEF Take, disk_scheduler, fcfs
<1>2. /\ driver = Idle /\ ~sinal /\ ~removed /\ driver' = requestQueue[1]
      /\ requestQueue' = RemoveAt(requestQueue, 1)
      /\ UNCHANGED <<at, diskQueue, removed, sinal>>
  BY <1>0, <1>1 DEF Take, queue_remove, QueueTypes, InOrder
<1>3. R \in Nat /\ R >= 1 /\ 1 \in 1 .. R
  BY <1>1, Lengths DEF LinesInv
<1>4. /\ requestQueue' \in Seq(Request) /\ Len(requestQueue') = R - 1
      /\ \A j \in 1 .. R - 1 : requestQueue'[j] = requestQueue[j + 1]
  <2>1. \A j \in 1 .. R - 1 : ~(j < 1)
    BY <1>3
  <2> QED
    BY <1>0, <1>2, <1>3, <2>1, RemoveFacts DEF QueueTypes
<1>5. driver' \in Request /\ driver' # Idle
  BY <1>0, <1>2, <1>3, Lengths, IdleIsNoRequest
<1>6. InHand = 0 /\ InHand' = 1 /\ OnWay \in {0, 1} /\ OnWay' = OnWay
      /\ R = Len(diskQueue) + OnWay /\ Len(diskQueue) \in Nat
  <2>1. InHand = 0 /\ InHand' = 1
    BY <1>2, <1>5 DEF InHand
  <2>2. OnWay \in {0, 1} /\ OnWay' = OnWay
    BY <1>2 DEF OnWay
  <2>3. R + 0 = Len(diskQueue) + OnWay /\ Len(diskQueue) \in Nat
    BY <1>0, <2>1, <2>2, Lengths DEF InOrder
  <2> QED
    BY <1>3, <2>1, <2>2, <2>3
<1>7. QueueTypes' /\ Sleepers'
  BY <1>0, <1>2, <1>4, <1>5 DEF QueueTypes, Sleepers
<1>8. InOrder'
  <2>1. \A j \in 1 .. R : IF j <= Len(diskQueue) THEN requestQueue[j].task = diskQueue[j]
                          ELSE at[requestQueue[j].task] \in Way
    BY <1>0, <1>3, <1>6 DEF InOrder
  <2>2. \A j \in 1 .. R - 1 : j + 1 \in 1 .. R
    BY <1>3
  <2>3. \A j \in 1 .. R - 1 :
            IF j + 1 <= Len(diskQueue) THEN requestQueue'[j].task = diskQueue[j + 1]
            ELSE at[requestQueue'[j].task] \in Way
    BY <1>4, <2>1, <2>2
  <2>4. IF Len(diskQueue) >= 1 THEN driver'.task = diskQueue[1]
        ELSE at[driver'.task] \in Way
    BY <1>2, <1>3, <2>1
  <2> QED
    BY <1>2, <1>3, <1>4, <1>6, <2>3, <2>4 DEF InOrder
<1>9. \A d \in Clients : Pending(d)' <=> Pending(d)
  <2> TAKE d \in Clients
  <2>1. \A j \in 1 .. R : j = 1 \/ (j - 1 \in 1 .. R - 1 /\ (j - 1) + 1 = j)
    BY <1>3
  <2>2. \A j \in 1 .. R - 1 : j + 1 \in 1 .. R
    BY <1>3
  <2>3. (\E j \in 1 .. R : requestQueue[j].task = d)
          <=> requestQueue[1].task = d \/ \E j \in 1 .. R - 1 : requestQueue'[j].task = d
    <3>1. ASSUME NEW j \in 1 .. R, requestQueue[j].task = d, j # 1
          PROVE  \E m \in 1 .. R - 1 : requestQueue'[m].task = d
      <4>1. j - 1 \in 1 .. R - 1 /\ requestQueue'[j - 1] = requestQueue[j]
        BY <1>4, <2>1, <3>1
      <4> QED
        BY <3>1, <4>1
    <3>2. ASSUME NEW j \in 1 .. R - 1, requestQueue'[j].task = d
          PROVE  \E m \in 1 .. R : requestQueue[m].task = d
      BY <1>4, <2>2, <3>2
    <3> QED
      BY <1>3, <3>1, <3>2
  <2>4. (\E j \in 1 .. Len(requestQueue') : requestQueue'[j].task = d)
          <=> \E j \in 1 .. R - 1 : requestQueue'[j].task = d
    BY <1>4
  <2> QED
    BY <1>2, <1>5, <2>3, <2>4 DEF Pending
<1> QED
  BY <1>2, <1>3, <1>4, <1>5, <1>7, <1>8, <1>9 DEF LinesInv, Calling

LEMMA StartLines ==
    ASSUME LinesInv, "suspend" \in NonPreemptible, Start
    PROVE  /\ LinesInv'
           /\ UNCHANGED <<requestQueue, driver>>
           /\ \A d \in Clients : Calling(d)' <=> Calling(d)
<1>0. QueueTypes /\ InOrder /\ Sleepers
  BY DEF LinesInv
<1>1. /\ driver # Idle /\ removed' = TRUE
      /\ UNCHANGED <<at, requestQueue, diskQueue, driver, sinal>>
      /\ \A d \in Clients : at[d] \notin Way
  BY DEF Start, CPUFreeForManager, ListFree, Way
<1>2. InHand = 1 /\ OnWay = 0 /\ InHand' = InHand /\ OnWay' = OnWay
  BY <1>1 DEF InHand, OnWay
<1>3. Len(diskQueue) >= 1
  BY <1>0, <1>2, Lengths DEF InOrder
<1>4. QueueTypes' /\ InOrder' /\ Sleepers'
  BY <1>0, <1>1, <1>2, <1>3 DEF QueueTypes, InOrder, Sleepers
<1> QED
  BY <1>1, <1>4 DEF LinesInv, Calling

LEMMA DoneLines ==
    ASSUME LinesInv, Done, NEW c \in Clients, c = driver.task
    PROVE  /\ LinesInv'
           /\ driver # Idle /\ driver' = Idle /\ UNCHANGED requestQueue
           /\ Calling(c) /\ Pending(c) /\ ~Pending(c)'
           /\ \A d \in Clients : Calling(d)' <=> Calling(d)
           /\ \A d \in Clients \ {c} : Pending(d)' <=> Pending(d)
<1>0. QueueTypes /\ InOrder /\ Sleepers
  BY DEF LinesInv
<1>1. /\ driver # Idle /\ driver' = Idle /\ removed /\ removed' = FALSE /\ sinal' = TRUE
      /\ UNCHANGED <<at, requestQueue, diskQueue>>
  BY <1>0 DEF Done, InOrder
<1>2. InHand = 1 /\ InHand' = 1 /\ OnWay' = OnWay
  BY <1>1 DEF InHand, OnWay
<1>3. LinesInv'
  BY <1>0, <1>1, <1>2 DEF LinesInv, QueueTypes, InOrder, Sleepers
<1>4. Pending(c) /\ Calling(c)
  <2>1. Pending(c)
    BY <1>1 DEF Pending
  <2> QED
    BY <2>1, PendingWaits DEF Calling
<1>5. \A k \in 1 .. Len(requestQueue) : requestQueue[k].task # c
  <2> TAKE k \in 1 .. Len(requestQueue)
  <2>1. c = diskQueue[1] /\ Len(diskQueue) \in Nat /\ Len(diskQueue) >= 1
    BY <1>0, <1>1, Lengths DEF InOrder
  <2>2. at[c] = "blocked" /\ \A j \in 1 .. Len(diskQueue) : j # 1 => diskQueue[j] # c
    BY <1>0, <2>1 DEF Sleepers
  <2>3. CASE k + 1 <= Len(diskQueue)
    BY <1>0, <1>2, <2>1, <2>2, <2>3 DEF InOrder
  <2>4. CASE ~(k + 1 <= Len(diskQueue))
    BY <1>0, <1>2, <2>2, <2>4 DEF InOrder, Way
  <2> QED
    BY <2>3, <2>4
<1>6. \A d \in Clients : Calling(d)' <=> Calling(d)
  BY <1>1 DEF Calling
<1>7. \A d \in Clients : Pending(d)' <=> \E k \in 1 .. Len(requestQueue) : requestQueue[k].task = d
  BY <1>1 DEF Pending
<1>8. \A d \in Clients \ {c} : Pending(d)' <=> Pending(d)
  BY <1>7 DEF Pending
<1>9. ~Pending(c)'
  BY <1>4, <1>5, <1>7
<1> QED
  BY <1>1, <1>3, <1>4, <1>6, <1>8, <1>9

LEMMA CompleteLines ==
    ASSUME LinesInv, Complete
    PROVE  /\ LinesInv'
           /\ UNCHANGED <<requestQueue, driver>>
           /\ \A d \in Clients : Calling(d)' <=> Calling(d)
<1> DEFINE D == Len(diskQueue)
           c == Head(diskQueue)
<1>0. QueueTypes /\ InOrder /\ Sleepers
  BY DEF LinesInv
<1>1. /\ sinal /\ sinal' = FALSE /\ UNCHANGED <<requestQueue, driver, removed>>
  BY DEF Complete
<1>2. D \in Nat /\ D >= 1 /\ driver = Idle /\ ~removed
  BY <1>0, <1>1, Lengths DEF InOrder
<1>3. diskQueue # <<>>
  BY <1>0, <1>2, EmptySeq DEF QueueTypes
<1>4. diskQueue' = Tail(diskQueue) /\ at' = [at EXCEPT ![c] = "back"]
  BY <1>3 DEF Complete, Goto
<1>5. /\ c = diskQueue[1] /\ c \in Clients
      /\ diskQueue' \in Seq(Clients) /\ Len(diskQueue') = D - 1
      /\ \A k \in 1 .. D - 1 : diskQueue'[k] = diskQueue[k + 1]
  BY <1>0, <1>3, <1>4, HeadTailProperties DEF QueueTypes
<1>6. /\ at[c] = "blocked" /\ at' \in [Clients -> Points] /\ at'[c] = "back"
      /\ \A d \in Clients \ {c} : at'[d] = at[d]
  BY <1>0, <1>2, <1>4, <1>5 DEF QueueTypes, Points, Sleepers
<1>7. /\ InHand = 1 /\ InHand' = 0 /\ OnWay \in {0, 1} /\ OnWay' = OnWay
      /\ \A d \in Clients : at'[d] \in Way <=> at[d] \in Way
  <2>1. \A d \in Clients : at'[d] \in Way <=> at[d] \in Way
    BY <1>6 DEF Way
  <2> QED
    BY <1>1, <1>2, <2>1 DEF InHand, OnWay
<1>8. QueueTypes'
  BY <1>0, <1>1, <1>5, <1>6 DEF QueueTypes
<1>9. Sleepers'
  <2>1. \A k \in 1 .. D - 1 : k + 1 \in 1 .. D /\ k + 1 # 1
    BY <1>2
  <2>2. \A k \in 1 .. D - 1 : diskQueue'[k] \in Clients \ {c}
    BY <1>0, <1>2, <1>5, <2>1, Lengths DEF Sleepers
  <2>3. \A k \in 1 .. D - 1 : at'[diskQueue'[k]] = "blocked"
    BY <1>0, <1>5, <1>6, <2>1, <2>2 DEF Sleepers
  <2>4. \A j, k \in 1 .. D - 1 : diskQueue'[j] = diskQueue'[k] => j = k
    <3> TAKE j, k \in 1 .. D - 1
    <3>1. diskQueue'[j] = diskQueue'[k] => j + 1 = k + 1
      BY <1>0, <1>5, <2>1 DEF Sleepers
    <3> QED
      BY <3>1
  <2> QED
    BY <1>0, <1>5, <1>7, <2>3, <2>4 DEF Sleepers
<1>10. InOrder'
  <2>1. Len(requestQueue) \in Nat /\ Len(requestQueue) + 1 = D + OnWay
    BY <1>0, <1>7, Lengths DEF InOrder
  <2>2. ASSUME NEW k \in 1 .. Len(requestQueue)
        PROVE  IF k <= D - 1 THEN requestQueue[k].task = diskQueue'[k]
               ELSE at'[requestQueue[k].task] \in Way
    <3>1. requestQueue[k].task \in Clients
      BY <1>0, Lengths
    <3>2. CASE k <= D - 1
      <4>1. k \in 1 .. D - 1 /\ k + 1 <= D
        BY <1>2, <2>1, <3>2
      <4> QED
        BY <1>0, <1>5, <1>7, <3>2, <4>1 DEF InOrder
    <3>3. CASE ~(k <= D - 1)
      <4>1. ~(k + 1 <= D)
        BY <1>2, <2>1, <3>3
      <4> QED
        BY <1>0, <1>7, <3>1, <3>3, <4>1 DEF InOrder
    <3> QED
      BY <3>2, <3>3
  <2> QED
    BY <1>1, <1>2, <1>5, <1>7, <2>1, <2>2 DEF InOrder
<1> QED
  BY <1>1, <1>6, <1>8, <1>9, <1>10 DEF LinesInv, Calling

-----------------------------------------------------------------------------
(* The programs.                                                           *)

Values == Blocks \cup {Char, Blank}

Types ==
    /\ program \in {"disco1", "disco2"}
    /\ store \in [Blocks -> Values]
    /\ i \in [Clients -> Nat] /\ step \in [Clients -> 1 .. 4]
    /\ buffer \in [Clients -> [{1, 2} -> Values]]
    /\ \A c \in Clients : i[c] <= Rounds(c)
    /\ \A c \in Clients : program = "disco1" \/ i[c] = Rounds(c) => step[c] = 1

\* A pending request is the operation its task has reached.
RequestsFit ==
    /\ \A c \in Clients : Calling(c) => i[c] < Rounds(c)
    /\ \A k \in 1 .. Len(requestQueue) : requestQueue[k] = Asked(requestQueue[k].task)
    /\ driver # Idle => driver = Asked(driver.task)

\* disco1: what it has written stays.
Written == program = "disco1" =>
    /\ Calling(0) /\ i[0] >= numblocks => buffer[0][1] = Char
    /\ \A b \in Blocks :
         b < i[0] - numblocks \/ (b = i[0] - numblocks /\ Served(0)) => store[b] = Char

\* disco2: what a task has in its hands.
Carries(c) == i[c] < blocksPerTask =>
    /\ step[c] >= 2 \/ (step[c] = 1 /\ Served(c)) => buffer[c][1] = Orig(c, i[c])
    /\ step[c] >= 3 \/ (step[c] = 2 /\ Served(c)) => buffer[c][2] = Dest(c, i[c])

\* disco2: how far the exchange of round n is.
Exchange(c, n) ==
    LET o == Orig(c, n)
        d == Dest(c, n)
        now == n = i[c]
    IN  /\ store[d] = IF n < i[c] \/ (now /\ (step[c] = 4 \/ (step[c] = 3 /\ Served(c))))
                      THEN o ELSE d
        /\ store[o] = IF n < i[c] \/ (now /\ step[c] = 4 /\ Served(c)) THEN d ELSE o

Moving == program = "disco2" =>
    /\ \A c \in Clients : Carries(c) /\ \A n \in BPT : Exchange(c, n)
    /\ \A b \in Blocks : ~Moved(b) => store[b] = b

DataInv == Written /\ Moving
Inv == LinesInv /\ Types /\ RequestsFit /\ DataInv

LEMMA RoundsNat == \A c \in Clients : Rounds(c) \in Nat
  BY SharesFit, MoversShape DEF Rounds

\* Which operation a mover has reached.
LEMMA MoverOperation ==
    ASSUME Types, program = "disco2", NEW c \in Clients, i[c] < Rounds(c)
    PROVE  /\ i[c] \in BPT /\ Len(Body(c)) = 4
           /\ step[c] = 1 => Body(c)[step[c]] = Op("read", Orig(c, i[c]), 1)
           /\ step[c] = 2 => Body(c)[step[c]] = Op("read", Dest(c, i[c]), 2)
           /\ step[c] = 3 => Body(c)[step[c]] = Op("write", Dest(c, i[c]), 1)
           /\ step[c] = 4 => Body(c)[step[c]] = Op("write", Orig(c, i[c]), 2)
<1>1. i[c] \in BPT
  BY SharesFit DEF BPT, Rounds, Types
<1> QED  BY <1>1 DEF Body, Move, Types

\* And which one main.
LEMMA MainOperation ==
    ASSUME Types, program = "disco1", NEW c \in Clients, i[c] < Rounds(c)
    PROVE  /\ c = 0 /\ i[c] < 2 * numblocks /\ Len(Body(c)) = 1
           /\ i[c] < numblocks => Body(c)[step[c]] = Op("read", i[c], 1)
           /\ i[c] >= numblocks => Body(c)[step[c]] = Op("write", i[c] - numblocks, 1)
<1>1. c = 0 /\ i[c] \in Nat /\ step[c] = 1 /\ numblocks \in Nat
  BY MoversShape DEF Rounds, Types
<1>2. i[c] < 2 * numblocks
  BY <1>1 DEF Rounds
<1>3. /\ Body(c) = ReadOrWrite(i[c])
      /\ Len(ReadOrWrite(i[c])) = 1
      /\ ReadOrWrite(i[c])[1] = IF i[c] < numblocks THEN Op("read", i[c], 1)
                                ELSE Op("write", i[c] - numblocks, 1)
  BY DEF Body, ReadOrWrite
<1> QED  BY <1>1, <1>2, <1>3

LEMMA OpFields == \A x, y, z :
    Op(x, y, z).op = x /\ Op(x, y, z).block = y /\ Op(x, y, z).buf = z
  BY DEF Op

LEMMA Operation ==
    ASSUME Types, NEW c \in Clients, i[c] < Rounds(c)
    PROVE  /\ Body(c)[step[c]].op \in {"read", "write"} /\ Body(c)[step[c]].buf \in {1, 2}
           /\ Body(c)[step[c]].block \in Blocks
           /\ step[c] <= Len(Body(c)) /\ Len(Body(c)) \in {1, 4}
<1>1. CASE program = "disco2"
  <2>1. step[c] \in {1, 2, 3, 4}
    BY DEF Types
  <2>2. i[c] \in BPT /\ Len(Body(c)) = 4
    BY <1>1, MoverOperation
  <2>3. Orig(c, i[c]) \in Blocks /\ Dest(c, i[c]) \in Blocks
    BY <2>2, Apart
  <2>4. \E x \in {"read", "write"}, y \in Blocks, z \in {1, 2} :
            Body(c)[step[c]] = Op(x, y, z)
    BY <1>1, <2>1, <2>3, MoverOperation
  <2> QED  BY <2>1, <2>2, <2>4, OpFields
<1>2. CASE program = "disco1"
  <2>1. i[c] \in Nat /\ step[c] = 1 /\ numblocks \in Nat /\ Blocks = 0 .. numblocks - 1
    BY <1>2, MoversShape DEF Types
  <2>2. i[c] < 2 * numblocks /\ Len(Body(c)) = 1
    BY <1>2, MainOperation
  <2>3. i[c] < numblocks => i[c] \in Blocks
    BY <2>1
  <2>4. i[c] >= numblocks => i[c] - numblocks \in Blocks
    BY <2>1, <2>2
  <2>5. \E x \in {"read", "write"}, y \in Blocks, z \in {1, 2} :
            Body(c)[step[c]] = Op(x, y, z)
    BY <1>2, <2>1, <2>3, <2>4, MainOperation
  <2> QED  BY <2>1, <2>2, <2>5, OpFields
<1> QED  BY <1>1, <1>2 DEF Types

LEMMA AskedFields ==
    ASSUME Types, NEW c \in Clients, i[c] < Rounds(c)
    PROVE  /\ Asked(c) \in Request /\ Asked(c).task = c
           /\ Asked(c).op = Body(c)[step[c]].op /\ Asked(c).buf = Body(c)[step[c]].buf
           /\ Asked(c).block = Body(c)[step[c]].block
<1> DEFINE op == Body(c)[step[c]]
<1>1. op.op \in {"read", "write"} /\ op.buf \in {1, 2} /\ op.block \in Blocks
  BY Operation
<1>2. Asked(c) = [task |-> c, op |-> op.op, block |-> op.block, buf |-> op.buf]
  BY DEF Asked
<1> HIDE DEF op
<1>3. /\ Asked(c) \in Request /\ Asked(c).task = c
      /\ Asked(c).op = op.op /\ Asked(c).buf = op.buf /\ Asked(c).block = op.block
  BY <1>1, <1>2 DEF Request
<1> QED
  BY <1>3 DEF op

\* While nobody moves on, bodies, rounds and operations stay.
LEMMA SameBody ==
    ASSUME UNCHANGED <<program, i, step>>
    PROVE  \A c : Body(c)' = Body(c) /\ Rounds(c)' = Rounds(c) /\ Asked(c)' = Asked(c)
  BY DEF Body, Rounds, Asked

-----------------------------------------------------------------------------
LEMMA InitInv == Init => Inv
<1> SUFFICES ASSUME Init PROVE Inv
  OBVIOUS
<1>0. blocksPerTask \in Nat
  BY SharesFit
<1>1. LinesInv /\ (\A c \in Clients : ~Calling(c))
  BY LinesStart DEF Init
<1>2. Types
  <2>1. \A c \in Clients : i[c] <= Rounds(c)
    <3> TAKE c \in Clients
    <3>1. i[c] = 0 /\ Rounds(c) \in Nat
      BY RoundsNat DEF Init
    <3> QED  BY <3>1
  <2> QED  BY <2>1 DEF Init, Types, Values
<1>3. RequestsFit
  <2>1. driver = Idle /\ Len(requestQueue) = 0
    BY DEF Init, DQInit
  <2> QED  BY <1>1, <2>1 DEF RequestsFit
<1>4. \A c \in Clients : ~Served(c)
  BY <1>1 DEF Served
<1>5. Written
  <2>1. \A b \in Blocks : b \in Nat /\ numblocks \in Nat /\ b < numblocks
    BY MoversShape
  <2>2. 0 \in Clients /\ i[0] = 0
    BY MoversShape DEF Init
  <2> QED  BY <1>1, <1>4, <2>1, <2>2 DEF Written
<1>6. Moving
  <2>1. ASSUME NEW c \in Clients
        PROVE  Carries(c)
    BY <1>4 DEF Init, Carries
  <2>2. ASSUME NEW c \in Clients, NEW n \in BPT
        PROVE  Exchange(c, n)
    <3>1. Orig(c, n) \in Blocks /\ Dest(c, n) \in Blocks
      BY Apart
    <3>2. n >= 0 /\ n \in Int
      BY <1>0 DEF BPT
    <3> QED  BY <1>4, <3>1, <3>2 DEF Init, Exchange
  <2> QED  BY <2>1, <2>2 DEF Moving, Init
<1> QED  BY <1>1, <1>2, <1>3, <1>5, <1>6 DEF Inv, DataInv

-----------------------------------------------------------------------------
\* What the programs know stays while no task moves on and none is served.
LEMMA DataKept ==
    ASSUME DataInv, UNCHANGED <<store, program, i, step>>,
           \A c \in Clients : Served(c)' <=> Served(c),
           program = "disco2" => buffer' = buffer,
           program = "disco1" /\ Calling(0)' /\ i[0] >= numblocks => buffer'[0][1] = Char
    PROVE  DataInv'
<1>1. 0 \in Clients
  BY MoversShape
<1>2. Written'
  BY <1>1 DEF DataInv, Written
<1>3. Moving'
  BY DEF DataInv, Moving, Carries, Exchange, Moved
<1> QED  BY <1>2, <1>3 DEF DataInv

LEMMA CallInv ==
    ASSUME Inv, "suspend" \in NonPreemptible, NEW c \in Clients, Call(c)
    PROVE  Inv'
<1>0. LinesInv /\ Types /\ RequestsFit /\ DataInv
  BY DEF Inv
<1>1. /\ i[c] < Rounds(c) /\ Ask(Asked(c))
      /\ UNCHANGED <<store, program, i, step>>
      /\ buffer' = IF program = "disco1" /\ Asked(c).op = "write"
                   THEN [buffer EXCEPT ![c][1] = Char] ELSE buffer
  BY DEF Call
<1>2. PICK r \in Request : r = Asked(c) /\ r.task = c
  BY <1>0, <1>1, AskedFields
<1>3. Ask(r)
  BY <1>1, <1>2
<1>4. /\ LinesInv' /\ ~Calling(c) /\ Calling(c)' /\ Pending(c)'
      /\ requestQueue' = Append(requestQueue, r) /\ UNCHANGED driver
      /\ \A d \in Clients \ {c} : (Calling(d)' <=> Calling(d)) /\ (Pending(d)' <=> Pending(d))
  BY <1>0, <1>2, <1>3, AskLines
<1>5. \A d \in Clients : Served(d)' <=> Served(d)
  BY <1>4 DEF Served
<1>6. \A d : Body(d)' = Body(d) /\ Rounds(d)' = Rounds(d) /\ Asked(d)' = Asked(d)
  BY <1>1, SameBody
<1>7. Types'
  <2>1. buffer' \in [Clients -> [{1, 2} -> Values]]
    BY <1>0, <1>1 DEF Types, Values
  <2> QED  BY <1>0, <1>1, <1>6, <2>1 DEF Types
<1>8. RequestsFit'
  <2>1. /\ requestQueue \in Seq(Request) /\ Len(requestQueue) \in Nat
    BY <1>0, Lengths DEF LinesInv, QueueTypes
  <2>2. /\ Len(requestQueue') = Len(requestQueue) + 1
        /\ \A k \in 1 .. Len(requestQueue) : requestQueue'[k] = requestQueue[k]
        /\ requestQueue'[Len(requestQueue) + 1] = r
    BY <1>4, <2>1, AppendProperties
  <2>3. ASSUME NEW k \in 1 .. Len(requestQueue')
        PROVE  requestQueue'[k] = Asked(requestQueue'[k].task)
    <3>1. k \in 1 .. Len(requestQueue) \/ k = Len(requestQueue) + 1
      BY <2>1, <2>2
    <3> QED  BY <1>0, <1>2, <2>2, <3>1 DEF RequestsFit
  <2> QED  BY <1>0, <1>1, <1>4, <1>6, <2>3 DEF RequestsFit
<1>9. DataInv'
  <2>1. ASSUME program = "disco1", Calling(0)', i[0] >= numblocks
        PROVE  buffer'[0][1] = Char
    <3>1. CASE c = 0
      <4>1. Asked(c).op = "write"
        BY <1>0, <1>1, <2>1, <3>1, AskedFields, MainOperation, OpFields
      <4> QED  BY <1>0, <1>1, <2>1, <3>1, <4>1, MoversShape DEF Types
    <3>2. CASE c # 0
      <4>1. 0 \in Clients \ {c}
        BY <3>2, MoversShape
      <4>2. c = 0
        BY <1>0, <1>1, <2>1, MainOperation
      <4> QED  BY <3>2, <4>2
    <3> QED  BY <3>1, <3>2
  <2>2. program = "disco2" => buffer' = buffer
    BY <1>1
  <2> QED  BY <1>0, <1>1, <1>5, <2>1, <2>2, DataKept
<1> QED  BY <1>4, <1>7, <1>8, <1>9 DEF Inv

LEMMA UnseenInv ==
    ASSUME Inv, Policy = "FCFS", "suspend" \in NonPreemptible, Unseen
    PROVE  Inv'
<1>0. LinesInv /\ Types /\ RequestsFit /\ DataInv /\ UNCHANGED <<store, program, i, step, buffer>>
  BY DEF Inv, Unseen
<1>1. \A d : Body(d)' = Body(d) /\ Rounds(d)' = Rounds(d) /\ Asked(d)' = Asked(d)
  BY <1>0, SameBody
<1>2. Types'
  BY <1>0, <1>1 DEF Types
<1>3. ASSUME LinesInv', \A d \in Clients : Calling(d)' <=> Calling(d),
             \A d \in Clients : Pending(d)' <=> Pending(d), RequestsFit'
      PROVE  Inv'
  <2>1. \A d \in Clients : Served(d)' <=> Served(d)
    BY <1>3 DEF Served
  <2>2. program = "disco1" /\ Calling(0)' /\ i[0] >= numblocks => buffer'[0][1] = Char
    BY <1>0, <1>3, MoversShape DEF DataInv, Written
  <2>3. DataInv'
    BY <1>0, <2>1, <2>2, DataKept
  <2> QED  BY <1>2, <1>3, <2>3 DEF Inv
<1>4. ASSUME UNCHANGED <<requestQueue, driver>>, LinesInv',
             \A d \in Clients : Calling(d)' <=> Calling(d)
      PROVE  Inv'
  <2>1. \A d \in Clients : Pending(d)' <=> Pending(d)
    BY <1>4 DEF Pending
  <2>2. RequestsFit'
    BY <1>0, <1>1, <1>4 DEF RequestsFit
  <2> QED  BY <1>3, <1>4, <2>1, <2>2
<1>5. ASSUME NEW c \in Clients, Up(c) PROVE Inv'
  BY <1>0, <1>4, <1>5, UpLines
<1>6. ASSUME NEW c \in Clients, Suspend(c) PROVE Inv'
  BY <1>0, <1>4, <1>6, SuspendLines
<1>7. CASE Complete
  BY <1>0, <1>4, <1>7, CompleteLines
<1>8. ASSUME NEW k \in DOMAIN requestQueue, Take(k) PROVE Inv'
  <2>1. /\ LinesInv'
        /\ driver' = requestQueue[1] /\ driver' # Idle /\ Len(requestQueue) >= 1
        /\ Len(requestQueue') = Len(requestQueue) - 1
        /\ \A j \in 1 .. Len(requestQueue) - 1 : requestQueue'[j] = requestQueue[j + 1]
        /\ \A d \in Clients : Calling(d)' <=> Calling(d)
        /\ \A d \in Clients : Pending(d)' <=> Pending(d)
    BY <1>0, <1>8, TakeLines
  <2>2. Len(requestQueue) \in Nat
    BY <1>0, Lengths DEF LinesInv
  <2>3. driver' = Asked(driver'.task)
    <3>1. 1 \in 1 .. Len(requestQueue)
      BY <2>1, <2>2
    <3> QED  BY <1>0, <2>1, <3>1 DEF RequestsFit
  <2>4. \A j \in 1 .. Len(requestQueue') : requestQueue'[j] = Asked(requestQueue'[j].task)
    <3> TAKE j \in 1 .. Len(requestQueue')
    <3>1. j + 1 \in 1 .. Len(requestQueue) /\ requestQueue'[j] = requestQueue[j + 1]
      BY <2>1, <2>2
    <3> QED  BY <1>0, <3>1 DEF RequestsFit
  <2>5. RequestsFit'
    BY <1>0, <1>1, <2>1, <2>3, <2>4 DEF RequestsFit
  <2> QED  BY <1>3, <2>1, <2>5
<1>9. CASE Start
  BY <1>0, <1>4, <1>9, StartLines
<1> QED  BY <1>5, <1>6, <1>7, <1>8, <1>9 DEF Unseen

LEMMA ServeInv ==
    ASSUME Inv, Serve
    PROVE  Inv'
<1>0. LinesInv /\ Types /\ RequestsFit /\ DataInv /\ Done /\ UNCHANGED <<program, i, step>>
  BY DEF Inv, Serve
<1>1. PICK c \in Clients : c = driver.task
  BY <1>0, DriverTyped DEF LinesInv, InOrder, Done
<1>2. /\ LinesInv' /\ driver # Idle /\ driver' = Idle /\ UNCHANGED requestQueue
      /\ Calling(c) /\ Pending(c) /\ ~Pending(c)'
      /\ \A e \in Clients : Calling(e)' <=> Calling(e)
      /\ \A e \in Clients \ {c} : Pending(e)' <=> Pending(e)
  BY <1>0, <1>1, DoneLines
<1>3. ~Served(c) /\ Served(c)' /\ \A e \in Clients \ {c} : Served(e)' <=> Served(e)
  BY <1>2 DEF Served
<1>4. \A e : Body(e)' = Body(e) /\ Rounds(e)' = Rounds(e) /\ Asked(e)' = Asked(e)
  BY <1>0, SameBody
<1> DEFINE op == driver.op
           b == driver.block
           n == driver.buf
           o == Orig(c, i[c])
           d == Dest(c, i[c])
<1>5. /\ i[c] < Rounds(c) /\ op = Body(c)[step[c]].op
      /\ b = Body(c)[step[c]].block /\ n = Body(c)[step[c]].buf
  <2>1. i[c] < Rounds(c) /\ driver = Asked(c)
    BY <1>0, <1>1, <1>2 DEF RequestsFit
  <2> QED  BY <1>0, <2>1, AskedFields
<1>6. op \in {"read", "write"} /\ b \in Blocks /\ n \in {1, 2}
  BY <1>0, <1>5, Operation
<1>7. /\ op = "write" => store' = [store EXCEPT ![b] = buffer[c][n]] /\ buffer' = buffer
      /\ op = "read" => store' = store /\ buffer' = [buffer EXCEPT ![c][n] = store[b]]
  BY <1>1 DEF Serve
<1> HIDE DEF op, b, n
<1>8. Types'
  <2>1. store' \in [Blocks -> Values] /\ buffer' \in [Clients -> [{1, 2} -> Values]]
    BY <1>0, <1>6, <1>7 DEF Types
  <2> QED  BY <1>0, <1>4, <2>1 DEF Types
<1>9. RequestsFit'
  BY <1>0, <1>2, <1>4 DEF RequestsFit
<1>10. Written'
  <2> SUFFICES ASSUME program = "disco1" PROVE Written'
    BY <1>0 DEF Written
  <2>1. /\ c = 0 /\ (i[c] < numblocks => op = "read" /\ n = 1)
        /\ (i[c] >= numblocks => op = "write" /\ b = i[c] - numblocks /\ n = 1)
    BY <1>0, <1>5, MainOperation, OpFields
  <2>2. i[c] \in Nat /\ numblocks \in Nat /\ \A e \in Blocks : e \in Nat
    BY <1>0, MoversShape DEF Types
  <2>3. CASE i[c] < numblocks
    <3>1. store' = store
      BY <1>7, <2>1, <2>3
    <3>2. \A e \in Blocks : ~(e < i[0] - numblocks \/ e = i[0] - numblocks)
      BY <2>1, <2>2, <2>3
    <3>3. ~(i[0] >= numblocks)
      BY <2>1, <2>2, <2>3
    <3> QED  BY <1>0, <3>2, <3>3 DEF Written
  <2>4. CASE i[c] >= numblocks
    <3>1. buffer[c][1] = Char /\ store' = [store EXCEPT ![b] = Char] /\ buffer' = buffer
      BY <1>0, <1>2, <1>7, <2>1, <2>4 DEF DataInv, Written
    <3>2. \A e \in Blocks : store'[e] = IF e = b THEN Char ELSE store[e]
      BY <1>0, <3>1 DEF Types
    <3>3. \A e \in Blocks : e < i[0] - numblocks => store[e] = Char
      BY <2>1 DEF Inv, DataInv, Written
    <3> QED  BY <1>0, <2>1, <2>2, <2>4, <3>1, <3>2, <3>3 DEF Written
  <2> QED  BY <2>2, <2>3, <2>4
<1>11. Moving'
  <2> SUFFICES ASSUME program = "disco2" PROVE Moving'
    BY <1>0 DEF Moving
  <2>1. i[c] \in BPT /\ o \in Blocks /\ d \in Blocks /\ o # d /\ i[c] < blocksPerTask
    <3>1. i[c] \in BPT
      BY <1>0, <1>5, MoverOperation
    <3> QED  BY <3>1, Apart, SharesFit DEF BPT
  <2>2. Carries(c) /\ Exchange(c, i[c])
    BY <1>0, <2>1 DEF DataInv, Moving
  <2>3. /\ step[c] \in {1, 2, 3, 4}
        /\ step[c] = 1 => op = "read" /\ b = o /\ n = 1
        /\ step[c] = 2 => op = "read" /\ b = d /\ n = 2
        /\ step[c] = 3 => op = "write" /\ b = d /\ buffer[c][n] = o
        /\ step[c] = 4 => op = "write" /\ b = o /\ buffer[c][n] = d
    <3>1. step[c] \in {1, 2, 3, 4}
      BY <1>0 DEF Types
    <3>2. /\ step[c] = 3 => n = 1 /\ buffer[c][1] = o
          /\ step[c] = 4 => n = 2 /\ buffer[c][2] = d
      BY <1>0, <1>5, <2>1, <2>2, MoverOperation, OpFields DEF Carries
    <3> QED  BY <1>0, <1>5, <3>1, <3>2, MoverOperation, OpFields
  <2> HIDE DEF o, d
  <2>4. \A e \in Blocks : store'[e] = IF step[c] \in {3, 4} /\ e = b
                                      THEN buffer[c][n] ELSE store[e]
    BY <1>0, <1>7, <2>3 DEF Types
  <2>5. /\ \A e \in Clients \ {c} : buffer'[e] = buffer[e]
        /\ step[c] \in {3, 4} => buffer'[c] = buffer[c]
        /\ step[c] = 1 => buffer'[c][1] = store[b]
        /\ step[c] = 2 => buffer'[c][2] = store[b] /\ buffer'[c][1] = buffer[c][1]
    BY <1>0, <1>6, <1>7, <2>3 DEF Types
  <2>6. Exchange(c, i[c])'
    BY <1>0, <1>3, <2>1, <2>2, <2>3, <2>4 DEF Exchange, o, d
  <2>7. ASSUME NEW e \in Clients, NEW m \in BPT, e # c \/ m # i[c]
        PROVE  Exchange(e, m)'
    <3>1. Orig(e, m) \notin {o, d} /\ Dest(e, m) \notin {o, d}
          /\ Orig(e, m) \in Blocks /\ Dest(e, m) \in Blocks
      BY <2>1, <2>7, Apart DEF o, d
    <3>2. store'[Orig(e, m)] = store[Orig(e, m)] /\ store'[Dest(e, m)] = store[Dest(e, m)]
      BY <2>3, <2>4, <3>1
    <3>3. m = i[e] => (Served(e)' <=> Served(e))
      BY <1>3, <2>7
    <3>4. Exchange(e, m)
      BY <1>0 DEF DataInv, Moving
    <3> QED  BY <1>0, <3>2, <3>3, <3>4 DEF Exchange
  <2>8. Carries(c)'
    <3>1. step[c] = 1 => store[b] = o
      BY <2>1, <2>2, <2>3 DEF Exchange, o, BPT
    <3>2. step[c] = 2 => store[b] = d
      BY <2>1, <2>2, <2>3 DEF Exchange, d, BPT
    <3> QED  BY <1>0, <2>1, <2>2, <2>3, <2>5, <3>1, <3>2 DEF Carries, o, d
  <2>9. ASSUME NEW e \in Clients, e # c
        PROVE  Carries(e)'
    <3>1. Carries(e) /\ (Served(e)' <=> Served(e)) /\ buffer'[e] = buffer[e]
      BY <1>0, <1>3, <2>5, <2>9 DEF DataInv, Moving
    <3> QED  BY <1>0, <3>1 DEF Carries
  <2>10. ASSUME NEW e \in Blocks, ~Moved(e)
         PROVE  store'[e] = e
    <3>1. e \notin {o, d}
      BY <2>1, <2>10 DEF Moved, o, d, BPT
    <3> QED  BY <1>0, <2>3, <2>4, <2>10, <3>1 DEF DataInv, Moving
  <2>11. \A e : Moved(e)' <=> Moved(e)
    BY DEF Moved
  <2> QED  BY <1>0, <2>6, <2>7, <2>8, <2>9, <2>10, <2>11 DEF Moving
<1> QED  BY <1>2, <1>8, <1>9, <1>10, <1>11 DEF Inv, DataInv

LEMMA BackInv ==
    ASSUME Inv, NEW c \in Clients, Back(c)
    PROVE  Inv'
<1>0. LinesInv /\ Types /\ RequestsFit /\ DataInv /\ Return(c)
  BY DEF Inv, Back
<1> DEFINE last == step[c] = Len(Body(c))
<1>1. UNCHANGED <<store, program, buffer>>
  BY DEF Back
<1>2. /\ LinesInv' /\ UNCHANGED <<requestQueue, driver>> /\ Served(c) /\ ~Calling(c)'
      /\ \A e \in Clients \ {c} : Calling(e)' <=> Calling(e)
  BY <1>0, ReturnLines
<1>3. /\ i[c] < Rounds(c) /\ step[c] <= Len(Body(c)) /\ Len(Body(c)) \in {1, 4}
      /\ step[c] \in 1 .. 4 /\ i[c] \in Nat /\ Rounds(c) \in Nat
  <2>1. i[c] < Rounds(c)
    BY <1>0, <1>2 DEF RequestsFit, Served
  <2> QED  BY <1>0, <2>1, Operation, RoundsNat DEF Types
<1>4. ~Served(c)' /\ ~Pending(c) /\ \A e \in Clients \ {c} : Served(e)' <=> Served(e)
  <2>1. \A e \in Clients : Pending(e)' <=> Pending(e)
    BY <1>2 DEF Pending
  <2> QED  BY <1>2, <2>1 DEF Served
<1>5. /\ i' = [i EXCEPT ![c] = IF last THEN @ + 1 ELSE @]
      /\ step' = [step EXCEPT ![c] = IF last THEN 1 ELSE @ + 1]
  <2>1. ~last <=> step[c] < Len(Body(c))
    BY <1>3
  <2> QED  BY <1>0, <2>1 DEF Back, Types
<1>6. /\ \A e \in Clients \ {c} : i'[e] = i[e] /\ step'[e] = step[e]
      /\ i'[c] = IF last THEN i[c] + 1 ELSE i[c]
      /\ step'[c] = IF last THEN 1 ELSE step[c] + 1
  BY <1>0, <1>5 DEF Types
<1>7. /\ \A e \in Clients : Rounds(e)' = Rounds(e)
      /\ \A e \in Clients \ {c} : Asked(e)' = Asked(e)
  BY <1>1, <1>6 DEF Rounds, Body, Asked
<1>8. Types'
  <2>1. i' \in [Clients -> Nat] /\ step' \in [Clients -> 1 .. 4]
    <3> DEFINE s == step[c]
               len == Len(Body(c))
    <3>0. s \in 1 .. 4 /\ s <= len /\ len \in {1, 4}
      BY <1>3
    <3> HIDE DEF s, len
    <3>1. s # len => s + 1 \in 1 .. 4
      BY <3>0
    <3> QED  BY <1>0, <1>3, <1>5, <3>1 DEF Types, s, len
  <2>2. \A e \in Clients : i'[e] <= Rounds(e)
    BY <1>0, <1>3, <1>6 DEF Types
  <2>3. ASSUME NEW e \in Clients, program = "disco1" \/ i'[e] = Rounds(e)
        PROVE  step'[e] = 1
    <3>1. CASE e # c
      BY <1>0, <1>6, <2>3, <3>1 DEF Types
    <3>2. CASE e = c /\ program = "disco1"
      BY <1>0, <1>3, <1>6, <3>2, MainOperation DEF Types
    <3>3. CASE e = c /\ i'[c] = Rounds(c)
      BY <1>3, <1>6, <3>3
    <3> QED  BY <2>3, <3>1, <3>2, <3>3
  <2> QED  BY <1>0, <1>1, <1>7, <2>1, <2>2, <2>3 DEF Types
<1>9. RequestsFit'
  <2>1. \A e \in Clients : Calling(e)' => i'[e] < Rounds(e)
    BY <1>0, <1>2, <1>6 DEF RequestsFit
  <2>2. ASSUME NEW k \in 1 .. Len(requestQueue)
        PROVE  requestQueue[k] = Asked(requestQueue[k].task)'
    <3>1. PICK e \in Clients : e = requestQueue[k].task
      BY <1>0, Lengths DEF LinesInv
    <3>2. e # c
      BY <1>4, <3>1 DEF Pending
    <3>3. requestQueue[k] = Asked(e)'
      BY <1>0, <1>7, <3>1, <3>2 DEF RequestsFit
    <3> QED  BY <1>2, <3>1, <3>3
  <2>3. driver # Idle => driver = Asked(driver.task)'
    <3> SUFFICES ASSUME driver # Idle PROVE driver = Asked(driver.task)'
      OBVIOUS
    <3>1. PICK e \in Clients : e = driver.task
      BY <1>0, DriverTyped DEF LinesInv
    <3>2. e # c
      BY <1>4, <3>1 DEF Pending
    <3>3. driver = Asked(e)'
      BY <1>0, <1>7, <3>1, <3>2 DEF RequestsFit
    <3> QED  BY <1>2, <3>1, <3>3
  <2> QED  BY <1>2, <1>7, <2>1, <2>2, <2>3 DEF RequestsFit
<1>10. Written'
  <2> SUFFICES ASSUME program = "disco1" PROVE Written'
    BY <1>1 DEF Written
  <2>1. c = 0 /\ last
    BY <1>0, <1>3, MainOperation DEF Types
  <2>2. /\ numblocks \in Nat /\ i[0] \in Nat /\ i'[0] = i[0] + 1 /\ Served(0)
        /\ ~Calling(0)' /\ ~Served(0)' /\ \A e \in Blocks : e \in Nat
    BY <1>2, <1>3, <1>4, <1>6, <2>1, MoversShape
  <2>3. ASSUME NEW e \in Blocks, e < i'[0] - numblocks
        PROVE  store[e] = Char
    <3>1. e < i[0] - numblocks \/ e = i[0] - numblocks
      BY <2>2, <2>3
    <3> QED  BY <1>0, <2>2, <3>1 DEF DataInv, Written
  <2> QED  BY <1>1, <2>2, <2>3 DEF Written
<1>11. Moving'
  <2> SUFFICES ASSUME program = "disco2" PROVE Moving'
    BY <1>1 DEF Moving
  <2>1. i[c] \in BPT /\ i[c] < blocksPerTask /\ blocksPerTask \in Nat
        /\ (last <=> step[c] = 4)
    <3>1. i[c] \in BPT /\ Len(Body(c)) = 4
      BY <1>0, <1>3, MoverOperation
    <3> QED  BY <3>1, SharesFit DEF BPT
  <2>2. Carries(c) /\ \A n \in BPT : Exchange(c, n)
    BY <1>0 DEF DataInv, Moving
  <2>3. ASSUME NEW e \in Clients, e # c
        PROVE  Carries(e)' /\ \A n \in BPT : Exchange(e, n)'
    <3>1. Carries(e) /\ (\A n \in BPT : Exchange(e, n)) /\ (Served(e)' <=> Served(e))
          /\ i'[e] = i[e] /\ step'[e] = step[e]
      BY <1>0, <1>4, <1>6, <2>3 DEF DataInv, Moving
    <3> QED  BY <1>1, <3>1 DEF Carries, Exchange
  <2>4. Carries(c)'
    <3>1. CASE step[c] = 4
      BY <1>4, <1>6, <2>1, <3>1 DEF Carries
    <3>2. CASE step[c] # 4
      <4>1. i'[c] = i[c] /\ step'[c] = step[c] + 1 /\ step[c] \in {1, 2, 3}
        BY <1>3, <1>6, <2>1, <3>2
      <4> QED  BY <1>1, <1>2, <1>4, <2>1, <2>2, <4>1 DEF Carries
    <3> QED  BY <3>1, <3>2
  <2>5. ASSUME NEW n \in BPT
        PROVE  Exchange(c, n)'
    <3>1. Exchange(c, n) /\ n \in Int
      BY <2>1, <2>2 DEF BPT
    <3>2. CASE step[c] = 4
      BY <1>1, <1>2, <1>3, <1>4, <1>6, <2>1, <3>1, <3>2 DEF Exchange
    <3>3. CASE step[c] # 4
      <4>1. i'[c] = i[c] /\ step'[c] = step[c] + 1 /\ step[c] \in {1, 2, 3}
        BY <1>3, <1>6, <2>1, <3>3
      <4> QED  BY <1>1, <1>2, <1>4, <3>1, <4>1 DEF Exchange
    <3> QED  BY <3>2, <3>3
  <2>6. \A e \in Blocks : ~Moved(e) => store'[e] = e
    BY <1>0, <1>1 DEF DataInv, Moving
  <2>7. \A e : Moved(e)' <=> Moved(e)
    BY DEF Moved
  <2> QED  BY <2>3, <2>4, <2>5, <2>6, <2>7 DEF Moving
<1> QED  BY <1>2, <1>8, <1>9, <1>10, <1>11 DEF Inv, DataInv

LEMMA NextInv ==
    ASSUME Policy = "FCFS", "suspend" \in NonPreemptible
    PROVE  Inv /\ [Next]_vars => Inv'
<1> SUFFICES ASSUME Inv, [Next]_vars PROVE Inv'
  OBVIOUS
<1>1. ASSUME NEW c \in Clients, Call(c) PROVE Inv'
  BY <1>1, CallInv
<1>2. ASSUME NEW c \in Clients, Back(c) PROVE Inv'
  BY <1>2, BackInv
<1>3. CASE Serve
  BY <1>3, ServeInv
<1>4. CASE Unseen
  BY <1>4, UnseenInv
<1>5. CASE UNCHANGED vars
  <2>1. LinesInv'
    BY <1>5 DEF vars, dqvars, Inv, LinesInv, QueueTypes, InOrder, InHand, OnWay, Sleepers
  <2>2. /\ \A c \in Clients : Served(c)' <=> Served(c)
        /\ \A c \in Clients : Calling(c)' <=> Calling(c)
    BY <1>5 DEF vars, dqvars, Served, Calling, Pending
  <2>3. \A c : Body(c)' = Body(c) /\ Rounds(c)' = Rounds(c) /\ Asked(c)' = Asked(c)
    BY <1>5, SameBody DEF vars
  <2>4. Types' /\ RequestsFit'
    BY <1>5, <2>2, <2>3 DEF vars, dqvars, Inv, Types, RequestsFit
  <2>5. program = "disco1" /\ Calling(0)' /\ i[0] >= numblocks => buffer'[0][1] = Char
    BY <1>5, <2>2, MoversShape DEF vars, Inv, DataInv, Written
  <2>6. DataInv'
    BY <1>5, <2>2, <2>5, DataKept DEF vars, Inv
  <2> QED  BY <2>1, <2>4, <2>6 DEF Inv
<1> QED  BY <1>1, <1>2, <1>3, <1>4, <1>5 DEF Next

LEMMA InvHolds ==
    ASSUME Policy = "FCFS", "suspend" \in NonPreemptible
    PROVE  Spec => []Inv
<1>1. Inv /\ [Next]_vars => Inv'
  BY NextInv
<1> QED  BY <1>1, InitInv, PTL DEF Spec

-----------------------------------------------------------------------------
LEMMA LostNothing == Inv => NothingLost
<1> SUFFICES ASSUME Inv, program = "disco2", NEW b \in Blocks
             PROVE  \/ \E d \in Blocks : store[d] = b
                    \/ \E c \in Clients, n \in {1, 2} : buffer[c][n] = b
  BY DEF NothingLost
<1>1. CASE ~Moved(b)
  BY <1>1 DEF Inv, DataInv, Moving
<1>2. CASE Moved(b)
  <2>1. PICK c \in Clients, n \in BPT : b = Orig(c, n) \/ b = Dest(c, n)
    BY <1>2 DEF Moved, BPT
  <2>2. Exchange(c, n) /\ Carries(c) /\ Orig(c, n) \in Blocks /\ Dest(c, n) \in Blocks
    BY Apart DEF Inv, DataInv, Moving
  <2>3. CASE n = i[c] /\ step[c] \in {3, 4}
    <3>1. i[c] < blocksPerTask
      BY <2>3, SharesFit DEF BPT
    <3>2. buffer[c][2] = Dest(c, n) /\ buffer[c][1] = Orig(c, n)
      BY <2>2, <2>3, <3>1 DEF Carries
    <3> QED  BY <2>1, <3>2
  <2>4. CASE ~(n = i[c] /\ step[c] \in {3, 4})
    <3>1. {store[Orig(c, n)], store[Dest(c, n)]} = {Orig(c, n), Dest(c, n)}
      BY <2>2, <2>4 DEF Exchange
    <3> QED  BY <2>1, <2>2, <3>1
  <2> QED  BY <2>3, <2>4
<1> QED  BY <1>1, <1>2

LEMMA AllDone == Inv => DiskAtTheEnd
<1> SUFFICES ASSUME Inv, Finished, NEW b \in Blocks
             PROVE  store[b] = IF program = "disco1" THEN Char
                               ELSE IF Moved(b) THEN numblocks - 1 - b ELSE b
  BY DEF DiskAtTheEnd
<1>1. CASE program = "disco1"
  <2>1. 0 \in Clients /\ numblocks \in Nat /\ b \in Nat /\ b < numblocks
    BY MoversShape
  <2>2. i[0] = 2 * numblocks
    BY <1>1, <2>1 DEF Finished, Rounds
  <2>3. b < i[0] - numblocks
    BY <2>1, <2>2
  <2> QED  BY <1>1, <2>3 DEF Inv, DataInv, Written
<1>2. CASE program = "disco2" /\ ~Moved(b)
  BY <1>2 DEF Inv, DataInv, Moving
<1>3. CASE program = "disco2" /\ Moved(b)
  <2>1. PICK c \in Clients, n \in BPT : b = Orig(c, n) \/ b = Dest(c, n)
    BY <1>3 DEF Moved, BPT
  <2>2. Exchange(c, n) /\ i[c] = blocksPerTask
    BY <1>3 DEF Inv, DataInv, Moving, Finished, Rounds
  <2>3. n < i[c]
    BY <2>2, SharesFit DEF BPT
  <2>4. store[Dest(c, n)] = Orig(c, n) /\ store[Orig(c, n)] = Dest(c, n)
    BY <2>2, <2>3 DEF Exchange
  <2>5. numblocks - 1 - Orig(c, n) = Dest(c, n) /\ numblocks - 1 - Dest(c, n) = Orig(c, n)
    BY Apart
  <2> QED  BY <1>3, <2>1, <2>4, <2>5
<1> QED  BY <1>1, <1>2, <1>3 DEF Inv, Types

\* However many movers there are and however large the disk, no block's contents are
\* lost while they exchange blocks (pingpong-disco2.c:39-85), if the requests are
\* served in the order of their calls and no quantum ends between sem_up and
\* task_suspend (ppos_disk.c:194-197).
THEOREM MoversLoseNothing ==
    ASSUME Policy = "FCFS", "suspend" \in NonPreemptible
    PROVE  Spec => []NothingLost
<1> QED  BY InvHolds, LostNothing, PTL

\* And at the end, under the same two conditions, the disk is as each program means it
\* (pingpong-disco1.c:58-76, pingpong-disco2.c:31-85).
THEOREM DiskAsMeant ==
    ASSUME Policy = "FCFS", "suspend" \in NonPreemptible
    PROVE  Spec => []DiskAtTheEnd
<1> QED  BY InvHolds, AllDone, PTL
=============================================================================
