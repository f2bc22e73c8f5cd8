------------------------- MODULE TestProgramsProofs -------------------------
(***************************************************************************)
(* What the test programs show, for any numbers of tasks, rounds and       *)
(* places: from the theorems about all programs and the scripts.           *)
(***************************************************************************)
EXTENDS TestPrograms, KernelProofs, ListsAndSums

-----------------------------------------------------------------------------
\* A sequence that is made of two.
LEMMA Concat ==
    ASSUME NEW S, NEW a \in Seq(S), NEW b \in Seq(S)
    PROVE  /\ a \o b \in Seq(S) /\ Len(a \o b) = Len(a) + Len(b)
           /\ \A i \in 1 .. Len(a) : (a \o b)[i] = a[i]
           /\ \A i \in 1 .. Len(b) : (a \o b)[Len(a) + i] = b[i]
OBVIOUS

LEMMA CrewFacts ==
    /\ Crew \in Seq(Tasks) /\ Len(Crew) \in Nat /\ Len(Crew) >= 3
    /\ Elems(Crew) \subseteq Tasks
    /\ \A i \in 1 .. Len(Crew) : Crew[i] \in Elems(Crew)
    /\ \A t \in Elems(Crew) : \E i \in 1 .. Len(Crew) : t = Crew[i]
    /\ CreateAll(Crew) \in Seq(Instr) /\ Len(CreateAll(Crew)) = Len(Crew)
    /\ JoinAll(Crew) \in Seq(Instr) /\ Len(JoinAll(Crew)) = Len(Crew)
    /\ \A i \in 1 .. Len(Crew) : /\ CreateAll(Crew)[i] = <<"create", Crew[i], 0>>
                                 /\ JoinAll(Crew)[i] = <<"join", Crew[i], 0>>
<1>1. Crew \in Seq(Tasks) /\ Len(Crew) \in Nat /\ Len(Crew) >= 3 /\ DOMAIN Crew = 1 .. Len(Crew)
  BY CrewShape
<1>2. \A t \in Tasks : <<"create", t, 0>> \in Instr /\ <<"join", t, 0>> \in Instr
  BY DEF Instr
<1>3. /\ \A i \in 1 .. Len(Crew) : Crew[i] \in Tasks
      /\ Elems(Crew) \subseteq Tasks
      /\ \A i \in 1 .. Len(Crew) : Crew[i] \in Elems(Crew)
      /\ \A t \in Elems(Crew) : \E i \in 1 .. Len(Crew) : t = Crew[i]
  BY <1>1 DEF Elems
<1>4. CreateAll(Crew) = [i \in 1 .. Len(Crew) |-> <<"create", Crew[i], 0>>]
      /\ JoinAll(Crew) = [i \in 1 .. Len(Crew) |-> <<"join", Crew[i], 0>>]
  BY <1>1 DEF CreateAll, JoinAll, On
<1>5. CreateAll(Crew) \in Seq(Instr) /\ JoinAll(Crew) \in Seq(Instr)
  BY <1>1, <1>2, <1>3, <1>4
<1>6. Len(CreateAll(Crew)) = Len(Crew) /\ Len(JoinAll(Crew)) = Len(Crew)
  BY <1>1, <1>4
<1>. QED
  BY <1>1, <1>3, <1>4, <1>5, <1>6

\* Main creates no task twice, so no task is in the crew twice.
LEMMA CrewOnce ==
    ASSUME CpuOK, NEW k \in Nat, \A i \in 1 .. Len(Crew) :
             k + i \in DOMAIN prog.script[Main] /\ prog.script[Main][k + i] = <<"create", Crew[i], 0>>
    PROVE  /\ \A i, j \in 1 .. Len(Crew) : Crew[i] = Crew[j] => i = j
           /\ IsFiniteSet(Elems(Crew)) /\ Cardinality(Elems(Crew)) = Len(Crew)
<1>1. \A i, j \in 1 .. Len(Crew) : Crew[i] = Crew[j] => i = j
  <2>1. SUFFICES ASSUME NEW i \in 1 .. Len(Crew), NEW j \in 1 .. Len(Crew), Crew[i] = Crew[j]
                 PROVE  i = j
    OBVIOUS
  <2>2. prog.script[Main][k + i] = prog.script[Main][k + j] /\ prog.script[Main][k + i][1] = "create"
    <3>1. /\ prog.script[Main][k + i] = <<"create", Crew[i], 0>>
          /\ prog.script[Main][k + j] = <<"create", Crew[j], 0>>
      OBVIOUS
    <3>. QED
      BY <2>1, <3>1
  <2>3. k + i = k + j
    <3>1. k + i \in DOMAIN prog.script[Main] /\ k + j \in DOMAIN prog.script[Main]
      OBVIOUS
    <3>. QED
      BY <2>2, <3>1, ProgramShape DEF CpuOK
  <2>. QED
    BY <2>3, CrewFacts
<1> DEFINE N == 1 .. Len(Crew)
           f == [i \in N |-> Crew[i]]
<1>2. f \in [N -> Elems(Crew)] /\ \A i \in N : f[i] = Crew[i]
  BY CrewFacts
<1>3. f \in Bijection(N, Elems(Crew))
  <2>1. f \in Injection(N, Elems(Crew))
    BY <1>1, <1>2 DEF Injection, IsInjective
  <2>2. f \in Surjection(N, Elems(Crew))
    BY <1>2, CrewFacts DEF Surjection
  <2>. QED
    BY <2>1, <2>2 DEF Bijection
<1>4. IsFiniteSet(N) /\ Cardinality(N) = Len(Crew)
  <2>1. 1 \in Int /\ Len(Crew) \in Int /\ Len(Crew) >= 1 /\ Len(Crew) - 1 + 1 = Len(Crew)
    BY CrewFacts
  <2>. QED
    BY <2>1, FS_Interval
<1> HIDE DEF N, f
<1>5. IsFiniteSet(Elems(Crew)) /\ Cardinality(Elems(Crew)) = Cardinality(N)
  BY <1>3, <1>4, FS_Bijection DEF ExistsBijection
<1>. QED
  BY <1>1, <1>4, <1>5

-----------------------------------------------------------------------------
(* pingpong-racecond: the sum. *)

\* The body of its tasks.
adding == <<Down("s1", 2), On("load", "soma"), <<"store", "soma", 1>>, On("up", "s1"),
            <<"again", None, 1>>, I("exit")>>

LEMMA RaceScripts ==
    ASSUME CpuOK, prog = PingpongRacecond
    PROVE  LET n == Len(Crew)
               main == prog.script[Main]
           IN  /\ \A t \in Elems(Crew) : prog.script[t] = adding
               /\ \A t \in Tasks \ Elems(Crew) : prog.script[t] = <<>>
               /\ main \in Seq(Instr) /\ Len(main) = 2 * n + 3
               /\ main[1] = <<"sem_create", "s1", 1>>
               /\ \A i \in 1 .. n : main[1 + i] = <<"create", Crew[i], 0>>
               /\ \A i \in 1 .. n : main[n + 1 + i] = <<"join", Crew[i], 0>>
               /\ main[2 * n + 2] = <<"sem_destroy", "s1", 0>>
               /\ main[2 * n + 3] = <<"exit", None, 0>>
               /\ prog.rounds = Rounds
<1> DEFINE n == Len(Crew)
           a == <<<<"sem_create", "s1", 1>>>>
           b == CreateAll(Crew)
           c == JoinAll(Crew)
           d == <<On("sem_destroy", "s1"), I("exit")>>
           S == UNION {Instr, {<<"sem_create", "s1", 1>>, On("sem_destroy", "s1"), I("exit")}}
<1>0. prog.script = [t \in Threads |-> IF t = Main THEN a \o b \o c \o d
                                      ELSE IF t \in Elems(Crew) THEN adding ELSE <<>>]
      /\ prog.rounds = Rounds
  BY DEF PingpongRacecond, Program, Each, adding
<1>1. a \in Seq(S) /\ b \in Seq(S) /\ c \in Seq(S) /\ d \in Seq(S)
      /\ Len(a) = 1 /\ Len(b) = n /\ Len(c) = n /\ Len(d) = 2 /\ n \in Nat
  BY CrewFacts
<1> HIDE DEF a, b, c, d, S
<1>2. /\ a \o b \in Seq(S) /\ Len(a \o b) = 1 + n
      /\ \A i \in 1 .. 1 : (a \o b)[i] = a[i]
      /\ \A i \in 1 .. n : (a \o b)[1 + i] = b[i]
  <2>0. a \in Seq(S) /\ b \in Seq(S)
    BY <1>1
  <2>2. /\ a \o b \in Seq(S) /\ Len(a \o b) = Len(a) + Len(b)
        /\ \A i \in 1 .. Len(a) : (a \o b)[i] = a[i]
        /\ \A i \in 1 .. Len(b) : (a \o b)[Len(a) + i] = b[i]
    BY <2>0, Concat
  <2>. QED
    BY <1>1, <2>2
<1> DEFINE ab == a \o b
<1> HIDE DEF ab
<1>3. /\ ab \o c \in Seq(S) /\ Len(ab \o c) = 1 + n + n
      /\ \A i \in 1 .. 1 + n : (ab \o c)[i] = ab[i]
      /\ \A i \in 1 .. n : (ab \o c)[1 + n + i] = c[i]
  <2>1. ab \in Seq(S) /\ Len(ab) = 1 + n
    BY <1>2 DEF ab
  <2>0. ab \in Seq(S) /\ c \in Seq(S)
    BY <1>1, <2>1
  <2>2. /\ ab \o c \in Seq(S) /\ Len(ab \o c) = Len(ab) + Len(c)
        /\ \A i \in 1 .. Len(ab) : (ab \o c)[i] = ab[i]
        /\ \A i \in 1 .. Len(c) : (ab \o c)[Len(ab) + i] = c[i]
    BY <2>0, Concat
  <2>. QED
    BY <1>1, <2>1, <2>2
<1> DEFINE abc == ab \o c
<1> HIDE DEF abc
<1>4. /\ abc \o d \in Seq(S) /\ Len(abc \o d) = 1 + n + n + 2
      /\ \A i \in 1 .. 1 + n + n : (abc \o d)[i] = abc[i]
      /\ \A i \in 1 .. 2 : (abc \o d)[1 + n + n + i] = d[i]
  <2>1. abc \in Seq(S) /\ Len(abc) = 1 + n + n
    BY <1>3 DEF abc
  <2>0. abc \in Seq(S) /\ d \in Seq(S)
    BY <1>1, <2>1
  <2>2. /\ abc \o d \in Seq(S) /\ Len(abc \o d) = Len(abc) + Len(d)
        /\ \A i \in 1 .. Len(abc) : (abc \o d)[i] = abc[i]
        /\ \A i \in 1 .. Len(d) : (abc \o d)[Len(abc) + i] = d[i]
    BY <2>0, Concat
  <2>. QED
    BY <1>1, <2>1, <2>2
<1>5. /\ Main \in Threads /\ Tasks \subseteq Threads /\ Main \notin Tasks
      /\ prog.script[Main] \in Seq(Instr)
  BY ThreadsDiffer, ProgramShape DEF Threads, CpuOK
<1> DEFINE m == abc \o d
<1>6. prog.script[Main] = m
  BY <1>0, <1>5 DEF abc, ab
<1>7. /\ \A t \in Elems(Crew) : prog.script[t] = adding
      /\ \A t \in Tasks \ Elems(Crew) : prog.script[t] = <<>>
  BY <1>0, <1>5, CrewFacts
<1>8. m[1] = <<"sem_create", "s1", 1>>
  <2>1. 1 \in 1 .. 1 /\ 1 \in 1 .. 1 + n /\ 1 \in 1 .. 1 + n + n
    BY <1>1
  <2>2. m[1] = a[1]
    BY <1>2, <1>3, <1>4, <2>1 DEF ab, abc
  <2>. QED
    BY <2>2 DEF a
<1>9. ASSUME NEW i \in 1 .. n
      PROVE  m[1 + i] = <<"create", Crew[i], 0>> /\ m[n + 1 + i] = <<"join", Crew[i], 0>>
  <2>1. 1 + i \in 1 .. 1 + n /\ 1 + i \in 1 .. 1 + n + n /\ 1 + n + i \in 1 .. 1 + n + n
        /\ n + 1 + i = 1 + n + i
    BY <1>1
  <2>2. m[1 + i] = b[i] /\ m[1 + n + i] = c[i]
    BY <1>2, <1>3, <1>4, <2>1 DEF ab, abc
  <2>. QED
    BY <2>1, <2>2, CrewFacts DEF b, c
<1>10. m[2 * n + 2] = d[1] /\ m[2 * n + 3] = d[2]
  <2>1. 2 * n + 2 = 1 + n + n + 1 /\ 2 * n + 3 = 1 + n + n + 2
    BY <1>1
  <2>. QED
    BY <1>4, <2>1
<1>11. d[1] = <<"sem_destroy", "s1", 0>> /\ d[2] = <<"exit", None, 0>>
  BY DEF d, On, I
<1>12. Len(m) = 2 * n + 3
  <2>1. 1 + n + n + 2 = 2 * n + 3
    BY <1>1
  <2> HIDE DEF m
  <2>. QED
    BY <1>4, <2>1 DEF m
<1> HIDE DEF m
<1>. QED
  BY <1>0, <1>5, <1>6, <1>7, <1>8, <1>9, <1>10, <1>11, <1>12

\* Its semaphore is a lock that guards the sum.
LEMMA RaceGuarded ==
    ASSUME CpuOK, prog = PingpongRacecond
    PROVE  Prepared(prog) /\ Makes(prog) = {1} /\ Sems(prog) = {"s1"} /\ "soma" \in Guarded[prog]
<1> DEFINE n == Len(Crew)
           main == prog.script[Main]
<1>1. /\ \A t \in Elems(Crew) : prog.script[t] = adding
      /\ \A t \in Tasks \ Elems(Crew) : prog.script[t] = <<>>
      /\ main \in Seq(Instr) /\ Len(main) = 2 * n + 3
      /\ main[1] = <<"sem_create", "s1", 1>>
      /\ \A i \in 1 .. n : main[1 + i] = <<"create", Crew[i], 0>>
      /\ \A i \in 1 .. n : main[n + 1 + i] = <<"join", Crew[i], 0>>
      /\ main[2 * n + 2] = <<"sem_destroy", "s1", 0>>
      /\ main[2 * n + 3] = <<"exit", None, 0>>
  BY RaceScripts
<1>2. n \in Nat /\ n >= 3 /\ prog \in Programs
  BY CrewFacts DEF CpuOK
<1>3. ASSUME NEW j \in DOMAIN main
      PROVE  main[j][1] \in {"sem_create", "create", "join", "sem_destroy", "exit"}
             /\ (main[j][1] = "sem_create" => j = 1) /\ (main[j][1] = "create" => 1 < j)
  <2>1. j \in 1 .. 2 * n + 3
    BY <1>1, <1>2
  <2>2. CASE j = 1
    BY <1>1, <2>2
  <2>3. CASE j \in 2 .. n + 1
    <3>1. j - 1 \in 1 .. n /\ j = 1 + (j - 1)
      BY <1>2, <2>3
    <3>2. main[j] = <<"create", Crew[j - 1], 0>>
      BY <1>1, <3>1
    <3>. QED
      BY <1>2, <2>3, <3>2
  <2>4. CASE j \in n + 2 .. 2 * n + 1
    <3>1. j - n - 1 \in 1 .. n /\ j = n + 1 + (j - n - 1)
      BY <1>2, <2>4
    <3>2. main[j] = <<"join", Crew[j - n - 1], 0>>
      BY <1>1, <3>1
    <3>. QED
      BY <3>2
  <2>5. CASE j = 2 * n + 2
    BY <1>1, <2>5
  <2>6. CASE j = 2 * n + 3
    BY <1>1, <2>6
  <2>. QED
    BY <1>2, <2>1, <2>2, <2>3, <2>4, <2>5, <2>6
<1>4. 1 \in DOMAIN main /\ main[1][1] = "sem_create" /\ main[1][2] = "s1" /\ main[1][3] = 1
  BY <1>1, <1>2
<1>5. Makes(prog) = {1}
  BY <1>3, <1>4 DEF Makes
<1>6. Sems(prog) = {"s1"}
  BY <1>4, <1>5 DEF Sems
<1>7. /\ DOMAIN adding = 1 .. 6 /\ Len(adding) = 6
      /\ adding[1] = <<"down", "s1", 2>> /\ adding[2] = <<"load", "soma", 0>>
      /\ adding[3] = <<"store", "soma", 1>> /\ adding[4] = <<"up", "s1", 0>>
      /\ adding[5] = <<"again", None, 1>> /\ adding[6] = <<"exit", None, 0>>
  BY DEF adding, Down, On, I
<1>8. Prepared(prog)
  <2>1. ASSUME NEW t \in Tasks, NEW i \in DOMAIN prog.script[t], prog.script[t][i][1] = "down"
        PROVE  prog.script[t][i][2] \in Sems(prog)
    <3>1. CASE t \in Elems(Crew)
      <4>1. i \in 1 .. 6 /\ prog.script[t] = adding
        BY <1>1, <1>7, <3>1
      <4>. QED
        BY <1>6, <1>7, <2>1, <4>1
    <3>2. CASE t \notin Elems(Crew)
      BY <1>1, <3>2
    <3>. QED
      BY <3>1, <3>2
  <2>. QED
    BY <1>3, <1>5, <2>1 DEF Prepared
<1> DEFINE r == Lock("s1")
<1>9. r.sems = {"s1"} /\ r.cell = None /\ r.gain = 1 /\ "soma" \in Cells /\ None # "soma"
  <2>1. \E t \in Tasks : adding \in Seq(Instr)
    <3>1. Crew[1] \in Elems(Crew) /\ Crew[1] \in Tasks
      BY CrewFacts
    <3>. QED
      BY <1>1, <1>2, <3>1, ProgramShape DEF Threads
  <2>2. adding[2] \in Instr
    BY <1>7, <2>1
  <2>3. "soma" \in Cells
    BY <1>7, <2>2 DEF Instr
  <2>. QED
    BY <2>3, NoneIsNoCell DEF Lock
<1>10. \A i \in 1 .. 6 : /\ Takes(r, adding[i]) <=> i = 1
                         /\ Gives(r, adding[i]) <=> i = 4
  BY <1>7, <1>9 DEF Takes, Gives
<1>11. Held(r, adding) = {2, 3, 4}
  <2>1. \A i \in 1 .. Len(adding) + 1 : i \in 1 .. 7 /\ \A j \in 1 .. i - 1 : j \in 1 .. 6
    BY <1>7
  <2>2. ASSUME NEW i \in {2, 3, 4} PROVE i \in Held(r, adding)
    <3>1. 1 \in 1 .. i - 1 /\ i \in 1 .. Len(adding) + 1 /\ \A k \in 1 .. i - 1 : k \in 1 .. 6 /\ k # 4
      BY <1>7
    <3>. QED
      BY <1>10, <3>1 DEF Held
  <2>3. ASSUME NEW i \in Held(r, adding) PROVE i \in {2, 3, 4}
    <3>1. PICK j \in 1 .. i - 1 : Takes(r, adding[j]) /\ \A k \in j .. i - 1 : ~Gives(r, adding[k])
      BY DEF Held
    <3>2. i \in 1 .. 7 /\ j = 1
      BY <1>10, <2>1, <3>1 DEF Held
    <3>3. 4 \notin 1 .. i - 1
      BY <1>10, <3>1, <3>2
    <3>. QED
      BY <3>1, <3>2, <3>3
  <2>. QED
    BY <2>2, <2>3
<1>12. ASSUME NEW t \in Tasks, NEW i \in DOMAIN prog.script[t]
       PROVE  i \in 1 .. 6 /\ prog.script[t] = adding
  <2>1. CASE t \in Elems(Crew)
    BY <1>1, <1>7, <2>1
  <2>2. CASE t \notin Elems(Crew)
    BY <1>1, <2>2
  <2>. QED
    BY <2>1, <2>2
<1>13. Closed(prog, r)
  <2>1. ASSUME NEW i \in 1 .. 6
        PROVE  /\ Takes(r, adding[i]) => i \notin {2, 3, 4}
               /\ Gives(r, adding[i]) => i \in {2, 3, 4}
               /\ adding[i][1] \in {"test", "goto", "again"} =>
                    (i \in {2, 3, 4} <=> adding[i][3] \in {2, 3, 4})
               /\ adding[i][2] # r.cell \/ adding[i][1] # "store"
    BY <1>7, <1>9, <1>10
  <2>. QED
    BY <1>11, <1>12, <2>1 DEF Closed
<1>14. Cardinality(Supply(prog, r)) = 1
  <2>1. Supply(prog, r) = {"s1"} \X (1 .. 1)
    BY <1>4, <1>5, <1>9 DEF Supply
  <2>2. {"s1"} \X (1 .. 1) = {<<"s1", 1>>}
    OBVIOUS
  <2>. QED
    BY <2>1, <2>2, FS_Singleton
<1>15. Guards(prog, "s1", "soma")
  <2>1. ASSUME NEW i \in 1 .. 6, adding[i][1] = "store", adding[i][2] = "soma"
        PROVE  /\ i > 1 /\ adding[i - 1] = <<"load", "soma", 0>> /\ i \in {2, 3, 4}
               /\ \A j \in 1 .. 6 :
                    adding[j][1] \in {"down", "test", "goto", "again"} => adding[j][3] # i
    <3>1. i = 3
      BY <1>7, <2>1
    <3>. QED
      BY <1>7, <3>1
  <2>. QED
    BY <1>11, <1>12, <1>13, <1>14, <2>1 DEF Guards
<1>. QED
  BY <1>2, <1>5, <1>6, <1>8, <1>9, <1>15 DEF Guarded

\* What a step does to the rounds left, to the place of a thread that ends or repeats, to
\* a thread that joins, and to what is in use.
LEMMA LoopSteps ==
    ASSUME TypeOK, NEW t \in Threads, Task(t)
    PROVE  /\ \A u \in Threads : u # t \/ Op(t) # "again" => left'[u] = left[u]
           /\ Op(t) = "again" =>
                IF left[t] > 0 THEN pc'[t].at = Num(t) /\ left'[t] = left[t] - 1
                               ELSE pc'[t].at = pc[t].at + 1 /\ left'[t] = left[t]
           /\ Op(t) = "exit" => pc'[t].at = pc[t].at
           /\ Op(t) \in {"load", "store", "up", "sem_create"} => pc'[t].at = pc[t].at + 1
           /\ Op(t) = "sem_create" => SemCreate(t)
           /\ \A s \in Semaphores : active[s] /\ ~active'[s] => Op(t) = "sem_destroy"
<1>0. /\ PcOK /\ left \in [Threads -> Nat] /\ pc[t].at \in DOMAIN prog.script[t] /\ CpuOK
      /\ active \in [Semaphores \cup Mqueues -> BOOLEAN] /\ Semaphores \cap Mqueues = {}
  BY Running, QueuesDiffer DEF TypeOK, DataOK, SyncOK
<1>1. \A n, s : MoveTo(t, n, s) => pc'[t].at = n /\ pc'[t].step = s
  BY <1>0 DEF MoveTo, PcOK
<1>2. CASE Compute(t)
  <2>1. Op(t) \in {"load", "store", "goto", "again"} /\ active' = active
    BY <1>2 DEF Compute, At, sync
  <2>2. \A u \in Threads : u # t \/ Op(t) # "again" => left'[u] = left[u]
    BY <1>0, <1>2 DEF Compute, At
  <2>3. Op(t) = "again" =>
          IF left[t] > 0 THEN pc'[t].at = Num(t) /\ left'[t] = left[t] - 1
                         ELSE pc'[t].at = pc[t].at + 1 /\ left'[t] = left[t]
    BY <1>0, <1>1, <1>2 DEF Compute, At, Next1, Goto
  <2>4. Op(t) \in {"load", "store"} => pc'[t].at = pc[t].at + 1
    BY <1>1, <1>2 DEF Compute, At, Next1, Goto
  <2>. QED
    BY <2>1, <2>2, <2>3, <2>4
<1>3. CASE Exit(t) \/ Exiting(t) \/ ExitDrain(t) \/ ExitSwitch(t)
  BY <1>1, <1>3 DEF Exit, Exiting, ExitDrain, ExitSwitch, At, Step, sync, data
<1>4. CASE Destroy(t) \/ DestroyLoop(t)
  BY <1>4 DEF Destroy, DestroyLoop, At, data, sync
<1>5. CASE SemCreate(t) \/ Up(t)
  BY <1>0, <1>1, <1>5 DEF SemCreate, Up, At, Next1, Goto, data
<1>6. CASE MqueueFlag(t)
  <2>1. Op(t) \in {"open", "close", "test"} /\ left' = left
    BY <1>6 DEF MqueueFlag, At, data
  <2>2. Arg(t) \in Mqueues
    BY <1>0, <2>1, Operands
  <2>3. \A s \in Semaphores : active'[s] = active[s]
    BY <1>0, <1>6, <2>2 DEF MqueueFlag
  <2>. QED
    BY <2>1, <2>3
<1>7. CASE Create(t) \/ Yield(t) \/ Join(t) \/ Sleep(t) \/ SwitchOut(t) \/ Return(t)
  BY <1>7 DEF Create, Yield, Join, Sleep, SwitchOut, Return, At, sync, data
<1>8. CASE DownTest(t) \/ DownRegion(t) \/ BarrierArrive(t) \/ BarrierRelease(t) \/ Halt(t)
  BY <1>8 DEF DownTest, DownRegion, BarrierArrive, BarrierRelease, Halt, At, sync, data
<1>. QED
  BY <1>2, <1>3, <1>4, <1>5, <1>6, <1>7, <1>8 DEF Task

\* Who goes on from a task_join has joined a task whose code is over.
LEMMA JoinPasses ==
    ASSUME TypeOK, EndsInv, JoinedHasEnded, NEW t \in Threads, Task(t), Op(t) = "join",
           pc'[t].at # pc[t].at
    PROVE  Over(Arg(t))
<1>1. \A n, s : MoveTo(t, n, s) => pc'[t].at = n /\ pc'[t].step = s
  BY DEF MoveTo, TypeOK, PcOK
<1>2. Join(t) \/ SwitchOut(t) \/ Return(t)
  BY DEF Task, Create, Yield, Sleep, SemCreate, DownTest, DownRegion, Up, Destroy,
     DestroyLoop, BarrierArrive, BarrierRelease, MqueueFlag, Exit, Exiting, ExitDrain,
     ExitSwitch, Halt, Compute, At
<1>3. CASE Join(t)
  <2>1. CpuOK /\ pc[t].at \in DOMAIN prog.script[t]
    BY Running DEF TypeOK
  <2>2. Arg(t) \in Threads
    BY <2>1, Operands DEF Threads
  <2>3. CASE state[Arg(t)] = "x"
    BY <2>2, <2>3 DEF EndsInv
  <2>4. CASE state[Arg(t)] # "x"
    BY <1>1, <1>3, <2>4 DEF Join, SuspendOn, Step
  <2>. QED
    BY <2>3, <2>4
<1>4. CASE SwitchOut(t)
  BY <1>1, <1>4 DEF SwitchOut, Step
<1>5. CASE Return(t)
  BY <1>5 DEF Return, At, JoinedHasEnded
<1>. QED
  BY <1>2, <1>3, <1>4, <1>5

\* What each task has added, and how the sum, the ends and main's place go together.
Added == [t \in Elems(Crew) |-> Rounds - left[t] + (IF pc[t].at >= 4 THEN 1 ELSE 0)]
RaceInv == prog = PingpongRacecond =>
    /\ \A t \in Elems(Crew) :
         /\ pc[t].at \in 1 .. 6 /\ left[t] <= Rounds
         /\ pc[t].at = 6 => left[t] = 0
         /\ Over(t) => pc[t].at = 6
    /\ \A i \in 1 .. Len(Crew) : pc[Main].at > Len(Crew) + 1 + i => Over(Crew[i])
    /\ pc[Main].at \in 2 .. 2 * Len(Crew) + 1 => active["s1"]
    /\ cell["soma"] = Cardinality(Area(Elems(Crew), Added))

\* Its script is over six instructions, and only main ends the semaphore.
LEMMA RaceFacts ==
    ASSUME PlacesInv, prog = PingpongRacecond
    PROVE  /\ prog \in Programs /\ Main \in Threads /\ Elems(Crew) \subseteq Threads
           /\ Main \notin Elems(Crew) /\ Rounds \in Nat /\ prog.rounds = Rounds
           /\ IsFiniteSet(Elems(Crew)) /\ Cardinality(Elems(Crew)) = Len(Crew)
           /\ "s1" \in Semaphores /\ "soma" \in Cells
           /\ \A t \in Threads \ {Main} : pc[t].at \in DOMAIN prog.script[t] =>
                /\ t \in Elems(Crew) /\ pc[t].at \in 1 .. 6
                /\ pc[t].at = 1 => Op(t) = "down" /\ Num(t) = 2
                /\ pc[t].at = 2 => Op(t) = "load"
                /\ pc[t].at = 3 => Op(t) = "store" /\ Arg(t) = "soma" /\ Num(t) = 1
                /\ pc[t].at = 4 => Op(t) = "up"
                /\ pc[t].at = 5 => Op(t) = "again" /\ Num(t) = 1
                /\ pc[t].at = 6 => Op(t) = "exit"
           /\ pc[Main].at \in DOMAIN prog.script[Main] =>
                /\ Op(Main) \in {"sem_create", "create", "join", "sem_destroy", "exit"}
                /\ pc[Main].at \in 1 .. 2 * Len(Crew) + 3
                /\ pc[Main].at = 1 => Op(Main) = "sem_create" /\ Arg(Main) = "s1"
                /\ Op(Main) = "sem_destroy" => pc[Main].at = 2 * Len(Crew) + 2
                /\ \A i \in 1 .. Len(Crew) : pc[Main].at = Len(Crew) + 1 + i =>
                     Op(Main) = "join" /\ Arg(Main) = Crew[i]
<1> DEFINE n == Len(Crew)
           main == prog.script[Main]
<1>0. CpuOK /\ n \in Nat /\ n >= 3 /\ prog \in Programs
  BY CrewFacts DEF PlacesInv, TypeOK, CpuOK
<1>1. /\ \A t \in Elems(Crew) : prog.script[t] = adding
      /\ \A t \in Tasks \ Elems(Crew) : prog.script[t] = <<>>
      /\ main \in Seq(Instr) /\ Len(main) = 2 * n + 3
      /\ main[1] = <<"sem_create", "s1", 1>>
      /\ \A i \in 1 .. n : main[1 + i] = <<"create", Crew[i], 0>>
      /\ \A i \in 1 .. n : main[n + 1 + i] = <<"join", Crew[i], 0>>
      /\ main[2 * n + 2] = <<"sem_destroy", "s1", 0>>
      /\ main[2 * n + 3] = <<"exit", None, 0>>
      /\ prog.rounds = Rounds
  BY <1>0, RaceScripts
<1>2. Main \in Threads /\ Elems(Crew) \subseteq Threads /\ Main \notin Elems(Crew)
      /\ Threads \ {Main} = Tasks
  BY CrewFacts, ThreadsDiffer DEF Threads
<1>3. \A i \in 1 .. n : 1 + i \in DOMAIN main
  BY <1>0, <1>1
<1>4. IsFiniteSet(Elems(Crew)) /\ Cardinality(Elems(Crew)) = n
  BY <1>0, <1>1, <1>3, CrewOnce
<1>5. "s1" \in Semaphores /\ "soma" \in Cells
  <2>1. Sems(prog) = {"s1"} /\ Makes(prog) = {1} /\ "soma" \in Guarded[prog]
    BY <1>0, RaceGuarded
  <2>2. main[1][2] \in Semaphores
    BY <1>0, <2>1, MakesFacts
  <2>. QED
    BY <1>0, <1>1, <2>1, <2>2 DEF Guarded
<1>6. /\ DOMAIN adding = 1 .. 6
      /\ adding[1] = <<"down", "s1", 2>> /\ adding[2] = <<"load", "soma", 0>>
      /\ adding[3] = <<"store", "soma", 1>> /\ adding[4] = <<"up", "s1", 0>>
      /\ adding[5] = <<"again", None, 1>> /\ adding[6] = <<"exit", None, 0>>
  BY DEF adding, Down, On, I
<1>7. ASSUME NEW t \in Threads \ {Main}, pc[t].at \in DOMAIN prog.script[t]
      PROVE  /\ t \in Elems(Crew) /\ pc[t].at \in 1 .. 6
             /\ pc[t].at = 1 => Op(t) = "down" /\ Num(t) = 2
             /\ pc[t].at = 2 => Op(t) = "load"
             /\ pc[t].at = 3 => Op(t) = "store" /\ Arg(t) = "soma" /\ Num(t) = 1
             /\ pc[t].at = 4 => Op(t) = "up"
             /\ pc[t].at = 5 => Op(t) = "again" /\ Num(t) = 1
             /\ pc[t].at = 6 => Op(t) = "exit"
  <2>1. t \in Elems(Crew)
    <3>1. CASE t \notin Elems(Crew)
      BY <1>1, <1>2, <1>7, <3>1
    <3>. QED
      BY <3>1
  <2>. QED
    BY <1>1, <1>6, <1>7, <2>1 DEF Op, Arg, Num, Ins
<1>8. ASSUME pc[Main].at \in DOMAIN main
      PROVE  /\ Op(Main) \in {"sem_create", "create", "join", "sem_destroy", "exit"}
             /\ pc[Main].at \in 1 .. 2 * n + 3
             /\ pc[Main].at = 1 => Op(Main) = "sem_create" /\ Arg(Main) = "s1"
             /\ Op(Main) = "sem_destroy" => pc[Main].at = 2 * n + 2
             /\ \A i \in 1 .. n : pc[Main].at = n + 1 + i =>
                  Op(Main) = "join" /\ Arg(Main) = Crew[i]
  <2> DEFINE j == pc[Main].at
  <2>1. j \in 1 .. 2 * n + 3 /\ Ins(Main) = main[j]
    BY <1>0, <1>1, <1>8 DEF Ins
  <2>2. CASE j = 1
    BY <1>0, <1>1, <2>1, <2>2 DEF Op, Arg
  <2>3. CASE j \in 2 .. n + 1
    <3>1. j - 1 \in 1 .. n /\ j = 1 + (j - 1)
      BY <1>0, <2>3
    <3>2. main[j] = <<"create", Crew[j - 1], 0>>
      BY <1>1, <3>1
    <3>. QED
      BY <1>0, <2>1, <2>3, <3>2 DEF Op, Arg
  <2>4. CASE j \in n + 2 .. 2 * n + 1
    <3>1. j - n - 1 \in 1 .. n /\ j = n + 1 + (j - n - 1)
      BY <1>0, <2>4
    <3>2. main[j] = <<"join", Crew[j - n - 1], 0>>
      BY <1>1, <3>1
    <3>3. \A i \in 1 .. n : j = n + 1 + i => i = j - n - 1
      BY <1>0
    <3>. QED
      BY <1>0, <2>1, <2>4, <3>2, <3>3 DEF Op, Arg
  <2>5. CASE j = 2 * n + 2 \/ j = 2 * n + 3
    BY <1>0, <1>1, <2>1, <2>5 DEF Op, Arg
  <2>. QED
    BY <1>0, <2>1, <2>2, <2>3, <2>4, <2>5
<1>. QED
  BY <1>0, <1>1, <1>2, <1>4, <1>5, <1>7, <1>8, CrewShape

\* A step of a task of the crew: one of the loop's, and what it has added is in the sum.
LEMMA RaceCrewStep ==
    ASSUME PlacesInv, PlacesInv', UnitsInv, RaceInv, prog = PingpongRacecond,
           NEW t \in Elems(Crew), Task(t)
    PROVE  /\ pc'[t].at \in 1 .. 6 /\ left'[t] <= Rounds
           /\ pc'[t].at = 6 => left'[t] = 0
           /\ pc[t].at = 6 => pc'[t].at = 6
           /\ cell'["soma"] - cell["soma"] = Added'[t] - Added[t]
<1>0. /\ TypeOK /\ TypeOK' /\ OnCpu /\ t \in Threads /\ t # Main /\ t \in Tasks
      /\ Rounds \in Nat /\ "soma" \in Cells /\ cell \in [Cells -> Int]
      /\ left \in [Threads -> Nat] /\ left' \in [Threads -> Nat]
      /\ taskExec = t /\ pc[t].at \in DOMAIN prog.script[t] /\ prog' = prog
  BY RaceFacts, Running, CrewFacts DEF PlacesInv, TypeOK, DataOK
<1>1. /\ pc[t].at \in 1 .. 6
      /\ pc[t].at = 1 => Op(t) = "down" /\ Num(t) = 2
      /\ pc[t].at = 2 => Op(t) = "load"
      /\ pc[t].at = 3 => Op(t) = "store" /\ Arg(t) = "soma" /\ Num(t) = 1
      /\ pc[t].at = 4 => Op(t) = "up"
      /\ pc[t].at = 5 => Op(t) = "again" /\ Num(t) = 1
      /\ pc[t].at = 6 => Op(t) = "exit"
  BY <1>0, RaceFacts
<1>2. /\ Op(t) # "again" => left'[t] = left[t]
      /\ Op(t) = "again" =>
           IF left[t] > 0 THEN pc'[t].at = Num(t) /\ left'[t] = left[t] - 1
                          ELSE pc'[t].at = pc[t].at + 1 /\ left'[t] = left[t]
      /\ Op(t) = "exit" => pc'[t].at = pc[t].at
      /\ Op(t) \in {"load", "store", "up"} => pc'[t].at = pc[t].at + 1
  BY <1>0, LoopSteps
<1>3. Op(t) = "down" => pc'[t].at \in {1, 2}
  <2>1. \/ pc'[t].at = pc[t].at
        \/ pc'[t].at = pc[t].at + 1
        \/ Op(t) \in {"down", "test", "goto", "again"} /\ pc'[t].at = Num(t)
    BY <1>0, Goes
  <2>. QED
    BY <1>1, <2>1
<1>4. left[t] <= Rounds /\ (pc[t].at = 6 => left[t] = 0) /\ (Over(t) => pc[t].at = 6)
      /\ (pc[Main].at \in 2 .. 2 * Len(Crew) + 1 => active["s1"])
      /\ \A i \in 1 .. Len(Crew) : pc[Main].at > Len(Crew) + 1 + i => Over(Crew[i])
  BY DEF RaceInv
<1>5. Added[t] = Rounds - left[t] + (IF pc[t].at >= 4 THEN 1 ELSE 0)
      /\ Added'[t] = Rounds - left'[t] + (IF pc'[t].at >= 4 THEN 1 ELSE 0)
  BY DEF Added
<1>6. /\ pc'[t].at \in 1 .. 6 /\ left'[t] <= Rounds
      /\ pc'[t].at = 6 => left'[t] = 0
      /\ pc[t].at = 6 => pc'[t].at = 6
      /\ Added'[t] - Added[t] = IF pc[t].at = 3 THEN 1 ELSE 0
  <2>1. /\ left[t] \in Nat /\ left'[t] \in Nat /\ left[t] <= Rounds /\ Rounds \in Nat
        /\ pc[t].at = 6 => left[t] = 0
    BY <1>0, <1>4
  <2>2. CASE pc[t].at \in {1, 2, 3, 4, 6}
    <3>1. left'[t] = left[t]
      BY <1>1, <1>2, <2>2
    <3>2. CASE pc[t].at = 1
      <4>1. pc'[t].at \in {1, 2}
        BY <1>1, <1>3, <3>2
      <4>. QED
        BY <1>5, <2>1, <3>1, <3>2, <4>1
    <3>3. CASE pc[t].at \in {2, 3, 4}
      <4>1. pc'[t].at = pc[t].at + 1
        BY <1>1, <1>2, <3>3
      <4>. QED
        BY <1>5, <2>1, <3>1, <3>3, <4>1
    <3>4. CASE pc[t].at = 6
      <4>1. pc'[t].at = 6
        BY <1>1, <1>2, <3>4
      <4>. QED
        BY <1>5, <2>1, <3>1, <3>4, <4>1
    <3>. QED
      BY <2>2, <3>2, <3>3, <3>4
  <2>3. CASE pc[t].at = 5
    BY <1>1, <1>2, <1>5, <2>1, <2>3
  <2>. QED
    BY <1>1, <2>2, <2>3
<1>7. CASE pc[t].at # 3
  <2>1. cell' = cell
    BY <1>0, <1>1, <1>7, DataSteps
  <2>. QED
    BY <1>0, <1>6, <1>7, <2>1
<1>8. CASE pc[t].at = 3
  <2>1. Prepared(prog) /\ Makes(prog) = {1} /\ Sems(prog) = {"s1"} /\ "soma" \in Guarded[prog]
    BY <1>0, RaceGuarded DEF TypeOK
  <2>2. state[t] # "n" /\ ~Over(t)
    BY <1>0, <1>4, <1>8 DEF OnCpu
  <2>3. pc[Main].at \in Nat /\ pc[Main].at > 1
    <3>1. ~AllNew
      BY <1>0, <2>2 DEF AllNew
    <3>2. pc[Main].at \in Nat
      BY <1>0, RaceFacts DEF TypeOK, PcOK
    <3>. QED
      BY <2>1, <3>1, <3>2 DEF UnitsInv, NewInv
  <2>4. pc[Main].at <= 2 * Len(Crew) + 1
    <3>1. PICK i \in 1 .. Len(Crew) : t = Crew[i]
      BY CrewFacts
    <3>2. ~(pc[Main].at > Len(Crew) + 1 + i)
      BY <1>4, <2>2, <3>1
    <3>. QED
      BY <2>3, <3>1, <3>2, CrewFacts
  <2>5. InUse
    <3>1. pc[Main].at \in 2 .. 2 * Len(Crew) + 1
      BY <2>3, <2>4, CrewFacts
    <3>. QED
      BY <1>4, <2>1, <3>1 DEF InUse
  <2>6. reg[t] = cell["soma"]
    BY <1>0, <1>1, <1>8, <2>1, <2>5 DEF UnitsInv, NoUpdateLost
  <2>7. cell' = [cell EXCEPT !["soma"] = reg[t] + 1]
    <3>1. Compute(t)
      BY <1>0, <1>1, <1>8, UpStoreSteps
    <3>. QED
      BY <1>0, <1>1, <1>8, <3>1, DataSteps
  <2>. QED
    BY <1>0, <1>6, <1>8, <2>6, <2>7
<1>. QED
  BY <1>7, <1>8

LEMMA RaceTask ==
    ASSUME PlacesInv, PlacesInv', EndsInv, UnitsInv, JoinedHasEnded, RaceInv,
           NEW t \in Threads, Task(t)
    PROVE  RaceInv'
<1>0. SUFFICES ASSUME (prog = PingpongRacecond)' PROVE
        /\ \A u \in Elems(Crew) :
             /\ pc'[u].at \in 1 .. 6 /\ left'[u] <= Rounds
             /\ pc'[u].at = 6 => left'[u] = 0
             /\ Over(u)' => pc'[u].at = 6
        /\ \A i \in 1 .. Len(Crew) : pc'[Main].at > Len(Crew) + 1 + i => Over(Crew[i])'
        /\ pc'[Main].at \in 2 .. 2 * Len(Crew) + 1 => active'["s1"]
        /\ cell'["soma"] = Cardinality(Area(Elems(Crew), Added'))
  BY DEF RaceInv
<1>1. prog = PingpongRacecond /\ prog' = prog
  BY <1>0, Running DEF PingpongRacecond, Program
<1>2. /\ TypeOK /\ TypeOK' /\ OnCpu /\ taskExec = t /\ pc[t].at \in DOMAIN prog.script[t]
      /\ PcOK /\ PcOK' /\ CpuOK
      /\ left \in [Threads -> Nat] /\ left' \in [Threads -> Nat]
      /\ cell \in [Cells -> Int] /\ cell' \in [Cells -> Int]
  BY Running DEF PlacesInv, TypeOK, DataOK
<1>3. /\ Main \in Threads /\ Elems(Crew) \subseteq Threads /\ Main \notin Elems(Crew)
      /\ Rounds \in Nat /\ IsFiniteSet(Elems(Crew)) /\ "s1" \in Semaphores /\ "soma" \in Cells
      /\ (t = Main \/ t \in Elems(Crew)) /\ Len(Crew) \in Nat /\ Len(Crew) >= 3
  BY <1>1, <1>2, RaceFacts, CrewFacts
<1>4. /\ \A u \in Elems(Crew) :
           /\ pc[u].at \in 1 .. 6 /\ left[u] <= Rounds
           /\ pc[u].at = 6 => left[u] = 0
           /\ Over(u) => pc[u].at = 6
      /\ \A i \in 1 .. Len(Crew) : pc[Main].at > Len(Crew) + 1 + i => Over(Crew[i])
      /\ pc[Main].at \in 2 .. 2 * Len(Crew) + 1 => active["s1"]
      /\ cell["soma"] = Cardinality(Area(Elems(Crew), Added))
  BY <1>1 DEF RaceInv
<1>5. \A u \in Threads : /\ Over(u) => Over(u)'
                         /\ Over(u)' => Over(u) \/ (u = t /\ Op(t) = "exit")
  BY <1>2, OverStays DEF EndsInv
<1>6. \A u \in Threads \ {t} : pc'[u] = pc[u] /\ left'[u] = left[u]
  BY <1>2, Moved, LoopSteps
<1>7. Added \in [Elems(Crew) -> Nat]
  <2>1. \A u \in Elems(Crew) : left[u] \in Nat /\ left[u] <= Rounds
    BY <1>2, <1>3, <1>4
  <2>. QED
    BY <1>3, <2>1 DEF Added
<1>8. CASE t = Main
  <2>1. pc' = [pc EXCEPT ![Main] = pc'[Main]] /\ \A u \in Elems(Crew) : pc'[u] = pc[u]
    BY <1>2, <1>3, <1>6, <1>8 DEF PcOK
  <2>2. /\ Op(Main) \in {"sem_create", "create", "join", "sem_destroy", "exit"}
        /\ pc[Main].at \in 1 .. 2 * Len(Crew) + 3
        /\ pc[Main].at = 1 => Op(Main) = "sem_create" /\ Arg(Main) = "s1"
        /\ Op(Main) = "sem_destroy" => pc[Main].at = 2 * Len(Crew) + 2
        /\ \A i \in 1 .. Len(Crew) : pc[Main].at = Len(Crew) + 1 + i =>
             Op(Main) = "join" /\ Arg(Main) = Crew[i]
    BY <1>1, <1>2, <1>8, RaceFacts
  <2>3. pc'[Main].at \in {pc[Main].at, pc[Main].at + 1}
    BY <1>2, <1>8, MainGoesOn
  <2>4. \A u \in Elems(Crew) : left'[u] = left[u] /\ (Over(u)' <=> Over(u))
    BY <1>3, <1>5, <1>6, <1>8
  <2>5. ASSUME NEW i \in 1 .. Len(Crew), pc'[Main].at > Len(Crew) + 1 + i
        PROVE  Over(Crew[i])'
    <3>0. Crew[i] \in Elems(Crew) /\ i \in Nat
      BY CrewFacts
    <3>1. CASE pc[Main].at > Len(Crew) + 1 + i
      BY <1>3, <1>4, <1>5, <3>0, <3>1
    <3>2. CASE ~(pc[Main].at > Len(Crew) + 1 + i)
      <4>1. pc[Main].at = Len(Crew) + 1 + i /\ pc'[Main].at # pc[Main].at
        BY <1>3, <2>2, <2>3, <2>5, <3>0, <3>2
      <4>2. Op(Main) = "join" /\ Arg(Main) = Crew[i]
        BY <2>2, <4>1
      <4>3. Over(Crew[i])
        BY <1>2, <1>8, <4>1, <4>2, JoinPasses
      <4>. QED
        BY <1>3, <1>5, <3>0, <4>3
    <3>. QED
      BY <3>1, <3>2
  <2>6. ASSUME pc'[Main].at \in 2 .. 2 * Len(Crew) + 1 PROVE active'["s1"]
    <3>1. CASE pc[Main].at = 1
      <4>1. Op(Main) = "sem_create" /\ Arg(Main) = "s1"
        BY <2>2, <3>1
      <4>2. SemCreate(Main)
        BY <1>2, <1>8, <4>1, LoopSteps
      <4>. QED
        BY <1>2, <1>3, <4>1, <4>2 DEF SemCreate, TypeOK, SyncOK
    <3>2. CASE pc[Main].at # 1
      <4>1. pc[Main].at \in 2 .. 2 * Len(Crew) + 1
        BY <1>3, <2>2, <2>3, <2>6, <3>2
      <4>2. Op(Main) # "sem_destroy"
        BY <1>3, <2>2, <4>1
      <4>. QED
        BY <1>2, <1>3, <1>4, <1>8, <4>1, <4>2, LoopSteps
    <3>. QED
      BY <3>1, <3>2
  <2>7. Added' = Added
    BY <2>1, <2>4 DEF Added
  <2>8. cell' = cell
    BY <1>2, <1>8, <2>2, DataSteps
  <2>. QED
    BY <1>4, <2>1, <2>4, <2>5, <2>6, <2>7, <2>8
<1>9. CASE t \in Elems(Crew)
  <2>1. /\ pc'[t].at \in 1 .. 6 /\ left'[t] <= Rounds
        /\ pc'[t].at = 6 => left'[t] = 0
        /\ pc[t].at = 6 => pc'[t].at = 6
        /\ cell'["soma"] - cell["soma"] = Added'[t] - Added[t]
    BY <1>1, <1>9, RaceCrewStep
  <2>2. Main # t /\ pc'[Main] = pc[Main]
    BY <1>3, <1>6, <1>9
  <2>3. Over(t)' => pc'[t].at = 6
    <3>1. pc[t].at \in 1 .. 6 /\ (Op(t) = "exit" => pc[t].at = 6)
      BY <1>1, <1>2, <2>2, RaceFacts
    <3>. QED
      BY <1>2, <1>4, <1>5, <1>9, <2>1, <3>1
  <2>4. \A u \in Elems(Crew) \ {t} :
          pc'[u] = pc[u] /\ left'[u] = left[u] /\ (Over(u)' => Over(u))
    BY <1>3, <1>5, <1>6
  <2>5. \A i \in 1 .. Len(Crew) : pc'[Main].at > Len(Crew) + 1 + i => Over(Crew[i])'
    BY <1>3, <1>4, <1>5, <2>2, CrewFacts
  <2>6. active["s1"] => active'["s1"]
    <3>1. Op(t) # "sem_destroy"
      BY <1>2, <2>2, OnlyMain
    <3>. QED
      BY <1>2, <1>3, <3>1, LoopSteps
  <2>7. Added' \in [Elems(Crew) -> Nat] /\ \A u \in Elems(Crew) \ {t} : Added'[u] = Added[u]
    <3>1. \A u \in Elems(Crew) : left'[u] \in Nat /\ left'[u] <= Rounds
      BY <1>2, <1>3, <1>4, <2>1, <2>4
    <3>2. Added' \in [Elems(Crew) -> Nat]
      BY <1>3, <3>1 DEF Added
    <3>3. \A u \in Elems(Crew) \ {t} : Added'[u] = Added[u]
      BY <2>4 DEF Added
    <3>. QED
      BY <3>2, <3>3
  <2>8. cell'["soma"] = Cardinality(Area(Elems(Crew), Added'))
    <3> DEFINE S == Elems(Crew)
               h == Added
               g == Added'
    <3>1. IsFiniteSet(S) /\ h \in [S -> Nat] /\ g \in [S -> Nat] /\ t \in S
          /\ \A u \in S \ {t} : g[u] = h[u]
      BY <1>3, <1>7, <1>9, <2>7
    <3>2. cell'["soma"] = cell["soma"] + g[t] - h[t] /\ cell["soma"] = Cardinality(Area(S, h))
      <4>1. cell'["soma"] \in Int /\ cell["soma"] \in Int /\ g[t] \in Int /\ h[t] \in Int
        BY <1>2, <1>3, <3>1
      <4>. QED
        BY <1>4, <2>1, <4>1
    <3> HIDE DEF S, h, g
    <3>3. Cardinality(Area(S, g)) = Cardinality(Area(S, h)) + g[t] - h[t]
      BY <3>1, ChangeColumn
    <3>4. cell'["soma"] = Cardinality(Area(S, g))
      BY <3>2, <3>3
    <3>. QED
      BY <3>4 DEF S, g
  <2>. QED
    BY <1>4, <2>1, <2>2, <2>3, <2>4, <2>5, <2>6, <2>8
<1>. QED
  BY <1>3, <1>8, <1>9

LEMMA RaceInductive ==
    PlacesInv /\ PlacesInv' /\ EndsInv /\ UnitsInv /\ JoinedHasEnded /\ RaceInv /\ [Next]_vars
      => RaceInv'
<1>. SUFFICES ASSUME PlacesInv, PlacesInv', EndsInv, UnitsInv, JoinedHasEnded, RaceInv,
                     [Next]_vars
              PROVE  RaceInv'
  OBVIOUS
<1>1. ASSUME NEW t \in Threads, Task(t) PROVE RaceInv'
  BY <1>1, RaceTask
<1>2. CASE UNCHANGED <<prog, pc, left, cell, active>>
  <2>1. SUFFICES ASSUME prog = PingpongRacecond, prog' = prog PROVE RaceInv'
    BY <1>2 DEF RaceInv, PingpongRacecond, Program
  <2>2. Added' = Added
    BY <1>2 DEF Added
  <2>. QED
    BY <1>2, <2>1, <2>2 DEF RaceInv, Over
<1>. QED
  BY <1>1, <1>2 DEF Next, Dispatch, Wake, Preempt, ToDispatcher, Finish, Ended, vars, cpu, sync,
     data

\* Which program has which name.
LEMMA RaceName ==
    ASSUME CpuOK, prog.name = "racecond" PROVE prog = PingpongRacecond
<1>1. prog \in ThePrograms
  BY ProgramsAre DEF CpuOK
<1>2. \A n, m, b, r : Program(n, m, b, r).name = n
  BY DEF Program
<1>3. /\ PingpongJoin.name = "join" /\ PingpongPreempcao.name = "preempcao"
      /\ PingpongContabPrio.name = "contab-prio" /\ PingpongScheduler.name = "scheduler"
      /\ PingpongDispatcher.name = "dispatcher" /\ PingpongSleep.name = "sleep"
      /\ PingpongSemaphore.name = "semaphore" /\ PingpongBarrier.name = "barrier"
      /\ PingpongProdcons.name = "prodcons" /\ PingpongMqueue.name = "mqueue"
  BY <1>2 DEF PingpongJoin, PingpongPreempcao, PingpongContabPrio, PingpongScheduler,
     PingpongDispatcher, PingpongSleep, PingpongSemaphore, PingpongBarrier, PingpongProdcons,
     PingpongMqueue
<1>. QED
  BY <1>1, <1>3 DEF ThePrograms

LEMMA RaceInit == Init => RaceInv
<1>. SUFFICES ASSUME Init, prog = PingpongRacecond PROVE RaceInv
  BY DEF RaceInv
<1>1. PlacesInv
  BY InitPlaces
<1>2. /\ Main \in Threads /\ Elems(Crew) \subseteq Threads /\ Rounds \in Nat /\ prog.rounds = Rounds
      /\ "soma" \in Cells /\ Main \notin Elems(Crew) /\ Len(Crew) \in Nat
  BY <1>1, RaceFacts, CrewFacts
<1>3. /\ \A u \in Threads : pc[u].at = 1 /\ left[u] = Rounds /\ ~Over(u)
      /\ cell["soma"] = 0
  BY <1>2 DEF Init, Over
<1>4. Cardinality(Area(Elems(Crew), Added)) = 0
  <2>1. \A u \in Elems(Crew) : Added[u] = 0
    BY <1>2, <1>3 DEF Added
  <2>. QED
    BY <2>1, NoColumns
<1>5. pc[Main].at = 1
  BY <1>2, <1>3
<1>6. ~(\E i \in 1 .. Len(Crew) : pc[Main].at > Len(Crew) + 1 + i)
      /\ pc[Main].at \notin 2 .. 2 * Len(Crew) + 1
  BY <1>2, <1>5
<1>7. \A u \in Elems(Crew) : u \in Threads
  BY <1>2
<1>. QED
  BY <1>2, <1>3, <1>4, <1>6, <1>7 DEF RaceInv

\* When the crew has ended each has added what its rounds are.
LEMMA RaceEnd ==
    ASSUME PlacesInv, RaceInv PROVE SumRight
<1>. SUFFICES ASSUME prog.name = "racecond", pc[Main].at > Len(prog.script[Main]) - 2
              PROVE  cell["soma"] = Len(Crew) * (Rounds + 1)
  BY DEF SumRight
<1>1. CpuOK /\ PcOK /\ prog = PingpongRacecond
  BY RaceName DEF PlacesInv, TypeOK
<1>2. /\ Main \in Threads /\ Elems(Crew) \subseteq Threads /\ Rounds \in Nat
      /\ IsFiniteSet(Elems(Crew)) /\ Cardinality(Elems(Crew)) = Len(Crew)
      /\ Len(Crew) \in Nat /\ Len(prog.script[Main]) = 2 * Len(Crew) + 3
  BY <1>1, RaceFacts, CrewFacts, RaceScripts
<1>3. pc[Main].at \in Nat
  BY <1>1, <1>2 DEF PcOK
<1>4. \A i \in 1 .. Len(Crew) : pc[Main].at > Len(Crew) + 1 + i
  BY <1>2, <1>3
<1>5. \A u \in Elems(Crew) : pc[u].at = 6 /\ left[u] = 0
  <2>1. \A u \in Elems(Crew) : Over(u)
    BY <1>1, <1>4, CrewFacts DEF RaceInv
  <2>. QED
    BY <1>1, <2>1 DEF RaceInv
<1>6. \A u \in Elems(Crew) : Added[u] = Rounds + 1
  BY <1>2, <1>5 DEF Added
<1> DEFINE S == Elems(Crew)
           m == Rounds + 1
<1>7. m \in Nat /\ \A u \in S : Added[u] = m
  BY <1>2, <1>6
<1>8. Area(S, Added) = S \X (1 .. m)
  <2> HIDE DEF S, m
  <2>1. \A i \in 1 .. m : i \in Nat
    BY <1>7
  <2>. QED
    BY <1>7, <2>1 DEF Area
<1>9. IsFiniteSet(1 .. m) /\ Cardinality(1 .. m) = m
  BY <1>7, FS_Interval
<1>10. Cardinality(S \X (1 .. m)) = Cardinality(S) * Cardinality(1 .. m)
  BY <1>2, <1>9, FS_Product
<1>. QED
  BY <1>1, <1>2, <1>8, <1>9, <1>10 DEF RaceInv

\* pingpong-racecond.c:72: with main's sem_destroy the sum is what the tasks were to add,
\* for any number of tasks and rounds and wherever a quantum ends.
THEOREM SumExact == Spec => []SumRight
<1>1. PlacesInv /\ RaceInv => SumRight
  BY RaceEnd
<1>. QED
  BY <1>1, RaceInductive, RaceInit, JoinWaits, EndsAlways, PlacesAlways, UnitsAlways, PTL DEF Spec

-----------------------------------------------------------------------------
(* pingpong-prodcons and pingpong-mqueue: the buffers. *)

\* Where a script holds a unit of a ring, told by a set of places that every instruction
\* keeps to.
Follows(r, script, H) ==
    /\ H \subseteq 1 .. Len(script) + 1 /\ 1 \notin H
    /\ \A i \in 1 .. Len(script) :
         /\ Takes(r, script[i]) => i \notin H /\ i + 1 \in H
         /\ Gives(r, script[i]) => i \in H /\ i + 1 \notin H
         /\ ~Takes(r, script[i]) /\ ~Gives(r, script[i]) => (i + 1 \in H <=> i \in H)
         /\ script[i][1] \in {"test", "goto", "again"} => (i \in H <=> script[i][3] \in H)
         /\ script[i][1] = "store" /\ script[i][2] = r.cell => script[i][3] \in {r.gain, -r.gain}
         /\ script[i][1] = "down" /\ script[i][3] \in H => i \in H

LEMMA FollowsHeld ==
    ASSUME NEW r, r.gain \in {1, -1}, NEW script, Len(script) \in Nat, NEW H, Follows(r, script, H)
    PROVE  Held(r, script) = H
<1> DEFINE n == Len(script)
           Good == {k \in 0 .. n : k + 1 \in Held(r, script) <=> k + 1 \in H}
<1>1. Held(r, script) \subseteq 1 .. n + 1 /\ H \subseteq 1 .. n + 1
  BY DEF Held, Follows
<1>2. 0 \in Good
  <2>1. 1 .. 1 - 1 = {}
    OBVIOUS
  <2>2. 1 \notin Held(r, script) /\ 1 \notin H
    BY <2>1 DEF Held, Follows
  <2>. QED
    BY <2>2
<1>3. ASSUME NEW k \in 1 .. n, k - 1 \in Good PROVE k \in Good
  <2>1. k \in Held(r, script) <=> k \in H
    BY <1>3
  <2>2. /\ Takes(r, script[k]) => k + 1 \in Held(r, script)
        /\ Gives(r, script[k]) => k + 1 \notin Held(r, script)
        /\ ~Takes(r, script[k]) /\ ~Gives(r, script[k]) =>
             (k + 1 \in Held(r, script) <=> k \in Held(r, script))
    BY HeldNext
  <2>3. /\ Takes(r, script[k]) => k + 1 \in H
        /\ Gives(r, script[k]) => k + 1 \notin H
        /\ ~Takes(r, script[k]) /\ ~Gives(r, script[k]) => (k + 1 \in H <=> k \in H)
    BY DEF Follows
  <2>4. k + 1 \in Held(r, script) <=> k + 1 \in H
    BY <2>1, <2>2, <2>3
  <2>. QED
    BY <2>4
<1>4. \A k \in 0 .. n : k \in Good
  <2>1. n \in Nat /\ \A k \in 1 .. n : k - 1 \in Good => k \in Good
    BY <1>3
  <2> HIDE DEF Good, n
  <2>. QED
    BY <1>2, <2>1, AfterEach
<1>5. \A m \in 1 .. n + 1 : m \in Held(r, script) <=> m \in H
  <2>1. SUFFICES ASSUME NEW m \in 1 .. n + 1 PROVE m \in Held(r, script) <=> m \in H
    OBVIOUS
  <2>2. m - 1 \in 0 .. n /\ (m - 1) + 1 = m
    OBVIOUS
  <2>3. m - 1 \in Good
    BY <1>4, <2>2
  <2>. QED
    BY <2>2, <2>3
<1>. QED
  BY <1>1, <1>5

\* A ring that every task keeps to.
LEMMA FollowsRing ==
    ASSUME CpuOK, NEW r, r.gain \in {1, -1}, \A t \in Tasks : \E H : Follows(r, prog.script[t], H)
    PROVE  Closed(prog, r) /\ Honest(prog, r)
<1>1. SUFFICES ASSUME NEW t \in Tasks, NEW i \in DOMAIN prog.script[t]
               PROVE  LET ins == prog.script[t][i]
                          held == Held(r, prog.script[t])
                      IN  /\ Takes(r, ins) => i \notin held
                          /\ Gives(r, ins) => i \in held
                          /\ ins[1] \in {"test", "goto", "again"} => (i \in held <=> ins[3] \in held)
                          /\ ins[1] = "store" /\ ins[2] = r.cell => ins[3] \in {r.gain, -r.gain}
                          /\ ins[1] = "down" /\ ins[3] \in held => i \in held
  BY DEF Closed, Honest
<1>2. prog.script[t] \in Seq(Instr)
  BY ProgramShape DEF CpuOK, Threads
<1>3. PICK H : Follows(r, prog.script[t], H)
  OBVIOUS
<1>4. Held(r, prog.script[t]) = H /\ i \in 1 .. Len(prog.script[t])
  BY <1>2, <1>3, FollowsHeld
<1>. QED
  BY <1>3, <1>4 DEF Follows

\* The two rings of a buffer: its places, of which an item takes one, and its items.
Rooms(q) == [sems |-> {Vaga(q)}, cell |-> q, gain |-> 1]
Items(q) == [sems |-> {Item(q)}, cell |-> q, gain |-> -1]
Buffered(script, q, lock, vaga, item) ==
    /\ Follows(Lock(Buffer(q)), script, lock)
    /\ Follows(Rooms(q), script, vaga) /\ Follows(Items(q), script, item)
    /\ \A i \in 1 .. Len(script) : script[i][1] = "store" /\ script[i][2] = q =>
         /\ i > 1 /\ script[i - 1] = <<"load", q, 0>> /\ i \in lock
         /\ \A j \in 1 .. Len(script) :
              script[j][1] \in {"down", "test", "goto", "again"} => script[j][3] # i

\* A buffer all tasks use so is never overfull, and nothing is taken from it when empty.
LEMMA BufferBounded ==
    ASSUME PlacesInv, UnitsInv, Prepared(prog), NEW q \in Cells,
           {Buffer(q), Vaga(q), Item(q)} \subseteq Sems(prog),
           Cardinality(Supply(prog, Lock(Buffer(q)))) = 1,
           Cardinality(Supply(prog, Rooms(q))) = Places, Cardinality(Supply(prog, Items(q))) = 0,
           \A t \in Tasks : \E lock, vaga, item : Buffered(prog.script[t], q, lock, vaga, item)
    PROVE  cell[q] \in 0 .. Places
<1>0. TypeOK /\ CpuOK /\ prog \in Programs /\ cell[q] \in Int /\ Places \in Nat
      /\ q # None
  BY CrewShape, NoneIsNoCell DEF PlacesInv, TypeOK, CpuOK, DataOK
<1>1. Lock(Buffer(q)).gain = 1 /\ Rooms(q).gain = 1 /\ Items(q).gain = -1
  BY DEF Lock, Rooms, Items
<1>2. /\ \A t \in Tasks : \E H : Follows(Lock(Buffer(q)), prog.script[t], H)
      /\ \A t \in Tasks : \E H : Follows(Rooms(q), prog.script[t], H)
      /\ \A t \in Tasks : \E H : Follows(Items(q), prog.script[t], H)
  BY DEF Buffered
<1>3. /\ Closed(prog, Lock(Buffer(q))) /\ Honest(prog, Lock(Buffer(q)))
      /\ Closed(prog, Rooms(q)) /\ Honest(prog, Rooms(q))
      /\ Closed(prog, Items(q)) /\ Honest(prog, Items(q))
  BY <1>0, <1>1, <1>2, FollowsRing
<1>4. Guards(prog, Buffer(q), q)
  <2>1. SUFFICES ASSUME NEW t \in Tasks, NEW i \in DOMAIN prog.script[t],
                        prog.script[t][i][1] = "store", prog.script[t][i][2] = q
                 PROVE  /\ i > 1 /\ prog.script[t][i - 1] = <<"load", q, 0>>
                        /\ i \in Held(Lock(Buffer(q)), prog.script[t])
                        /\ \A j \in DOMAIN prog.script[t] :
                             prog.script[t][j][1] \in {"down", "test", "goto", "again"} =>
                               prog.script[t][j][3] # i
    BY <1>3 DEF Guards
  <2>2. prog.script[t] \in Seq(Instr)
    BY <1>0, ProgramShape DEF Threads
  <2>3. PICK lock, vaga, item : Buffered(prog.script[t], q, lock, vaga, item)
    OBVIOUS
  <2>4. Held(Lock(Buffer(q)), prog.script[t]) = lock
    BY <1>1, <2>2, <2>3, FollowsHeld DEF Buffered
  <2>5. DOMAIN prog.script[t] = 1 .. Len(prog.script[t])
    BY <2>2
  <2>. QED
    BY <2>1, <2>3, <2>4, <2>5 DEF Buffered
<1>5. q \in Guarded[prog] /\ q \in Safe[prog]
  BY <1>0, <1>3, <1>4 DEF Guarded, Safe
<1>6. Rooms(q) \in RingsOf(prog) /\ Items(q) \in RingsOf(prog)
  BY <1>3, <1>5 DEF RingsOf, Rooms, Items
<1> DEFINE v == Marked(prog, Rooms(q))
           w == Marked(prog, Items(q))
<1>7. v \in AllRings[prog] /\ w \in AllRings[prog]
  BY <1>0, <1>6 DEF AllRings
<1>8. /\ v.firm /\ v.cell = q /\ v.gain = 1 /\ v.units = Places
      /\ w.firm /\ w.cell = q /\ w.gain = -1 /\ w.units = 0
  <2>1. v.firm /\ w.firm
    BY <1>3, <1>5 DEF Marked, Rooms, Items
  <2>2. v.units = Places /\ w.units = 0
    BY DEF Marked
  <2>. QED
    BY <2>1, <2>2 DEF Marked, Rooms, Items
<1> HIDE DEF v, w
<1>9. \A r \in AllRings[prog] : r.firm /\ r.cell # None => r.gain * cell[r.cell] <= r.units
  BY FirmCells DEF PlacesInv, UnitsInv
<1>. QED
  BY <1>0, <1>7, <1>8, <1>9

\* Four sequences one after another.
InTurn(s, a, b, c, d) ==
    /\ Len(s) = Len(a) + Len(b) + Len(c) + Len(d)
    /\ \A i \in 1 .. Len(a) : s[i] = a[i]
    /\ \A i \in Len(a) + 1 .. Len(a) + Len(b) : s[i] = b[i - Len(a)]
    /\ \A i \in Len(a) + Len(b) + 1 .. Len(a) + Len(b) + Len(c) :
         s[i] = c[i - (Len(a) + Len(b))]
    /\ \A i \in Len(a) + Len(b) + Len(c) + 1 .. Len(a) + Len(b) + Len(c) + Len(d) :
         s[i] = d[i - (Len(a) + Len(b) + Len(c))]

LEMMA FourPieces ==
    ASSUME NEW S, NEW a \in Seq(S), NEW b \in Seq(S), NEW c \in Seq(S), NEW d \in Seq(S)
    PROVE  InTurn(a \o b \o c \o d, a, b, c, d)
<1> DEFINE ab == a \o b
           abc == ab \o c
<1>1. /\ ab \in Seq(S) /\ Len(ab) = Len(a) + Len(b)
      /\ \A i \in 1 .. Len(a) : ab[i] = a[i]
      /\ \A i \in 1 .. Len(b) : ab[Len(a) + i] = b[i]
  <2>1. a \in Seq(S) /\ b \in Seq(S)
    OBVIOUS
  <2>. QED
    BY <2>1, Concat
<1> HIDE DEF ab
<1>2. /\ abc \in Seq(S) /\ Len(abc) = Len(ab) + Len(c)
      /\ \A i \in 1 .. Len(ab) : abc[i] = ab[i]
      /\ \A i \in 1 .. Len(c) : abc[Len(ab) + i] = c[i]
  <2>1. ab \in Seq(S) /\ c \in Seq(S)
    BY <1>1
  <2>. QED
    BY <2>1, Concat
<1> HIDE DEF abc
<1> DEFINE s == abc \o d
<1>3. /\ s \in Seq(S) /\ Len(s) = Len(abc) + Len(d)
      /\ \A i \in 1 .. Len(abc) : s[i] = abc[i]
      /\ \A i \in 1 .. Len(d) : s[Len(abc) + i] = d[i]
  <2>1. abc \in Seq(S) /\ d \in Seq(S)
    BY <1>2
  <2>. QED
    BY <2>1, Concat
<1> HIDE DEF s
<1>4. Len(a) \in Nat /\ Len(b) \in Nat /\ Len(c) \in Nat /\ Len(d) \in Nat
  OBVIOUS
<1>5. \A i \in 1 .. Len(a) : s[i] = a[i]
  BY <1>1, <1>2, <1>3, <1>4
<1>6. ASSUME NEW i \in Len(a) + 1 .. Len(a) + Len(b) PROVE s[i] = b[i - Len(a)]
  <2>1. /\ i \in 1 .. Len(ab) /\ i \in 1 .. Len(abc) /\ i - Len(a) \in 1 .. Len(b)
        /\ Len(a) + (i - Len(a)) = i
    BY <1>1, <1>2, <1>4
  <2>2. s[i] = ab[i] /\ ab[Len(a) + (i - Len(a))] = b[i - Len(a)]
    BY <1>1, <1>2, <1>3, <2>1
  <2>. QED
    BY <2>1, <2>2
<1>7. ASSUME NEW i \in Len(ab) + 1 .. Len(ab) + Len(c) PROVE s[i] = c[i - Len(ab)]
  <2>1. /\ i \in 1 .. Len(abc) /\ i - Len(ab) \in 1 .. Len(c)
        /\ Len(ab) + (i - Len(ab)) = i
    BY <1>1, <1>2, <1>4
  <2>2. s[i] = abc[i] /\ abc[Len(ab) + (i - Len(ab))] = c[i - Len(ab)]
    BY <1>2, <1>3, <2>1
  <2>. QED
    BY <2>1, <2>2
<1>8. ASSUME NEW i \in Len(abc) + 1 .. Len(abc) + Len(d) PROVE s[i] = d[i - Len(abc)]
  <2>1. i - Len(abc) \in 1 .. Len(d) /\ Len(abc) + (i - Len(abc)) = i
    BY <1>1, <1>2, <1>4
  <2>2. s[Len(abc) + (i - Len(abc))] = d[i - Len(abc)]
    BY <1>3, <2>1
  <2>. QED
    BY <2>1, <2>2
<1>9. Len(s) = Len(a) + Len(b) + Len(c) + Len(d)
      /\ Len(abc) = Len(a) + Len(b) + Len(c) /\ Len(ab) = Len(a) + Len(b)
  BY <1>1, <1>2, <1>3, <1>4
<1>. QED
  BY <1>5, <1>6, <1>7, <1>8, <1>9 DEF InTurn, s, abc, ab


\* The instructions of the bodies that use a buffer.
LEMMA ProdutorIs ==
    /\ Len(produtor) = 8
    /\ produtor[1] = <<"sleep", None, 0>> /\ produtor[2] = <<"down", "sVaga", 0>>
    /\ produtor[3] = <<"down", "sBuffer", 0>> /\ produtor[4] = <<"load", "s", 0>>
    /\ produtor[5] = <<"store", "s", 1>> /\ produtor[6] = <<"up", "sBuffer", 0>>
    /\ produtor[7] = <<"up", "sItem", 0>> /\ produtor[8] = <<"goto", None, 1>>
BY DEF produtor, Place, Retrieve, Send, Recv, Buffer, Item, Vaga, Down, On, I

LEMMA ConsumidorIs ==
    /\ Len(consumidor) = 8
    /\ consumidor[1] = <<"down", "sItem", 0>> /\ consumidor[2] = <<"down", "sBuffer", 0>>
    /\ consumidor[3] = <<"load", "s", 0>> /\ consumidor[4] = <<"store", "s", -1>>
    /\ consumidor[5] = <<"up", "sBuffer", 0>> /\ consumidor[6] = <<"up", "sVaga", 0>>
    /\ consumidor[7] = <<"sleep", None, 0>> /\ consumidor[8] = <<"goto", None, 1>>
BY DEF consumidor, Place, Retrieve, Send, Recv, Buffer, Item, Vaga, Down, On, I

LEMMA ProdBodyIs ==
    /\ Len(prodBody) = 10
    /\ prodBody[1] = <<"test", "s", 10>> /\ prodBody[2] = <<"down", "sVaga", 10>>
    /\ prodBody[3] = <<"down", "sBuffer", 10>> /\ prodBody[4] = <<"load", "s", 0>>
    /\ prodBody[5] = <<"store", "s", 1>> /\ prodBody[6] = <<"up", "sBuffer", 0>>
    /\ prodBody[7] = <<"up", "sItem", 0>> /\ prodBody[8] = <<"nap", None, 0>>
    /\ prodBody[9] = <<"goto", None, 1>> /\ prodBody[10] = <<"exit", None, 0>>
BY DEF prodBody, Place, Retrieve, Send, Recv, Buffer, Item, Vaga, Down, On, I

LEMMA ConsBodyIs ==
    /\ Len(consBody) = 10
    /\ consBody[1] = <<"test", "r", 10>> /\ consBody[2] = <<"down", "rItem", 10>>
    /\ consBody[3] = <<"down", "rBuffer", 10>> /\ consBody[4] = <<"load", "r", 0>>
    /\ consBody[5] = <<"store", "r", -1>> /\ consBody[6] = <<"up", "rBuffer", 0>>
    /\ consBody[7] = <<"up", "rVaga", 0>> /\ consBody[8] = <<"nap", None, 0>>
    /\ consBody[9] = <<"goto", None, 1>> /\ consBody[10] = <<"exit", None, 0>>
BY DEF consBody, Place, Retrieve, Send, Recv, Buffer, Item, Vaga, Down, On, I

LEMMA SomaBodyIs ==
    /\ Len(somaBody) = 31
    /\ somaBody[1] = <<"test", "s", 8>> /\ somaBody[2] = <<"down", "sItem", 8>>
    /\ somaBody[3] = <<"down", "sBuffer", 8>> /\ somaBody[4] = <<"load", "s", 0>>
    /\ somaBody[5] = <<"store", "s", -1>> /\ somaBody[6] = <<"up", "sBuffer", 0>>
    /\ somaBody[7] = <<"up", "sVaga", 0>> /\ somaBody[8] = <<"test", "s", 15>>
    /\ somaBody[9] = <<"down", "sItem", 15>> /\ somaBody[10] = <<"down", "sBuffer", 15>>
    /\ somaBody[11] = <<"load", "s", 0>> /\ somaBody[12] = <<"store", "s", -1>>
    /\ somaBody[13] = <<"up", "sBuffer", 0>> /\ somaBody[14] = <<"up", "sVaga", 0>>
    /\ somaBody[15] = <<"test", "s", 22>> /\ somaBody[16] = <<"down", "sItem", 22>>
    /\ somaBody[17] = <<"down", "sBuffer", 22>> /\ somaBody[18] = <<"load", "s", 0>>
    /\ somaBody[19] = <<"store", "s", -1>> /\ somaBody[20] = <<"up", "sBuffer", 0>>
    /\ somaBody[21] = <<"up", "sVaga", 0>> /\ somaBody[22] = <<"test", "r", 29>>
    /\ somaBody[23] = <<"down", "rVaga", 29>> /\ somaBody[24] = <<"down", "rBuffer", 29>>
    /\ somaBody[25] = <<"load", "r", 0>> /\ somaBody[26] = <<"store", "r", 1>>
    /\ somaBody[27] = <<"up", "rBuffer", 0>> /\ somaBody[28] = <<"up", "rItem", 0>>
    /\ somaBody[29] = <<"nap", None, 0>> /\ somaBody[30] = <<"again", None, 1>>
    /\ somaBody[31] = <<"exit", None, 0>>
<1> DEFINE x == Recv("s", 8)
           y == Recv("s", 15)
           ab == x \o y
           c == Recv("s", 22)
           d == Send("r", 29)
           e == <<I("nap"), <<"again", None, 1>>, I("exit")>>
           S == {"test", "down", "up", "load", "store", "nap", "again", "exit"}
                \X {"s", "r", "sVaga", "sBuffer", "sItem", "rVaga", "rBuffer", "rItem", None} \X Int
<1>1. /\ x \in Seq(S) /\ Len(x) = 7
      /\ x[1] = <<"test", "s", 8>> /\ x[2] = <<"down", "sItem", 8>>
      /\ x[3] = <<"down", "sBuffer", 8>> /\ x[4] = <<"load", "s", 0>>
      /\ x[5] = <<"store", "s", -1>> /\ x[6] = <<"up", "sBuffer", 0>>
      /\ x[7] = <<"up", "sVaga", 0>>
  BY DEF Place, Retrieve, Send, Recv, Buffer, Item, Vaga, Down, On, I
<1>2. /\ y \in Seq(S) /\ Len(y) = 7
      /\ y[1] = <<"test", "s", 15>> /\ y[2] = <<"down", "sItem", 15>>
      /\ y[3] = <<"down", "sBuffer", 15>> /\ y[4] = <<"load", "s", 0>>
      /\ y[5] = <<"store", "s", -1>> /\ y[6] = <<"up", "sBuffer", 0>>
      /\ y[7] = <<"up", "sVaga", 0>>
  BY DEF Place, Retrieve, Send, Recv, Buffer, Item, Vaga, Down, On, I
<1>3. /\ c \in Seq(S) /\ Len(c) = 7
      /\ c[1] = <<"test", "s", 22>> /\ c[2] = <<"down", "sItem", 22>>
      /\ c[3] = <<"down", "sBuffer", 22>> /\ c[4] = <<"load", "s", 0>>
      /\ c[5] = <<"store", "s", -1>> /\ c[6] = <<"up", "sBuffer", 0>>
      /\ c[7] = <<"up", "sVaga", 0>>
  BY DEF Place, Retrieve, Send, Recv, Buffer, Item, Vaga, Down, On, I
<1>4. /\ d \in Seq(S) /\ Len(d) = 7
      /\ d[1] = <<"test", "r", 29>> /\ d[2] = <<"down", "rVaga", 29>>
      /\ d[3] = <<"down", "rBuffer", 29>> /\ d[4] = <<"load", "r", 0>>
      /\ d[5] = <<"store", "r", 1>> /\ d[6] = <<"up", "rBuffer", 0>>
      /\ d[7] = <<"up", "rItem", 0>>
  BY DEF Place, Retrieve, Send, Recv, Buffer, Item, Vaga, Down, On, I
<1>5. /\ e \in Seq(S) /\ Len(e) = 3
      /\ e[1] = <<"nap", None, 0>> /\ e[2] = <<"again", None, 1>> /\ e[3] = <<"exit", None, 0>>
  BY DEF Place, Retrieve, Send, Recv, Buffer, Item, Vaga, Down, On, I
<1> HIDE DEF x, y, c, d, e, S
<1>6. /\ ab \in Seq(S) /\ Len(ab) = 14
      /\ ab[1] = <<"test", "s", 8>> /\ ab[2] = <<"down", "sItem", 8>>
      /\ ab[3] = <<"down", "sBuffer", 8>> /\ ab[4] = <<"load", "s", 0>>
      /\ ab[5] = <<"store", "s", -1>> /\ ab[6] = <<"up", "sBuffer", 0>>
      /\ ab[7] = <<"up", "sVaga", 0>> /\ ab[8] = <<"test", "s", 15>>
      /\ ab[9] = <<"down", "sItem", 15>> /\ ab[10] = <<"down", "sBuffer", 15>>
      /\ ab[11] = <<"load", "s", 0>> /\ ab[12] = <<"store", "s", -1>>
      /\ ab[13] = <<"up", "sBuffer", 0>> /\ ab[14] = <<"up", "sVaga", 0>>
  <2>0. x \in Seq(S) /\ y \in Seq(S)
    BY <1>1, <1>2
  <2>1. /\ ab \in Seq(S) /\ Len(ab) = Len(x) + Len(y)
        /\ \A i \in 1 .. Len(x) : ab[i] = x[i]
        /\ \A i \in 1 .. Len(y) : ab[Len(x) + i] = y[i]
    BY <2>0, Concat
  <2> HIDE DEF ab
  <2>2. /\ \A i \in 1 .. 7 : ab[i] = x[i]
        /\ \A i \in 1 .. 7 : ab[7 + i] = y[i]
    BY <1>1, <1>2, <2>1
  <2>. QED
    BY <1>1, <1>2, <2>1, <2>2
<1> HIDE DEF ab
<1> DEFINE s == ab \o c \o d \o e
<1>7. /\ Len(s) = 31
      /\ \A i \in 1 .. 14 : s[i] = ab[i]
      /\ \A i \in 15 .. 21 : s[i] = c[i - 14]
      /\ \A i \in 22 .. 28 : s[i] = d[i - 21]
      /\ \A i \in 29 .. 31 : s[i] = e[i - 28]
  <2>0. ab \in Seq(S) /\ c \in Seq(S) /\ d \in Seq(S) /\ e \in Seq(S)
    BY <1>3, <1>4, <1>5, <1>6
  <2>1. InTurn(s, ab, c, d, e)
    BY <2>0, FourPieces
  <2> HIDE DEF s
  <2>. QED
    BY <1>3, <1>4, <1>5, <1>6, <2>1 DEF InTurn
<1>8. somaBody = s
  BY DEF somaBody, s, ab, x, y, c, d, e
<1> HIDE DEF s
<1>9. /\ Len(s) = 31
      /\ s[1] = <<"test", "s", 8>> /\ s[2] = <<"down", "sItem", 8>>
      /\ s[3] = <<"down", "sBuffer", 8>> /\ s[4] = <<"load", "s", 0>>
      /\ s[5] = <<"store", "s", -1>> /\ s[6] = <<"up", "sBuffer", 0>>
      /\ s[7] = <<"up", "sVaga", 0>> /\ s[8] = <<"test", "s", 15>>
      /\ s[9] = <<"down", "sItem", 15>> /\ s[10] = <<"down", "sBuffer", 15>>
      /\ s[11] = <<"load", "s", 0>> /\ s[12] = <<"store", "s", -1>>
      /\ s[13] = <<"up", "sBuffer", 0>> /\ s[14] = <<"up", "sVaga", 0>>
  <2>1. Len(s) = 31 /\ \A i \in 1 .. 14 : s[i] = ab[i]
    BY <1>7
  <2>. QED
    BY <1>6, <2>1
<1>10.
      /\ s[15] = <<"test", "s", 22>> /\ s[16] = <<"down", "sItem", 22>>
      /\ s[17] = <<"down", "sBuffer", 22>> /\ s[18] = <<"load", "s", 0>>
      /\ s[19] = <<"store", "s", -1>> /\ s[20] = <<"up", "sBuffer", 0>>
      /\ s[21] = <<"up", "sVaga", 0>>
  <2>1. \A i \in 15 .. 21 : s[i] = c[i - 14]
    BY <1>7
  <2>. QED
    BY <1>3, <2>1
<1>11.
      /\ s[22] = <<"test", "r", 29>> /\ s[23] = <<"down", "rVaga", 29>>
      /\ s[24] = <<"down", "rBuffer", 29>> /\ s[25] = <<"load", "r", 0>>
      /\ s[26] = <<"store", "r", 1>> /\ s[27] = <<"up", "rBuffer", 0>>
      /\ s[28] = <<"up", "rItem", 0>>
  <2>1. \A i \in 22 .. 28 : s[i] = d[i - 21]
    BY <1>7
  <2>. QED
    BY <1>4, <2>1
<1>12.
      /\ s[29] = <<"nap", None, 0>> /\ s[30] = <<"again", None, 1>>
      /\ s[31] = <<"exit", None, 0>>
  BY <1>5, <1>7
<1>. QED
  BY <1>8, <1>9, <1>10, <1>11, <1>12

\* What they hold of the rings of each buffer.
LEMMA ProdutorS ==
    ASSUME "s" \in Cells
    PROVE  Buffered(produtor, "s", {4, 5, 6},
                    {3, 4, 5}, {6, 7})
<1>1. Follows(Lock(Buffer("s")), produtor, {4, 5, 6})
  BY ProdutorIs, NoneIsNoCell DEF Follows, Takes, Gives, Lock, Buffer
<1>2. Follows(Rooms("s"), produtor, {3, 4, 5})
  BY ProdutorIs DEF Follows, Takes, Gives, Rooms, Vaga
<1>3. Follows(Items("s"), produtor, {6, 7})
  BY ProdutorIs DEF Follows, Takes, Gives, Items, Item
<1>4. \A i \in 1 .. Len(produtor) : produtor[i][1] = "store" /\ produtor[i][2] = "s" =>
        /\ i > 1 /\ produtor[i - 1] = <<"load", "s", 0>> /\ i \in {4, 5, 6}
        /\ \A j \in 1 .. Len(produtor) :
             produtor[j][1] \in {"down", "test", "goto", "again"} => produtor[j][3] # i
  BY ProdutorIs
<1>. QED
  BY <1>1, <1>2, <1>3, <1>4 DEF Buffered

LEMMA ConsumidorS ==
    ASSUME "s" \in Cells
    PROVE  Buffered(consumidor, "s", {3, 4, 5},
                    {5, 6}, {2, 3, 4})
<1>1. Follows(Lock(Buffer("s")), consumidor, {3, 4, 5})
  BY ConsumidorIs, NoneIsNoCell DEF Follows, Takes, Gives, Lock, Buffer
<1>2. Follows(Rooms("s"), consumidor, {5, 6})
  BY ConsumidorIs DEF Follows, Takes, Gives, Rooms, Vaga
<1>3. Follows(Items("s"), consumidor, {2, 3, 4})
  BY ConsumidorIs DEF Follows, Takes, Gives, Items, Item
<1>4. \A i \in 1 .. Len(consumidor) : consumidor[i][1] = "store" /\ consumidor[i][2] = "s" =>
        /\ i > 1 /\ consumidor[i - 1] = <<"load", "s", 0>> /\ i \in {3, 4, 5}
        /\ \A j \in 1 .. Len(consumidor) :
             consumidor[j][1] \in {"down", "test", "goto", "again"} => consumidor[j][3] # i
  BY ConsumidorIs
<1>. QED
  BY <1>1, <1>2, <1>3, <1>4 DEF Buffered

LEMMA ProdBodyS ==
    ASSUME {"s", "r"} \subseteq Cells
    PROVE  Buffered(prodBody, "s", {4, 5, 6},
                    {3, 4, 5}, {6, 7})
<1>1. Follows(Lock(Buffer("s")), prodBody, {4, 5, 6})
  BY ProdBodyIs, NoneIsNoCell DEF Follows, Takes, Gives, Lock, Buffer
<1>2. Follows(Rooms("s"), prodBody, {3, 4, 5})
  BY ProdBodyIs DEF Follows, Takes, Gives, Rooms, Vaga
<1>3. Follows(Items("s"), prodBody, {6, 7})
  BY ProdBodyIs DEF Follows, Takes, Gives, Items, Item
<1>4. \A i \in 1 .. Len(prodBody) : prodBody[i][1] = "store" /\ prodBody[i][2] = "s" =>
        /\ i > 1 /\ prodBody[i - 1] = <<"load", "s", 0>> /\ i \in {4, 5, 6}
        /\ \A j \in 1 .. Len(prodBody) :
             prodBody[j][1] \in {"down", "test", "goto", "again"} => prodBody[j][3] # i
  BY ProdBodyIs
<1>. QED
  BY <1>1, <1>2, <1>3, <1>4 DEF Buffered

LEMMA ProdBodyR ==
    ASSUME {"s", "r"} \subseteq Cells
    PROVE  Buffered(prodBody, "r", {},
                    {}, {})
<1>1. Follows(Lock(Buffer("r")), prodBody, {})
  BY ProdBodyIs, NoneIsNoCell DEF Follows, Takes, Gives, Lock, Buffer
<1>2. Follows(Rooms("r"), prodBody, {})
  BY ProdBodyIs DEF Follows, Takes, Gives, Rooms, Vaga
<1>3. Follows(Items("r"), prodBody, {})
  BY ProdBodyIs DEF Follows, Takes, Gives, Items, Item
<1>4. \A i \in 1 .. Len(prodBody) : prodBody[i][1] = "store" /\ prodBody[i][2] = "r" =>
        /\ i > 1 /\ prodBody[i - 1] = <<"load", "r", 0>> /\ i \in {}
        /\ \A j \in 1 .. Len(prodBody) :
             prodBody[j][1] \in {"down", "test", "goto", "again"} => prodBody[j][3] # i
  BY ProdBodyIs
<1>. QED
  BY <1>1, <1>2, <1>3, <1>4 DEF Buffered

LEMMA ConsBodyS ==
    ASSUME {"s", "r"} \subseteq Cells
    PROVE  Buffered(consBody, "s", {},
                    {}, {})
<1>1. Follows(Lock(Buffer("s")), consBody, {})
  BY ConsBodyIs, NoneIsNoCell DEF Follows, Takes, Gives, Lock, Buffer
<1>2. Follows(Rooms("s"), consBody, {})
  BY ConsBodyIs DEF Follows, Takes, Gives, Rooms, Vaga
<1>3. Follows(Items("s"), consBody, {})
  BY ConsBodyIs DEF Follows, Takes, Gives, Items, Item
<1>4. \A i \in 1 .. Len(consBody) : consBody[i][1] = "store" /\ consBody[i][2] = "s" =>
        /\ i > 1 /\ consBody[i - 1] = <<"load", "s", 0>> /\ i \in {}
        /\ \A j \in 1 .. Len(consBody) :
             consBody[j][1] \in {"down", "test", "goto", "again"} => consBody[j][3] # i
  BY ConsBodyIs
<1>. QED
  BY <1>1, <1>2, <1>3, <1>4 DEF Buffered

LEMMA ConsBodyR ==
    ASSUME {"s", "r"} \subseteq Cells
    PROVE  Buffered(consBody, "r", {4, 5, 6},
                    {6, 7}, {3, 4, 5})
<1>1. Follows(Lock(Buffer("r")), consBody, {4, 5, 6})
  BY ConsBodyIs, NoneIsNoCell DEF Follows, Takes, Gives, Lock, Buffer
<1>2. Follows(Rooms("r"), consBody, {6, 7})
  BY ConsBodyIs DEF Follows, Takes, Gives, Rooms, Vaga
<1>3. Follows(Items("r"), consBody, {3, 4, 5})
  BY ConsBodyIs DEF Follows, Takes, Gives, Items, Item
<1>4. \A i \in 1 .. Len(consBody) : consBody[i][1] = "store" /\ consBody[i][2] = "r" =>
        /\ i > 1 /\ consBody[i - 1] = <<"load", "r", 0>> /\ i \in {4, 5, 6}
        /\ \A j \in 1 .. Len(consBody) :
             consBody[j][1] \in {"down", "test", "goto", "again"} => consBody[j][3] # i
  BY ConsBodyIs
<1>. QED
  BY <1>1, <1>2, <1>3, <1>4 DEF Buffered

LEMMA SomaBodyS ==
    ASSUME {"s", "r"} \subseteq Cells
    PROVE  Buffered(somaBody, "s", {4, 5, 6, 11, 12, 13, 18, 19, 20},
                    {6, 7, 13, 14, 20, 21}, {3, 4, 5, 10, 11, 12, 17, 18, 19})
<1>1. Follows(Lock(Buffer("s")), somaBody, {4, 5, 6, 11, 12, 13, 18, 19, 20})
  BY SomaBodyIs, NoneIsNoCell DEF Follows, Takes, Gives, Lock, Buffer
<1>2. Follows(Rooms("s"), somaBody, {6, 7, 13, 14, 20, 21})
  BY SomaBodyIs DEF Follows, Takes, Gives, Rooms, Vaga
<1>3. Follows(Items("s"), somaBody, {3, 4, 5, 10, 11, 12, 17, 18, 19})
  BY SomaBodyIs DEF Follows, Takes, Gives, Items, Item
<1>4. \A i \in 1 .. Len(somaBody) : somaBody[i][1] = "store" /\ somaBody[i][2] = "s" =>
        /\ i > 1 /\ somaBody[i - 1] = <<"load", "s", 0>> /\ i \in {4, 5, 6, 11, 12, 13, 18, 19, 20}
        /\ \A j \in 1 .. Len(somaBody) :
             somaBody[j][1] \in {"down", "test", "goto", "again"} => somaBody[j][3] # i
  BY SomaBodyIs
<1>. QED
  BY <1>1, <1>2, <1>3, <1>4 DEF Buffered

LEMMA SomaBodyR ==
    ASSUME {"s", "r"} \subseteq Cells
    PROVE  Buffered(somaBody, "r", {25, 26, 27},
                    {24, 25, 26}, {27, 28})
<1>1. Follows(Lock(Buffer("r")), somaBody, {25, 26, 27})
  BY SomaBodyIs, NoneIsNoCell DEF Follows, Takes, Gives, Lock, Buffer
<1>2. Follows(Rooms("r"), somaBody, {24, 25, 26})
  BY SomaBodyIs DEF Follows, Takes, Gives, Rooms, Vaga
<1>3. Follows(Items("r"), somaBody, {27, 28})
  BY SomaBodyIs DEF Follows, Takes, Gives, Items, Item
<1>4. \A i \in 1 .. Len(somaBody) : somaBody[i][1] = "store" /\ somaBody[i][2] = "r" =>
        /\ i > 1 /\ somaBody[i - 1] = <<"load", "r", 0>> /\ i \in {25, 26, 27}
        /\ \A j \in 1 .. Len(somaBody) :
             somaBody[j][1] \in {"down", "test", "goto", "again"} => somaBody[j][3] # i
  BY SomaBodyIs
<1>. QED
  BY <1>1, <1>2, <1>3, <1>4 DEF Buffered
LEMMA NoInstructions ==
    ASSUME NEW q PROVE Buffered(<<>>, q, {}, {}, {})
BY DEF Buffered, Follows

\* Main makes a buffer: its lock is one unit, its rooms are free and it has no items.
LEMMA BufferSupply ==
    ASSUME NEW q \in {"s", "r"}, NEW k \in Nat,
           {k + 1, k + 2, k + 3} \subseteq Makes(prog),
           prog.script[Main][k + 1] = <<"sem_create", Buffer(q), 1>>,
           prog.script[Main][k + 2] = <<"sem_create", Item(q), 0>>,
           prog.script[Main][k + 3] = <<"sem_create", Vaga(q), Places>>,
           \A i \in Makes(prog) \ {k + 1, k + 2, k + 3} :
             prog.script[Main][i][2] \notin {Buffer(q), Item(q), Vaga(q)}
    PROVE  /\ {Buffer(q), Vaga(q), Item(q)} \subseteq Sems(prog)
           /\ Cardinality(Supply(prog, Lock(Buffer(q)))) = 1
           /\ Cardinality(Supply(prog, Rooms(q))) = Places
           /\ Cardinality(Supply(prog, Items(q))) = 0
<1> DEFINE m(i) == prog.script[Main][i]
           put(s, n) == UNION {{m(i)[2]} \X (1 .. m(i)[3]) : i \in {j \in Makes(prog) : m(j)[2] \in {s}}}
<1>1. Buffer(q) # Item(q) /\ Buffer(q) # Vaga(q) /\ Item(q) # Vaga(q)
  BY DEF Buffer, Item, Vaga
<1>2. /\ m(k + 1)[2] = Buffer(q) /\ m(k + 1)[3] = 1 /\ m(k + 2)[2] = Item(q) /\ m(k + 2)[3] = 0
      /\ m(k + 3)[2] = Vaga(q) /\ m(k + 3)[3] = Places
      /\ k + 1 \in Makes(prog) /\ k + 2 \in Makes(prog) /\ k + 3 \in Makes(prog)
  OBVIOUS
<1>3. {Buffer(q), Vaga(q), Item(q)} \subseteq Sems(prog)
  BY <1>2 DEF Sems
<1>4. \A i \in Makes(prog) : /\ m(i)[2] = Buffer(q) <=> i = k + 1
                             /\ m(i)[2] = Item(q) <=> i = k + 2
                             /\ m(i)[2] = Vaga(q) <=> i = k + 3
  BY <1>1, <1>2
<1>5. /\ {j \in Makes(prog) : m(j)[2] \in {Buffer(q)}} = {k + 1}
      /\ {j \in Makes(prog) : m(j)[2] \in {Item(q)}} = {k + 2}
      /\ {j \in Makes(prog) : m(j)[2] \in {Vaga(q)}} = {k + 3}
  BY <1>2, <1>4
<1>6. /\ Supply(prog, Lock(Buffer(q))) = {Buffer(q)} \X (1 .. 1)
      /\ Supply(prog, Items(q)) = {Item(q)} \X (1 .. 0)
      /\ Supply(prog, Rooms(q)) = {Vaga(q)} \X (1 .. Places)
  <2>1. Lock(Buffer(q)).sems = {Buffer(q)} /\ Items(q).sems = {Item(q)} /\ Rooms(q).sems = {Vaga(q)}
    BY DEF Lock, Items, Rooms
  <2>2. Supply(prog, Lock(Buffer(q))) = {m(k + 1)[2]} \X (1 .. m(k + 1)[3])
    BY <1>5, <2>1 DEF Supply
  <2>3. Supply(prog, Items(q)) = {m(k + 2)[2]} \X (1 .. m(k + 2)[3])
    BY <1>5, <2>1 DEF Supply
  <2>4. Supply(prog, Rooms(q)) = {m(k + 3)[2]} \X (1 .. m(k + 3)[3])
    BY <1>5, <2>1 DEF Supply
  <2>. QED
    BY <1>2, <2>2, <2>3, <2>4
<1>7. \A n \in Nat : \A s : IsFiniteSet({s} \X (1 .. n)) /\ Cardinality({s} \X (1 .. n)) = n
  <2>1. SUFFICES ASSUME NEW n \in Nat, NEW s
                 PROVE IsFiniteSet({s} \X (1 .. n)) /\ Cardinality({s} \X (1 .. n)) = n
    OBVIOUS
  <2>2. IsFiniteSet(1 .. n) /\ Cardinality(1 .. n) = n
    BY FS_Interval
  <2>3. IsFiniteSet({s}) /\ Cardinality({s}) = 1
    BY FS_Singleton
  <2>4. IsFiniteSet({s} \X (1 .. n))
        /\ Cardinality({s} \X (1 .. n)) = Cardinality({s}) * Cardinality(1 .. n)
    BY <2>2, <2>3, FS_Product
  <2>. QED
    BY <2>2, <2>3, <2>4
<1>8. 1 \in Nat /\ 0 \in Nat /\ Places \in Nat
  BY CrewShape
<1>. QED
  BY <1>3, <1>6, <1>7, <1>8

LEMMA CreateAllFacts ==
    ASSUME NEW ts \in Seq(Tasks)
    PROVE  /\ CreateAll(ts) \in Seq(Instr) /\ Len(CreateAll(ts)) = Len(ts)
           /\ \A i \in 1 .. Len(ts) : CreateAll(ts)[i] = <<"create", ts[i], 0>>
<1>1. \A t \in Tasks : <<"create", t, 0>> \in Instr
  BY DEF Instr
<1>2. CreateAll(ts) = [i \in 1 .. Len(ts) |-> <<"create", ts[i], 0>>]
  BY DEF CreateAll, On
<1>3. \A i \in 1 .. Len(ts) : <<"create", ts[i], 0>> \in Instr
  BY <1>1
<1>. QED
  BY <1>2, <1>3

\* pingpong-prodcons: main makes the buffer and the tasks.
LEMMA ProdconsScripts ==
    ASSUME CpuOK, prog = PingpongProdcons
    PROVE  LET n == Len(Ones \o Others)
               main == prog.script[Main]
           IN  /\ \A t \in Tasks : prog.script[t] \in {produtor, consumidor, <<>>}
               /\ main \in Seq(Instr) /\ n \in Nat /\ Len(main) = n + 4
               /\ main[1] = <<"sem_create", "sBuffer", 1>> /\ main[2] = <<"sem_create", "sItem", 0>>
               /\ main[3] = <<"sem_create", "sVaga", Places>>
               /\ \A i \in 4 .. n + 3 : main[i][1] = "create"
               /\ main[n + 4] = <<"exit", None, 0>>
<1> DEFINE ts == Ones \o Others
           n == Len(ts)
           a == CreateBuffer("s")
           b == CreateAll(ts)
           c == <<I("exit")>>
           T == {<<"sem_create", "sBuffer", 1>>, <<"sem_create", "sItem", 0>>,
                 <<"sem_create", "sVaga", Places>>, <<"exit", None, 0>>}
           S == UNION {Instr, T}
<1>0. prog.script = [t \in Threads |->
            IF t = Main THEN a \o b \o c
            ELSE IF t \in Elems(Ones) \cup Elems(Others)
                 THEN IF t \in Elems(Ones) THEN produtor ELSE consumidor
                 ELSE <<>>]
  BY DEF PingpongProdcons, Program, TwoKinds
<1>1. ts \in Seq(Tasks) /\ n \in Nat
  BY CrewShape
<1> HIDE DEF ts, n
<1>2. /\ a \in Seq(S) /\ Len(a) = 3
      /\ a[1] = <<"sem_create", "sBuffer", 1>> /\ a[2] = <<"sem_create", "sItem", 0>>
      /\ a[3] = <<"sem_create", "sVaga", Places>>
  BY DEF CreateBuffer, Buffer, Item, Vaga
<1>3. /\ b \in Seq(S) /\ Len(b) = n /\ \A i \in 1 .. n : b[i][1] = "create"
  <2>1. b \in Seq(Instr) /\ Len(b) = n /\ \A i \in 1 .. n : b[i] = <<"create", ts[i], 0>>
    BY <1>1, CreateAllFacts DEF n
  <2>. QED
    BY <2>1
<1>4. c \in Seq(S) /\ Len(c) = 1 /\ c[1] = <<"exit", None, 0>>
  BY DEF I
<1> HIDE DEF a, b, c, S
<1> DEFINE ab == a \o b
<1>5. /\ ab \in Seq(S) /\ Len(ab) = Len(a) + Len(b)
      /\ \A i \in 1 .. Len(a) : ab[i] = a[i]
      /\ \A i \in 1 .. Len(b) : ab[Len(a) + i] = b[i]
  <2>1. a \in Seq(S) /\ b \in Seq(S)
    BY <1>2, <1>3
  <2>. QED
    BY <2>1, Concat
<1> HIDE DEF ab
<1> DEFINE m == ab \o c
<1>6. /\ m \in Seq(S) /\ Len(m) = Len(ab) + Len(c)
      /\ \A i \in 1 .. Len(ab) : m[i] = ab[i]
      /\ \A i \in 1 .. Len(c) : m[Len(ab) + i] = c[i]
  <2>1. ab \in Seq(S) /\ c \in Seq(S)
    BY <1>4, <1>5
  <2>. QED
    BY <2>1, Concat
<1> HIDE DEF m
<1>7. /\ Main \in Threads /\ Tasks \subseteq Threads /\ Main \notin Tasks
      /\ prog.script[Main] \in Seq(Instr)
  BY ThreadsDiffer, ProgramShape DEF Threads, CpuOK
<1>8. prog.script[Main] = m
  BY <1>0, <1>7 DEF m, ab
<1>9. \A t \in Tasks : prog.script[t] \in {produtor, consumidor, <<>>}
  BY <1>0, <1>7
<1>10. Len(ab) = n + 3 /\ Len(m) = n + 4
  BY <1>1, <1>2, <1>3, <1>4, <1>5, <1>6
<1>11. /\ m[1] = <<"sem_create", "sBuffer", 1>> /\ m[2] = <<"sem_create", "sItem", 0>>
       /\ m[3] = <<"sem_create", "sVaga", Places>>
  <2>1. \A i \in 1 .. 3 : i \in 1 .. Len(ab) /\ i \in 1 .. Len(a)
    BY <1>1, <1>2, <1>10
  <2>2. \A i \in 1 .. 3 : m[i] = a[i]
    BY <1>5, <1>6, <2>1
  <2>. QED
    BY <1>2, <2>2
<1>12. ASSUME NEW i \in 4 .. n + 3 PROVE m[i][1] = "create"
  <2>1. i \in 1 .. Len(ab) /\ i - 3 \in 1 .. Len(b) /\ i - 3 \in 1 .. n /\ Len(a) + (i - 3) = i
    BY <1>1, <1>2, <1>3, <1>10
  <2>2. m[i] = ab[i] /\ ab[Len(a) + (i - 3)] = b[i - 3]
    BY <1>5, <1>6, <2>1
  <2>. QED
    BY <1>3, <2>1, <2>2
<1>13. m[n + 4] = <<"exit", None, 0>>
  <2>1. 1 \in 1 .. Len(c) /\ Len(ab) + 1 = n + 4
    BY <1>1, <1>4, <1>10
  <2>2. m[Len(ab) + 1] = c[1]
    BY <1>6, <2>1
  <2>. QED
    BY <1>4, <2>1, <2>2
<1>. QED
  BY <1>1, <1>7, <1>8, <1>9, <1>10, <1>11, <1>12, <1>13 DEF n, ts

LEMMA ProdconsPrepared ==
    ASSUME CpuOK, prog = PingpongProdcons
    PROVE  /\ Prepared(prog)
           /\ {Buffer("s"), Vaga("s"), Item("s")} \subseteq Sems(prog)
           /\ Cardinality(Supply(prog, Lock(Buffer("s")))) = 1
           /\ Cardinality(Supply(prog, Rooms("s"))) = Places
           /\ Cardinality(Supply(prog, Items("s"))) = 0
<1> DEFINE n == Len(Ones \o Others)
           main == prog.script[Main]
<1>1. /\ \A t \in Tasks : prog.script[t] \in {produtor, consumidor, <<>>}
      /\ main \in Seq(Instr) /\ n \in Nat /\ Len(main) = n + 4
      /\ main[1] = <<"sem_create", "sBuffer", 1>> /\ main[2] = <<"sem_create", "sItem", 0>>
      /\ main[3] = <<"sem_create", "sVaga", Places>>
      /\ \A i \in 4 .. n + 3 : main[i][1] = "create"
      /\ main[n + 4] = <<"exit", None, 0>>
  BY ProdconsScripts
<1> HIDE DEF n
<1>2. ASSUME NEW j \in DOMAIN main
      PROVE  /\ main[j][1] \in {"sem_create", "create", "exit"}
             /\ main[j][1] = "sem_create" <=> j \in {1, 2, 3}
             /\ main[j][1] = "create" => j > 3
  <2>1. j \in 1 .. 3 \/ j \in 4 .. n + 3 \/ j = n + 4
    BY <1>1
  <2>2. CASE j \in 1 .. 3
    BY <1>1, <2>2
  <2>3. CASE j \in 4 .. n + 3
    <3>1. main[j][1] = "create" /\ j > 3
      BY <1>1, <2>3
    <3>. QED
      BY <3>1
  <2>4. CASE j = n + 4
    BY <1>1, <2>4
  <2>. QED
    BY <2>1, <2>2, <2>3, <2>4
<1>3. {1, 2, 3} \subseteq DOMAIN main
  BY <1>1
<1>4. Makes(prog) = {1, 2, 3}
  BY <1>2, <1>3 DEF Makes
<1>5. /\ Buffer("s") = "sBuffer" /\ Item("s") = "sItem" /\ Vaga("s") = "sVaga"
  BY DEF Buffer, Item, Vaga
<1>6. /\ {Buffer("s"), Vaga("s"), Item("s")} \subseteq Sems(prog)
      /\ Cardinality(Supply(prog, Lock(Buffer("s")))) = 1
      /\ Cardinality(Supply(prog, Rooms("s"))) = Places
      /\ Cardinality(Supply(prog, Items("s"))) = 0
  <2>1. 0 \in Nat /\ 0 + 1 = 1 /\ 0 + 2 = 2 /\ 0 + 3 = 3
    OBVIOUS
  <2>2. /\ {0 + 1, 0 + 2, 0 + 3} \subseteq Makes(prog)
        /\ prog.script[Main][0 + 1] = <<"sem_create", Buffer("s"), 1>>
        /\ prog.script[Main][0 + 2] = <<"sem_create", Item("s"), 0>>
        /\ prog.script[Main][0 + 3] = <<"sem_create", Vaga("s"), Places>>
        /\ \A i \in Makes(prog) \ {0 + 1, 0 + 2, 0 + 3} :
             prog.script[Main][i][2] \notin {Buffer("s"), Item("s"), Vaga("s")}
    BY <1>1, <1>4, <1>5
  <2>. QED
    BY <2>1, <2>2, BufferSupply
<1>7. Prepared(prog)
  <2>1. ASSUME NEW t \in Tasks, NEW i \in DOMAIN prog.script[t], prog.script[t][i][1] = "down"
        PROVE  prog.script[t][i][2] \in Sems(prog)
    <3>1. CASE prog.script[t] = produtor
      <4>1. i \in 1 .. 8
        BY <3>1, ProdutorIs, ProgramShape DEF CpuOK, Threads
      <4>. QED
        BY <1>5, <1>6, <2>1, <3>1, <4>1, ProdutorIs
    <3>2. CASE prog.script[t] = consumidor
      <4>1. i \in 1 .. 8
        BY <3>2, ConsumidorIs, ProgramShape DEF CpuOK, Threads
      <4>. QED
        BY <1>5, <1>6, <2>1, <3>2, <4>1, ConsumidorIs
    <3>3. CASE prog.script[t] = <<>>
      BY <3>3
    <3>. QED
      BY <1>1, <3>1, <3>2, <3>3
  <2>2. \A i, j \in {1, 2, 3} : main[i][2] = main[j][2] => i = j
    BY <1>1
  <2>3. \A i \in Makes(prog) : \A j \in DOMAIN main :
          /\ main[j][1] = "create" => i < j
          /\ j \in Makes(prog) /\ main[j][2] = main[i][2] => i = j
    <3>1. SUFFICES ASSUME NEW i \in {1, 2, 3}, NEW j \in DOMAIN main
                   PROVE  /\ main[j][1] = "create" => i < j
                          /\ j \in {1, 2, 3} /\ main[j][2] = main[i][2] => i = j
      BY <1>4
    <3>2. main[j][1] = "create" => j > 3 /\ j \in Nat
      BY <1>1, <1>2
    <3>. QED
      BY <2>2, <3>2
  <2>4. \A j \in DOMAIN main : main[j][1] \notin {"up", "store"}
    BY <1>2
  <2>. QED
    BY <2>1, <2>3, <2>4 DEF Prepared
<1>. QED
  BY <1>6, <1>7

LEMMA ProdconsBuffers ==
    ASSUME PlacesInv, UnitsInv, prog = PingpongProdcons, "s" \in Cells
    PROVE  cell["s"] \in 0 .. Places
<1>1. CpuOK
  BY DEF PlacesInv, TypeOK
<1>2. \A t \in Tasks : \E lock, vaga, item : Buffered(prog.script[t], "s", lock, vaga, item)
  <2>1. \A t \in Tasks : prog.script[t] \in {produtor, consumidor, <<>>}
    BY <1>1, ProdconsScripts
  <2>. QED
    BY <2>1, ProdutorS, ConsumidorS, NoInstructions
<1>. QED
  BY <1>1, <1>2, ProdconsPrepared, BufferBounded

\* pingpong-mqueue: main makes two queues and the tasks, and destroys the queues again.
LEMMA MqueueScripts ==
    ASSUME CpuOK, prog = PingpongMqueue
    PROVE  LET n == Len(Crew)
               main == prog.script[Main]
           IN  /\ \A t \in Tasks : prog.script[t] \in {somaBody, consBody, prodBody, <<>>}
               /\ main \in Seq(Instr) /\ Len(main) = n + 18
               /\ main[1] = <<"sem_create", "sBuffer", 1>>
               /\ main[2] = <<"sem_create", "sItem", 0>>
               /\ main[3] = <<"sem_create", "sVaga", Places>>
               /\ main[4] = <<"sem_create", "rBuffer", 1>>
               /\ main[5] = <<"sem_create", "rItem", 0>>
               /\ main[6] = <<"sem_create", "rVaga", Places>>
               /\ main[7] = <<"open", "s", 0>> /\ main[8] = <<"open", "r", 0>>
               /\ \A i \in 9 .. n + 8 : main[i][1] = "create"
               /\ \A i \in n + 9 .. n + 18 :
                    main[i][1] \in {"join", "close", "sem_destroy", "exit"}
<1> DEFINE n == Len(Crew)
           consumers == {Crew[i] : i \in 2 .. (Len(Crew) + 1) \div 2}
           Late == {"join", "close", "sem_destroy", "exit"}
           a1 == CreateBuffer("s")
           a2 == CreateBuffer("r")
           a == a1 \o a2
           b == <<On("open", "s"), On("open", "r")>>
           c == CreateAll(Crew)
           d == <<On("join", Crew[1])>>
           e == MqueueDestroy("s")
           f == MqueueDestroy("r")
           g == <<I("exit")>>
           T == ({"sem_create", "open", "join", "close", "sem_destroy", "exit"}
                 \X {"s", "r", "sVaga", "sBuffer", "sItem", "rVaga", "rBuffer", "rItem", None, Crew[1]}
                 \X Nat)
           S == UNION {Instr, T}
<1>0. prog.script = [t \in Threads |->
            IF t = Main THEN a \o b \o c \o d \o e \o f \o g
            ELSE IF t \in Elems(Crew)
                 THEN IF t = Crew[1] THEN somaBody
                      ELSE IF t \in consumers THEN consBody ELSE prodBody
                 ELSE <<>>]
  BY DEF PingpongMqueue, Program
<1> HIDE DEF consumers
<1>1. n \in Nat /\ n >= 3 /\ Places \in Nat
  BY CrewFacts, CrewShape
<1> HIDE DEF n
<1>2. /\ a1 \in Seq(S) /\ Len(a1) = 3
      /\ a1[1] = <<"sem_create", "sBuffer", 1>> /\ a1[2] = <<"sem_create", "sItem", 0>>
      /\ a1[3] = <<"sem_create", "sVaga", Places>>
  BY <1>1 DEF CreateBuffer, Buffer, Item, Vaga
<1>3. /\ a2 \in Seq(S) /\ Len(a2) = 3
      /\ a2[1] = <<"sem_create", "rBuffer", 1>> /\ a2[2] = <<"sem_create", "rItem", 0>>
      /\ a2[3] = <<"sem_create", "rVaga", Places>>
  BY <1>1 DEF CreateBuffer, Buffer, Item, Vaga
<1>4. b \in Seq(S) /\ Len(b) = 2 /\ b[1] = <<"open", "s", 0>> /\ b[2] = <<"open", "r", 0>>
  BY DEF On
<1>5. c \in Seq(S) /\ Len(c) = n /\ \A i \in 1 .. n : c[i][1] = "create"
  <2>1. c \in Seq(Instr) /\ Len(c) = n /\ \A i \in 1 .. n : c[i] = <<"create", Crew[i], 0>>
    BY CrewFacts DEF n
  <2>. QED
    BY <2>1
<1>6. d \in Seq(S) /\ Len(d) = 1 /\ d[1][1] = "join"
  BY DEF On
<1>7. e \in Seq(S) /\ Len(e) = 4 /\ \A i \in 1 .. 4 : e[i][1] \in Late
  BY DEF MqueueDestroy, On, Buffer, Item, Vaga
<1>8. f \in Seq(S) /\ Len(f) = 4 /\ \A i \in 1 .. 4 : f[i][1] \in Late
  BY DEF MqueueDestroy, On, Buffer, Item, Vaga
<1>9. g \in Seq(S) /\ Len(g) = 1 /\ g[1][1] \in Late
  BY DEF I
<1> HIDE DEF a1, a2, b, c, d, e, f, g, S, T
<1>10. /\ a \in Seq(S) /\ Len(a) = 6
       /\ a[1] = <<"sem_create", "sBuffer", 1>> /\ a[2] = <<"sem_create", "sItem", 0>>
       /\ a[3] = <<"sem_create", "sVaga", Places>> /\ a[4] = <<"sem_create", "rBuffer", 1>>
       /\ a[5] = <<"sem_create", "rItem", 0>> /\ a[6] = <<"sem_create", "rVaga", Places>>
  <2>0. a1 \in Seq(S) /\ a2 \in Seq(S)
    BY <1>2, <1>3
  <2>1. /\ a \in Seq(S) /\ Len(a) = Len(a1) + Len(a2)
        /\ \A i \in 1 .. Len(a1) : a[i] = a1[i]
        /\ \A i \in 1 .. Len(a2) : a[Len(a1) + i] = a2[i]
    BY <2>0, Concat
  <2> HIDE DEF a
  <2>2. (\A i \in 1 .. 3 : a[i] = a1[i]) /\ (\A i \in 1 .. 3 : a[3 + i] = a2[i])
    BY <1>2, <1>3, <2>1
  <2>. QED
    BY <1>2, <1>3, <2>1, <2>2
<1> HIDE DEF a
<1> DEFINE x == a \o b \o c \o d
<1>11. /\ x \in Seq(S) /\ Len(x) = n + 9
       /\ \A i \in 1 .. 6 : x[i] = a[i]
       /\ \A i \in 7 .. 8 : x[i] = b[i - 6]
       /\ \A i \in 9 .. n + 8 : x[i] = c[i - 8]
       /\ x[n + 9] = d[1]
  <2>0. a \in Seq(S) /\ b \in Seq(S) /\ c \in Seq(S) /\ d \in Seq(S)
    BY <1>4, <1>5, <1>6, <1>10
  <2>9. x \in Seq(S)
    BY <2>0
  <2>1. InTurn(x, a, b, c, d)
    BY <2>0, FourPieces
  <2> HIDE DEF x
  <2>2. Len(a) = 6 /\ Len(b) = 2 /\ Len(c) = n /\ Len(d) = 1
    BY <1>4, <1>5, <1>6, <1>10
  <2>3. x[n + 9] = d[1]
    <3>1. n + 9 \in Len(a) + Len(b) + Len(c) + 1 .. Len(a) + Len(b) + Len(c) + Len(d)
          /\ n + 9 - (Len(a) + Len(b) + Len(c)) = 1
      BY <1>1, <2>2
    <3>2. x[n + 9] = d[n + 9 - (Len(a) + Len(b) + Len(c))]
      BY <1>1, <2>1, <2>2, <3>1 DEF InTurn
    <3>. QED
      BY <3>1, <3>2
  <2>4. \A i \in 9 .. n + 8 : x[i] = c[i - 8]
    BY <1>1, <2>1, <2>2 DEF InTurn
  <2>. QED
    BY <1>1, <2>1, <2>2, <2>3, <2>4, <2>9 DEF InTurn
<1> HIDE DEF x
<1> DEFINE m == x \o e \o f \o g
<1>12. /\ m \in Seq(S) /\ Len(m) = n + 18
       /\ \A i \in 1 .. n + 9 : m[i] = x[i]
       /\ \A i \in n + 10 .. n + 13 : m[i] = e[i - (n + 9)]
       /\ \A i \in n + 14 .. n + 17 : m[i] = f[i - (n + 13)]
       /\ m[n + 18] = g[1]
  <2>0. x \in Seq(S) /\ e \in Seq(S) /\ f \in Seq(S) /\ g \in Seq(S)
    BY <1>7, <1>8, <1>9, <1>11
  <2>9. m \in Seq(S)
    BY <2>0
  <2>1. InTurn(m, x, e, f, g)
    BY <2>0, FourPieces
  <2> HIDE DEF m
  <2>2. Len(x) = n + 9 /\ Len(e) = 4 /\ Len(f) = 4 /\ Len(g) = 1
    BY <1>7, <1>8, <1>9, <1>11
  <2>3. m[n + 18] = g[1]
    <3>1. n + 18 \in Len(x) + Len(e) + Len(f) + 1 .. Len(x) + Len(e) + Len(f) + Len(g)
          /\ n + 18 - (Len(x) + Len(e) + Len(f)) = 1
      BY <1>1, <2>2
    <3>2. m[n + 18] = g[n + 18 - (Len(x) + Len(e) + Len(f))]
      BY <1>1, <2>1, <2>2, <3>1 DEF InTurn
    <3>. QED
      BY <3>1, <3>2
  <2>4. Len(x) + Len(e) = n + 13 /\ Len(x) + Len(e) + Len(f) = n + 17 /\ Len(m) = n + 18
    BY <1>1, <2>1, <2>2 DEF InTurn
  <2>5. \A i \in n + 10 .. n + 13 : m[i] = e[i - (n + 9)]
    BY <1>1, <2>1, <2>2 DEF InTurn
  <2>6. \A i \in n + 14 .. n + 17 : m[i] = f[i - (n + 13)]
    <3>1. ASSUME NEW i \in n + 14 .. n + 17 PROVE m[i] = f[i - (n + 13)]
      <4>1. i \in Len(x) + Len(e) + 1 .. Len(x) + Len(e) + Len(f)
        BY <1>1, <2>2
      <4>. QED
        BY <2>1, <2>4, <4>1 DEF InTurn
    <3>. QED
      BY <3>1
  <2>. QED
    BY <2>1, <2>2, <2>3, <2>4, <2>5, <2>6, <2>9 DEF InTurn
<1> HIDE DEF m
<1>13. /\ Main \in Threads /\ Tasks \subseteq Threads /\ Main \notin Tasks
       /\ prog.script[Main] \in Seq(Instr) /\ Crew[1] \in Elems(Crew) /\ Crew[1] \in Tasks
  BY <1>1, CrewFacts, ThreadsDiffer, ProgramShape DEF Threads, CpuOK, n
<1>14. prog.script[Main] = m
  BY <1>0, <1>13 DEF m, x
<1>15. \A t \in Tasks : prog.script[t] \in {somaBody, consBody, prodBody, <<>>}
  <2>1. SUFFICES ASSUME NEW t \in Tasks
                 PROVE  prog.script[t] \in {somaBody, consBody, prodBody, <<>>}
    OBVIOUS
  <2>2. CASE t \notin Elems(Crew)
    BY <1>0, <1>13, <2>2
  <2>3. CASE t \in Elems(Crew)
    BY <1>0, <1>13, <2>3
  <2>. QED
    BY <2>2, <2>3
<1>16. \A i \in 1 .. 6 : m[i] = a[i]
  BY <1>1, <1>11, <1>12
<1>17. m[7] = <<"open", "s", 0>> /\ m[8] = <<"open", "r", 0>>
  <2>1. \A i \in 7 .. 8 : m[i] = b[i - 6]
    BY <1>1, <1>11, <1>12
  <2>. QED
    BY <1>4, <2>1
<1>18. \A i \in 9 .. n + 8 : m[i][1] = "create"
  <2>1. SUFFICES ASSUME NEW i \in 9 .. n + 8 PROVE m[i][1] = "create"
    OBVIOUS
  <2>2. i \in 1 .. n + 9 /\ i - 8 \in 1 .. n
    BY <1>1
  <2>3. m[i] = c[i - 8]
    BY <1>11, <1>12, <2>2
  <2>. QED
    BY <1>5, <2>2, <2>3
<1>19. \A i \in n + 9 .. n + 18 : m[i][1] \in Late
  <2>1. SUFFICES ASSUME NEW i \in n + 9 .. n + 18 PROVE m[i][1] \in Late
    OBVIOUS
  <2>2. CASE i = n + 9
    <3>1. m[i] = d[1]
      BY <1>1, <1>11, <1>12, <2>2
    <3>. QED
      BY <1>6, <3>1
  <2>3. CASE i \in n + 10 .. n + 13
    <3>1. m[i] = e[i - (n + 9)] /\ i - (n + 9) \in 1 .. 4
      BY <1>1, <1>12, <2>3
    <3>. QED
      BY <1>7, <3>1
  <2>4. CASE i \in n + 14 .. n + 17
    <3>1. m[i] = f[i - (n + 13)] /\ i - (n + 13) \in 1 .. 4
      BY <1>1, <1>12, <2>4
    <3>. QED
      BY <1>8, <3>1
  <2>5. CASE i = n + 18
    BY <1>9, <1>12, <2>5
  <2>. QED
    BY <1>1, <2>1, <2>2, <2>3, <2>4, <2>5
<1>20. /\ m[1] = a[1] /\ m[2] = a[2] /\ m[3] = a[3] /\ m[4] = a[4] /\ m[5] = a[5] /\ m[6] = a[6]
  BY <1>16
<1>21.
       /\ m[1] = <<"sem_create", "sBuffer", 1>> /\ m[2] = <<"sem_create", "sItem", 0>>
       /\ m[3] = <<"sem_create", "sVaga", Places>> /\ m[4] = <<"sem_create", "rBuffer", 1>>
       /\ m[5] = <<"sem_create", "rItem", 0>> /\ m[6] = <<"sem_create", "rVaga", Places>>
  BY <1>10, <1>20
<1>. QED
  BY <1>12, <1>13, <1>14, <1>15, <1>17, <1>18, <1>19, <1>21 DEF n

LEMMA MqueuePrepared ==
    ASSUME CpuOK, prog = PingpongMqueue, NEW q \in {"s", "r"}
    PROVE  /\ Prepared(prog)
           /\ {Buffer(q), Vaga(q), Item(q)} \subseteq Sems(prog)
           /\ Cardinality(Supply(prog, Lock(Buffer(q)))) = 1
           /\ Cardinality(Supply(prog, Rooms(q))) = Places
           /\ Cardinality(Supply(prog, Items(q))) = 0
<1> DEFINE n == Len(Crew)
           main == prog.script[Main]
           k == IF q = "s" THEN 0 ELSE 3
<1>1. /\ \A t \in Tasks : prog.script[t] \in {somaBody, consBody, prodBody, <<>>}
      /\ main \in Seq(Instr) /\ Len(main) = n + 18
      /\ main[1] = <<"sem_create", "sBuffer", 1>> /\ main[2] = <<"sem_create", "sItem", 0>>
      /\ main[3] = <<"sem_create", "sVaga", Places>> /\ main[4] = <<"sem_create", "rBuffer", 1>>
      /\ main[5] = <<"sem_create", "rItem", 0>> /\ main[6] = <<"sem_create", "rVaga", Places>>
      /\ main[7] = <<"open", "s", 0>> /\ main[8] = <<"open", "r", 0>>
      /\ \A i \in 9 .. n + 8 : main[i][1] = "create"
      /\ \A i \in n + 9 .. n + 18 : main[i][1] \in {"join", "close", "sem_destroy", "exit"}
      /\ n \in Nat
  BY MqueueScripts, CrewFacts
<1> HIDE DEF n
<1>2. ASSUME NEW j \in DOMAIN main
      PROVE  /\ main[j][1] \notin {"up", "store"}
             /\ main[j][1] = "sem_create" <=> j \in 1 .. 6
             /\ main[j][1] = "create" => j > 6
  <2>1. j \in 1 .. 6 \/ j \in 7 .. 8 \/ j \in 9 .. n + 8 \/ j \in n + 9 .. n + 18
    <3>1. j \in 1 .. n + 18 /\ n \in Nat
      BY <1>1
    <3>. QED
      BY <3>1
  <2>2. CASE j \in 1 .. 6
    BY <1>1, <2>2
  <2>3. CASE j \in 7 .. 8
    BY <1>1, <2>3
  <2>4. CASE j \in 9 .. n + 8
    <3>1. main[j][1] = "create"
      BY <1>1, <2>4
    <3>2. j > 6 /\ j \notin 1 .. 6
      BY <2>4
    <3>. QED
      BY <3>1, <3>2
  <2>5. CASE j \in n + 9 .. n + 18
    <3>1. main[j][1] \in {"join", "close", "sem_destroy", "exit"} /\ j > 6 /\ j \notin 1 .. 6
      BY <1>1, <2>5
    <3>. QED
      BY <3>1
  <2>. QED
    BY <2>1, <2>2, <2>3, <2>4, <2>5
<1>3. 1 .. 6 \subseteq DOMAIN main
  BY <1>1
<1>4. Makes(prog) = 1 .. 6
  BY <1>2, <1>3 DEF Makes
<1>5. /\ Buffer("s") = "sBuffer" /\ Item("s") = "sItem" /\ Vaga("s") = "sVaga"
      /\ Buffer("r") = "rBuffer" /\ Item("r") = "rItem" /\ Vaga("r") = "rVaga"
  BY DEF Buffer, Item, Vaga
<1>6. \A i \in 1 .. 6 :
        main[i][2] \in {"sBuffer", "sItem", "sVaga", "rBuffer", "rItem", "rVaga"}
        /\ \A j \in 1 .. 6 : main[i][2] = main[j][2] => i = j
  BY <1>1
<1>7. /\ {Buffer(q), Vaga(q), Item(q)} \subseteq Sems(prog)
      /\ Cardinality(Supply(prog, Lock(Buffer(q)))) = 1
      /\ Cardinality(Supply(prog, Rooms(q))) = Places
      /\ Cardinality(Supply(prog, Items(q))) = 0
  <2>1. k \in Nat /\ {k + 1, k + 2, k + 3} \subseteq Makes(prog)
    BY <1>4
  <2>2. /\ main[k + 1] = <<"sem_create", Buffer(q), 1>>
        /\ main[k + 2] = <<"sem_create", Item(q), 0>>
        /\ main[k + 3] = <<"sem_create", Vaga(q), Places>>
    BY <1>1, <1>5
  <2>3. \A i \in Makes(prog) \ {k + 1, k + 2, k + 3} :
          main[i][2] \notin {Buffer(q), Item(q), Vaga(q)}
    <3>1. k + 1 \in 1 .. 6 /\ k + 2 \in 1 .. 6 /\ k + 3 \in 1 .. 6
      OBVIOUS
    <3>2. main[k + 1][2] = Buffer(q) /\ main[k + 2][2] = Item(q) /\ main[k + 3][2] = Vaga(q)
      BY <2>2
    <3>. QED
      BY <1>4, <1>6, <3>1, <3>2
  <2> HIDE DEF k
  <2>. QED
    BY <2>1, <2>2, <2>3, BufferSupply
<1>8. Prepared(prog)
  <2>1. {"sBuffer", "sItem", "sVaga", "rBuffer", "rItem", "rVaga"} \subseteq Sems(prog)
    <3>1. /\ 1 \in Makes(prog) /\ 2 \in Makes(prog) /\ 3 \in Makes(prog)
          /\ 4 \in Makes(prog) /\ 5 \in Makes(prog) /\ 6 \in Makes(prog)
      BY <1>4
    <3>. QED
      BY <1>1, <3>1 DEF Sems
  <2>2. ASSUME NEW t \in Tasks, NEW i \in DOMAIN prog.script[t], prog.script[t][i][1] = "down"
        PROVE  prog.script[t][i][2] \in Sems(prog)
    <3>0. prog.script[t] \in Seq(Instr)
      BY ProgramShape DEF CpuOK, Threads
    <3>1. CASE prog.script[t] = somaBody
      <4>1. i \in 1 .. 31
        BY <3>0, <3>1, SomaBodyIs
      <4>2. somaBody[i][2] \in {"sBuffer", "sItem", "sVaga", "rBuffer", "rItem", "rVaga"}
        BY <2>2, <3>1, <4>1, SomaBodyIs
      <4>. QED
        BY <2>1, <3>1, <4>2
    <3>2. CASE prog.script[t] = consBody
      <4>1. i \in 1 .. 10
        BY <3>0, <3>2, ConsBodyIs
      <4>. QED
        BY <2>1, <2>2, <3>2, <4>1, ConsBodyIs
    <3>3. CASE prog.script[t] = prodBody
      <4>1. i \in 1 .. 10
        BY <3>0, <3>3, ProdBodyIs
      <4>. QED
        BY <2>1, <2>2, <3>3, <4>1, ProdBodyIs
    <3>4. CASE prog.script[t] = <<>>
      BY <3>4
    <3>. QED
      BY <1>1, <3>1, <3>2, <3>3, <3>4
  <2>3. \A i \in Makes(prog) : \A j \in DOMAIN main :
          /\ main[j][1] = "create" => i < j
          /\ j \in Makes(prog) /\ main[j][2] = main[i][2] => i = j
    <3>1. SUFFICES ASSUME NEW i \in 1 .. 6, NEW j \in DOMAIN main
                   PROVE  /\ main[j][1] = "create" => i < j
                          /\ j \in 1 .. 6 /\ main[j][2] = main[i][2] => i = j
      BY <1>4
    <3>2. main[j][1] = "create" => j > 6 /\ j \in Nat
      BY <1>1, <1>2
    <3>. QED
      BY <1>6, <3>2
  <2>. QED
    BY <1>2, <2>2, <2>3 DEF Prepared
<1>. QED
  BY <1>7, <1>8

LEMMA MqueueCells ==
    ASSUME CpuOK, prog = PingpongMqueue PROVE {"s", "r"} \subseteq Cells
<1> DEFINE main == prog.script[Main]
           n == Len(Crew)
<1>1. main \in Seq(Instr) /\ Len(main) = n + 18 /\ n \in Nat
      /\ main[7] = <<"open", "s", 0>> /\ main[8] = <<"open", "r", 0>>
  BY MqueueScripts, CrewFacts
<1>2. main[7] \in Instr /\ main[8] \in Instr
  BY <1>1
<1>3. "s" \in Mqueues /\ "r" \in Mqueues
  BY <1>1, <1>2 DEF Instr
<1>. QED
  BY <1>3, BuffersCounted

LEMMA MqueueBuffers ==
    ASSUME PlacesInv, UnitsInv, prog = PingpongMqueue, NEW q \in {"s", "r"}
    PROVE  cell[q] \in 0 .. Places
<1>1. CpuOK
  BY DEF PlacesInv, TypeOK
<1>2. {"s", "r"} \subseteq Cells
  BY <1>1, MqueueCells
<1>3. \A t \in Tasks : \E lock, vaga, item : Buffered(prog.script[t], q, lock, vaga, item)
  <2>1. \A t \in Tasks : prog.script[t] \in {somaBody, consBody, prodBody, <<>>}
    BY <1>1, MqueueScripts
  <2>2. CASE q = "s"
    BY <1>2, <2>1, <2>2, SomaBodyS, ConsBodyS, ProdBodyS, NoInstructions
  <2>3. CASE q = "r"
    BY <1>2, <2>1, <2>3, SomaBodyR, ConsBodyR, ProdBodyR, NoInstructions
  <2>. QED
    BY <2>2, <2>3
<1>. QED
  BY <1>1, <1>2, <1>3, MqueuePrepared, BufferBounded

\* A cell that no instruction stores into keeps its 0.
Stores(t, c) == \E i \in DOMAIN prog.script[t] :
    prog.script[t][i][1] = "store" /\ prog.script[t][i][2] = c
Unused == \A c \in Cells : (\A t \in Threads : ~Stores(t, c)) => cell[c] = 0

LEMMA UnusedInductive == TypeOK /\ Unused /\ [Next]_vars => Unused'
<1>. SUFFICES ASSUME TypeOK, Unused, [Next]_vars PROVE Unused'
  OBVIOUS
<1>1. CASE prog' = prog /\ cell' = cell
  BY <1>1 DEF Unused, Stores
<1>2. ASSUME NEW t \in Threads, Task(t) PROVE Unused'
  <2>0. prog' = prog /\ pc[t].at \in DOMAIN prog.script[t] /\ cell \in [Cells -> Int]
    BY <1>2, Running DEF TypeOK, DataOK
  <2>1. CASE cell' = cell
    BY <1>1, <2>0, <2>1
  <2>2. CASE cell' # cell
    <3>1. Op(t) = "store" /\ cell' = [cell EXCEPT ![Arg(t)] = reg[t] + Num(t)]
      BY <1>2, <2>2, DataSteps
    <3>2. Stores(t, Arg(t))
      BY <2>0, <3>1 DEF Stores, Op, Arg, Ins
    <3>3. \A c \in Cells : c # Arg(t) => cell'[c] = cell[c]
      BY <2>0, <3>1
    <3>4. \A u, c : Stores(u, c)' <=> Stores(u, c)
      BY <2>0 DEF Stores
    <3>. QED
      BY <3>2, <3>3, <3>4 DEF Unused
  <2>. QED
    BY <2>1, <2>2
<1>. QED
  BY <1>1, <1>2 DEF Next, Dispatch, Wake, Preempt, ToDispatcher, Finish, Ended, vars, data

\* The programs that do not touch a buffer.
Silent == ({"create", "join"} \X Tasks \X {0})
          \cup ({"yield", "nap", "exit", "halt", "again", "down", "up", "sem_create",
                 "sem_destroy", "barrier_join"} \X {None, "s1", "s2", "b"} \X Nat)

LEMMA SilentLists ==
    ASSUME NEW ts \in Seq(Tasks)
    PROVE  CreateAll(ts) \in Seq(Silent) /\ JoinAll(ts) \in Seq(Silent)
<1>1. \A t \in Tasks : <<"create", t, 0>> \in Silent /\ <<"join", t, 0>> \in Silent
  BY DEF Silent
<1>2. /\ CreateAll(ts) = [i \in 1 .. Len(ts) |-> <<"create", ts[i], 0>>]
      /\ JoinAll(ts) = [i \in 1 .. Len(ts) |-> <<"join", ts[i], 0>>]
  BY DEF CreateAll, JoinAll, On
<1>3. \A i \in 1 .. Len(ts) : <<"create", ts[i], 0>> \in Silent /\ <<"join", ts[i], 0>> \in Silent
  BY <1>1
<1>. QED
  BY <1>2, <1>3

LEMMA SilentProgram ==
    ASSUME NEW name, NEW rounds, NEW main \in Seq(Silent), NEW body,
           \A t \in DOMAIN body : body[t] \in Seq(Silent),
           prog = Program(name, main, body, rounds)
    PROVE  \A t \in Threads : \A i \in DOMAIN prog.script[t] : prog.script[t][i][1] # "store"
<1>1. \A t \in Threads : prog.script[t] \in Seq(Silent)
  BY DEF Program
<1>2. \A x \in Silent : x[1] # "store"
  BY DEF Silent
<1>. QED
  BY <1>1, <1>2

LEMMA SilentOnes ==
    ASSUME prog \in ThePrograms \ {PingpongRacecond, PingpongProdcons, PingpongMqueue}
    PROVE  \A t \in Threads : \A i \in DOMAIN prog.script[t] : prog.script[t][i][1] # "store"
<1>1. /\ CreateAll(Crew) \in Seq(Silent) /\ JoinAll(Crew) \in Seq(Silent)
  BY CrewFacts, SilentLists
<1>2. /\ CreateAll(Ones \o Others) \in Seq(Silent)
      /\ JoinAll(Tail(Ones) \o Others) \in Seq(Silent)
      /\ Ones[1] \in Tasks
  <2>1. Ones \in Seq(Tasks) /\ Others \in Seq(Tasks) /\ Ones # <<>>
    BY CrewShape
  <2>2. Ones \o Others \in Seq(Tasks) /\ Tail(Ones) \o Others \in Seq(Tasks) /\ Ones[1] \in Tasks
    BY <2>1
  <2>. QED
    BY <2>2, SilentLists
<1>3. /\ <<I("exit")>> \in Seq(Silent) /\ <<I("yield")>> \in Seq(Silent)
      /\ <<I("halt")>> \in Seq(Silent) /\ <<I("yield"), I("halt")>> \in Seq(Silent)
      /\ Working \in Seq(Silent) /\ Yielding \in Seq(Silent)
      /\ <<I("nap"), <<"again", None, 1>>, I("exit")>> \in Seq(Silent)
  BY DEF I, Silent, Working, Yielding
<1>4. CreateYieldJoin \in Seq(Silent)
  <2>1. CreateAll(Crew) \o <<I("yield")>> \in Seq(Silent)
    BY <1>1, <1>3
  <2>2. CreateAll(Crew) \o <<I("yield")>> \o JoinAll(Crew) \in Seq(Silent)
    BY <1>1, <2>1
  <2>. QED
    BY <1>3, <2>2 DEF CreateYieldJoin
<1>5. \A ts, body : body \in Seq(Silent) =>
        \A t \in DOMAIN Each(ts, body) : Each(ts, body)[t] \in Seq(Silent)
  BY DEF Each
<1>6. CreateAll(Crew) \o JoinAll(Crew) \o <<I("exit")>> \in Seq(Silent)
  <2>1. CreateAll(Crew) \o JoinAll(Crew) \in Seq(Silent)
    BY <1>1
  <2>. QED
    BY <1>3, <2>1
<1>7. CASE prog = PingpongJoin
  BY <1>3, <1>5, <1>6, <1>7, SilentProgram DEF PingpongJoin
<1>8. CASE prog = PingpongPreempcao
  BY <1>3, <1>4, <1>5, <1>8, SilentProgram DEF PingpongPreempcao
<1>9. CASE prog = PingpongContabPrio
  BY <1>3, <1>4, <1>5, <1>9, SilentProgram DEF PingpongContabPrio
<1>10. CASE prog = PingpongScheduler
  BY <1>3, <1>4, <1>5, <1>10, SilentProgram DEF PingpongScheduler
<1>11. CASE prog = PingpongDispatcher
  <2>1. CreateAll(Crew) \o <<I("yield"), I("halt")>> \in Seq(Silent)
    BY <1>1, <1>3
  <2>. QED
    BY <1>3, <1>5, <1>11, <2>1, SilentProgram DEF PingpongDispatcher
<1>12. CASE prog = PingpongSleep
  BY <1>3, <1>5, <1>6, <1>12, SilentProgram DEF PingpongSleep
<1>13. CASE prog = PingpongBarrier
  <2>1. <<On("barrier_join", "b"), I("exit")>> \in Seq(Silent)
        /\ <<I("nap"), On("barrier_join", "b"), I("exit")>> \in Seq(Silent)
    BY DEF On, I, Silent
  <2>2. CreateAll(Crew) \o <<On("barrier_join", "b"), I("exit")>> \in Seq(Silent)
    BY <1>1, <2>1
  <2>. QED
    BY <1>5, <1>13, <2>1, <2>2, SilentProgram DEF PingpongBarrier
<1>14. CASE prog = PingpongSemaphore
  <2> DEFINE a == <<<<"sem_create", "s1", 1>>, <<"sem_create", "s2", 0>>>>
             b == CreateAll(Ones \o Others)
             c == <<On("join", Ones[1])>>
             d == <<On("sem_destroy", "s1"), On("sem_destroy", "s2")>>
             e == JoinAll(Tail(Ones) \o Others)
             f == <<I("exit")>>
             bodies == TwoKinds(ZigZag("s1", "s2"), ZigZag("s2", "s1"))
  <2>1. a \in Seq(Silent) /\ c \in Seq(Silent) /\ d \in Seq(Silent)
    BY <1>2 DEF On, Silent
  <2>2. b \in Seq(Silent) /\ e \in Seq(Silent) /\ f \in Seq(Silent)
    BY <1>2, <1>3
  <2>3. ZigZag("s1", "s2") \in Seq(Silent) /\ ZigZag("s2", "s1") \in Seq(Silent)
    BY DEF ZigZag, Down, On, I, Silent
  <2>4. \A t \in DOMAIN bodies : bodies[t] \in Seq(Silent)
    BY <2>3 DEF TwoKinds
  <2> HIDE DEF a, b, c, d, e, f, bodies
  <2>5. a \o b \o c \o d \o e \o f \in Seq(Silent)
    <3>1. a \o b \o c \in Seq(Silent)
      BY <2>1, <2>2
    <3>2. a \o b \o c \o d \o e \in Seq(Silent)
      BY <2>1, <2>2, <3>1
    <3>. QED
      BY <2>2, <3>2
  <2>6. prog = Program("semaphore", a \o b \o c \o d \o e \o f, bodies, Rounds)
    BY <1>14 DEF PingpongSemaphore, a, b, c, d, e, f, bodies
  <2>. QED
    BY <2>4, <2>5, <2>6, SilentProgram
<1>. QED
  BY <1>7, <1>8, <1>9, <1>10, <1>11, <1>12, <1>13, <1>14 DEF ThePrograms

\* Who stores where.
LEMMA WhatIsStored ==
    ASSUME CpuOK, NEW t \in Threads, NEW c, c # "soma", Stores(t, c)
    PROVE  \/ prog = PingpongProdcons /\ c = "s"
           \/ prog = PingpongMqueue /\ c \in {"s", "r"}
<1>1. prog \in ThePrograms /\ prog.script[t] \in Seq(Instr) /\ Threads = Tasks \cup {Main}
  BY ProgramsAre, ProgramShape DEF CpuOK, Threads
<1>2. PICK i \in DOMAIN prog.script[t] : prog.script[t][i][1] = "store" /\ prog.script[t][i][2] = c
  BY DEF Stores
<1>3. prog \in {PingpongRacecond, PingpongProdcons, PingpongMqueue}
  BY <1>1, <1>2, SilentOnes
<1>4. ASSUME prog \in {PingpongRacecond, PingpongProdcons, PingpongMqueue} PROVE t # Main
  BY <1>1, <1>2, <1>3, RaceGuarded, ProdconsPrepared, MqueuePrepared DEF Prepared
<1>5. CASE prog = PingpongRacecond
  <2>1. t \in Tasks
    BY <1>1, <1>4, <1>5
  <2>2. CASE t \in Elems(Crew)
    <3>1. prog.script[t] = adding
      BY <1>5, <2>2, RaceScripts
    <3>2. /\ DOMAIN adding = 1 .. 6
          /\ adding[1] = <<"down", "s1", 2>> /\ adding[2] = <<"load", "soma", 0>>
          /\ adding[3] = <<"store", "soma", 1>> /\ adding[4] = <<"up", "s1", 0>>
          /\ adding[5] = <<"again", None, 1>> /\ adding[6] = <<"exit", None, 0>>
      BY DEF adding, Down, On, I
    <3>. QED
      BY <1>2, <3>1, <3>2
  <2>3. CASE t \notin Elems(Crew)
    BY <1>2, <1>5, <2>1, <2>3, RaceScripts
  <2>. QED
    BY <2>2, <2>3
<1>6. CASE prog = PingpongProdcons
  <2>1. prog.script[t] \in {produtor, consumidor, <<>>}
    BY <1>1, <1>4, <1>6, ProdconsScripts
  <2>2. CASE prog.script[t] = produtor
    <3>1. i \in 1 .. 8
      BY <1>1, <2>2, ProdutorIs
    <3>. QED
      BY <1>2, <1>6, <2>2, <3>1, ProdutorIs
  <2>3. CASE prog.script[t] = consumidor
    <3>1. i \in 1 .. 8
      BY <1>1, <2>3, ConsumidorIs
    <3>. QED
      BY <1>2, <1>6, <2>3, <3>1, ConsumidorIs
  <2>. QED
    BY <1>2, <2>1, <2>2, <2>3
<1>7. CASE prog = PingpongMqueue
  <2>1. prog.script[t] \in {somaBody, consBody, prodBody, <<>>}
    BY <1>1, <1>4, <1>7, MqueueScripts
  <2>2. CASE prog.script[t] = somaBody
    <3>1. i \in 1 .. 31
      BY <1>1, <2>2, SomaBodyIs
    <3>2. somaBody[i][1] = "store" => somaBody[i][2] \in {"s", "r"}
      BY <3>1, SomaBodyIs
    <3>. QED
      BY <1>2, <1>7, <2>2, <3>2
  <2>3. CASE prog.script[t] = consBody
    <3>1. i \in 1 .. 10
      BY <1>1, <2>3, ConsBodyIs
    <3>. QED
      BY <1>2, <1>7, <2>3, <3>1, ConsBodyIs
  <2>4. CASE prog.script[t] = prodBody
    <3>1. i \in 1 .. 10
      BY <1>1, <2>4, ProdBodyIs
    <3>. QED
      BY <1>2, <1>7, <2>4, <3>1, ProdBodyIs
  <2>. QED
    BY <1>2, <2>1, <2>2, <2>3, <2>4
<1>. QED
  BY <1>3, <1>5, <1>6, <1>7

\* No item is put into a full buffer or taken from an empty one, for any numbers of tasks
\* and places, wherever a quantum ends and also while main destroys the queues.
THEOREM BuffersHold == Spec => []BufferInBounds
<1>1. PlacesInv /\ UnitsInv /\ Unused => BufferInBounds
  <2>1. SUFFICES ASSUME PlacesInv, UnitsInv, Unused, NEW q \in Mqueues
                 PROVE  cell[q] \in 0 .. Places
    BY DEF BufferInBounds
  <2>2. CpuOK /\ q \in Cells /\ q # "soma" /\ Places \in Nat
    <3>1. CpuOK
      BY <2>1 DEF PlacesInv, TypeOK
    <3>2. q \in Cells /\ q # "soma"
      BY <2>1, BuffersCounted
    <3>. QED
      BY <3>1, <3>2, CrewShape
  <2>3. CASE \A t \in Threads : ~Stores(t, q)
    <3>1. cell[q] = 0
      BY <2>1, <2>2, <2>3 DEF Unused
    <3>. QED
      BY <2>2, <3>1
  <2>4. CASE \E t \in Threads : Stores(t, q)
    <3>1. \/ prog = PingpongProdcons /\ q = "s"
          \/ prog = PingpongMqueue /\ q \in {"s", "r"}
      BY <2>2, <2>4, WhatIsStored
    <3>2. CASE prog = PingpongProdcons /\ q = "s"
      BY <2>1, <2>2, <3>2, ProdconsBuffers
    <3>3. CASE prog = PingpongMqueue /\ q \in {"s", "r"}
      BY <2>1, <3>3, MqueueBuffers
    <3>. QED
      BY <3>1, <3>2, <3>3
  <2>. QED
    BY <2>3, <2>4
<1>2. Init => Unused
  BY DEF Init, Unused
<1>3. Spec => []Unused
  <2>1. TypeOK /\ Unused /\ [Next]_vars => Unused'
    BY UnusedInductive
  <2>. QED
    BY <1>2, <2>1, KernelTypes, PTL DEF Spec
<1>. QED
  BY <1>1, <1>3, PlacesAlways, UnitsAlways, PTL
=============================================================================
