---------------------------- MODULE TestPrograms ----------------------------
(***************************************************************************)
(* The test programs of the repository as scripts of Kernel, and what they *)
(* are to show.  Output, random numbers, priorities and busy loops are     *)
(* left out; the numbers of tasks, rounds and places are constants.        *)
(***************************************************************************)
EXTENDS Kernel

CONSTANTS
    Crew,           \* the tasks of most programs, in the order of their creation
    Ones, Others,   \* the tasks of the two programs that have two bodies
    Places,         \* of a bounded buffer
    Rounds          \* bound: how often a loop is repeated

Elems(ts) == {ts[i] : i \in DOMAIN ts}

ASSUME CrewShape ==
    /\ {Crew, Ones, Others} \subseteq Seq(Tasks) /\ Len(Crew) >= 3
    /\ Elems(Ones) \cap Elems(Others) = {} /\ Ones # <<>> /\ Others # <<>>
    /\ Places \in Nat /\ Rounds \in Nat

I(op) == <<op, None, 0>>
On(op, x) == <<op, x, 0>>
Down(s, next) == <<"down", s, next>>
CreateAll(ts) == [i \in DOMAIN ts |-> On("create", ts[i])]
JoinAll(ts) == [i \in DOMAIN ts |-> On("join", ts[i])]

\* What main runs, what each task runs, how often a loop is repeated.
Program(name, main, body, rounds) ==
    [name |-> name, rounds |-> rounds, parties |-> Cardinality(DOMAIN body) + 1,
     script |-> [t \in Threads |-> IF t = Main THEN main
                                   ELSE IF t \in DOMAIN body THEN body[t] ELSE <<>>]]

Each(ts, body) == [t \in Elems(ts) |-> body]
TwoKinds(body, other) ==
    [t \in Elems(Ones) \cup Elems(Others) |-> IF t \in Elems(Ones) THEN body ELSE other]

-----------------------------------------------------------------------------
\* pingpong-join: five tasks compute, main joins them one after another.
PingpongJoin ==
    Program("join", CreateAll(Crew) \o JoinAll(Crew) \o <<I("exit")>>,
            Each(Crew, <<I("exit")>>), 0)

\* Most of the others yield first, join every task and end with exit().
CreateYieldJoin == CreateAll(Crew) \o <<I("yield")>> \o JoinAll(Crew) \o <<I("halt")>>

\* pingpong-preempcao and pingpong-preempcao-stress: the tasks compute and print.
Working == <<<<"again", None, 1>>, I("exit")>>
PingpongPreempcao == Program("preempcao", CreateYieldJoin, Each(Crew, Working), Rounds)

\* pingpong-contab-prio: they compute and end.
PingpongContabPrio == Program("contab-prio", CreateYieldJoin, Each(Crew, <<I("exit")>>), 0)

\* pingpong-scheduler: they give up the processor themselves.
Yielding == <<I("yield"), <<"again", None, 1>>, I("exit")>>
PingpongScheduler == Program("scheduler", CreateYieldJoin, Each(Crew, Yielding), Rounds)

\* pingpong-dispatcher: main ends the process when it is scheduled again.
PingpongDispatcher ==
    Program("dispatcher", CreateAll(Crew) \o <<I("yield"), I("halt")>>,
            Each(Crew, Yielding), Rounds)

\* pingpong-sleep: the tasks sleep for random times.
PingpongSleep ==
    Program("sleep", CreateAll(Crew) \o JoinAll(Crew) \o <<I("exit")>>,
            Each(Crew, <<I("nap"), <<"again", None, 1>>, I("exit")>>), Rounds)

-----------------------------------------------------------------------------
\* pingpong-semaphore: zig and zag alternate; main destroys the semaphores when
\* the first task has ended, with the others still at them.
ZigZag(mine, other) ==
    <<Down(mine, 2), On("up", other), I("yield"), <<"again", None, 1>>, I("exit")>>
PingpongSemaphore ==
    Program("semaphore",
            <<<<"sem_create", "s1", 1>>, <<"sem_create", "s2", 0>>>>
            \o CreateAll(Ones \o Others) \o <<On("join", Ones[1])>>
            \o <<On("sem_destroy", "s1"), On("sem_destroy", "s2")>>
            \o JoinAll(Tail(Ones) \o Others) \o <<I("exit")>>,
            TwoKinds(ZigZag("s1", "s2"), ZigZag("s2", "s1")), Rounds)

\* Mutant: the sum is not guarded.
PingpongRacecondUnguarded ==
    Program("racecond",
            <<<<"sem_create", "s1", 1>>>> \o CreateAll(Crew) \o JoinAll(Crew)
            \o <<On("sem_destroy", "s1"), I("exit")>>,
            Each(Crew, <<On("load", "soma"), <<"store", "soma", 1>>, <<"again", None, 1>>,
                         I("exit")>>), Rounds)

\* pingpong-racecond: the tasks add to one sum; += is a read and a write.
PingpongRacecond ==
    Program("racecond",
            <<<<"sem_create", "s1", 1>>>> \o CreateAll(Crew) \o JoinAll(Crew)
            \o <<On("sem_destroy", "s1"), I("exit")>>,
            Each(Crew, <<Down("s1", 2), On("load", "soma"), <<"store", "soma", 1>>,
                          On("up", "s1"), <<"again", None, 1>>, I("exit")>>), Rounds)

\* pingpong-barrier: main and the tasks wait for each other.
PingpongBarrier ==
    Program("barrier", CreateAll(Crew) \o <<On("barrier_join", "b"), I("exit")>>,
            Each(Crew, <<I("nap"), On("barrier_join", "b"), I("exit")>>), 0)

-----------------------------------------------------------------------------
\* A bounded buffer: three semaphores and the number of items in it.
Buffer(q) == IF q = "s" THEN "sBuffer" ELSE "rBuffer"
Item(q) == IF q = "s" THEN "sItem" ELSE "rItem"
Vaga(q) == IF q = "s" THEN "sVaga" ELSE "rVaga"

\* bufferPlace and bufferRetrieve between the operations on the semaphores; a
\* sem_down that fails goes on at fail.
Place(q, fail) ==
    <<Down(Vaga(q), fail), Down(Buffer(q), fail), On("load", q), <<"store", q, 1>>,
      On("up", Buffer(q)), On("up", Item(q))>>
Retrieve(q, fail) ==
    <<Down(Item(q), fail), Down(Buffer(q), fail), On("load", q), <<"store", q, -1>>,
      On("up", Buffer(q)), On("up", Vaga(q))>>
\* Mutant: one place more than the buffer has.
CreateBufferOneMore(q) ==
    <<<<"sem_create", Buffer(q), 1>>, <<"sem_create", Item(q), 0>>,
      <<"sem_create", Vaga(q), Places + 1>>>>
CreateBuffer(q) ==
    <<<<"sem_create", Buffer(q), 1>>, <<"sem_create", Item(q), 0>>,
      <<"sem_create", Vaga(q), Places>>>>

\* pingpong-prodcons: for ever; main exits at once.
produtor == <<I("sleep")>> \o Place("s", 0) \o <<<<"goto", None, 1>>>>
consumidor == Retrieve("s", 0) \o <<I("sleep"), <<"goto", None, 1>>>>
PingpongProdcons ==
    Program("prodcons",
            CreateBuffer("s") \o CreateAll(Ones \o Others) \o <<I("exit")>>,
            TwoKinds(produtor, consumidor), 0)

\* pingpong-mqueue: producers -> queueValores -> adder -> queueRaizes -> consumers.
\* mqueue_send and mqueue_recv fail when the queue has been destroyed.  Main creates the
\* adder, then the consumers (two of the five others), then the producers.
Send(q, fail) == <<<<"test", q, fail>>>> \o Place(q, fail)
Recv(q, fail) == <<<<"test", q, fail>>>> \o Retrieve(q, fail)
MqueueDestroy(q) ==
    <<On("close", q), On("sem_destroy", Buffer(q)), On("sem_destroy", Item(q)),
      On("sem_destroy", Vaga(q))>>
prodBody == Send("s", 10) \o <<I("nap"), <<"goto", None, 1>>, I("exit")>>
somaBody == Recv("s", 8) \o Recv("s", 15) \o Recv("s", 22) \o Send("r", 29)
            \o <<I("nap"), <<"again", None, 1>>, I("exit")>>
consBody == Recv("r", 10) \o <<I("nap"), <<"goto", None, 1>>, I("exit")>>
PingpongMqueue == LET consumers == {Crew[i] : i \in 2 .. (Len(Crew) + 1) \div 2} IN
    Program("mqueue",
            CreateBuffer("s") \o CreateBuffer("r") \o <<On("open", "s"), On("open", "r")>>
            \o CreateAll(Crew) \o <<On("join", Crew[1])>>
            \o MqueueDestroy("s") \o MqueueDestroy("r") \o <<I("exit")>>,
            [t \in Elems(Crew) |-> IF t = Crew[1] THEN somaBody
                                   ELSE IF t \in consumers THEN consBody ELSE prodBody],
            Rounds)

ThePrograms ==
    {PingpongJoin, PingpongPreempcao, PingpongContabPrio, PingpongScheduler,
     PingpongDispatcher, PingpongSleep, PingpongSemaphore, PingpongRacecond, PingpongBarrier,
     PingpongProdcons, PingpongMqueue}
ASSUME ProgramsAre == Programs \subseteq ThePrograms
ASSUME BuffersCounted == Mqueues \subseteq Cells \ {"soma"}
-----------------------------------------------------------------------------
\* The programs that come to an end.
Ending == {"join", "preempcao", "contab-prio", "scheduler", "dispatcher", "sleep",
           "semaphore", "racecond", "barrier", "mqueue"}

\* Every program but the producers and consumers ends (main, of each), under the
\* conditions of EverySuspensionEnds.
ProgramEnds == (prog.name \in Ending) ~> halted

\* pingpong-racecond.c:72: no addition is lost.
SumRight == prog.name = "racecond" /\ pc[Main].at > Len(prog.script[Main]) - 2 =>
    cell["soma"] = Len(Crew) * (Rounds + 1)

\* No item is put into a full buffer or taken from an empty one, though nothing
\* but the three semaphores guards it.
BufferInBounds == \A q \in Mqueues : cell[q] \in 0 .. Places
=============================================================================
