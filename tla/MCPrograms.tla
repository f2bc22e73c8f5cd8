----------------------------- MODULE MCPrograms -----------------------------
EXTENDS TestPrograms

CONSTANTS T1, T2, T3, T4

ThreeTasks == <<T1, T2, T3>>
FirstTwo == <<T1, T2>>
LastTwo == <<T3, T4>>
LastOne == <<T3>>

AllSemaphores == {"s1", "s2", "sBuffer", "sItem", "sVaga", "rBuffer", "rItem", "rVaga"}
JoinOnly == {PingpongJoin}
=============================================================================
