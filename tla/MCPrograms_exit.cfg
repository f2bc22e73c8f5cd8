SPECIFICATION Spec
CONSTANTS
 T1 = T1
 T2 = T2
 T3 = T3
 T4 = T4
 Tasks = {T1, T2, T3, T4}
 Main = Main
 Disp = Disp
 None = None
 Semaphores <- AllSemaphores
 Barriers = {"b"}
 Mqueues = {"s", "r"}
 Cells = {"soma", "s", "r"}
 Programs <- JoinOnly
 Crew <- ThreeTasks
 Ones <- FirstTwo
 Others <- LastTwo
 Places = 1
 Rounds = 0
 Quiet = {}
INVARIANTS NoFreedStack
