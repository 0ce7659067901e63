------------------------------- MODULE MCSched -------------------------------
(* Constants for model-checking Sched: two tasks besides the idle task and *)
(* the init task, one or two mutexes and one semaphore.                    *)
EXTENDS Sched, TLC

CONSTANTS idle, init, t1, t2, m1, m2, s1, null

MCTasks3 == {idle, init, t1}
MCTasks4 == {idle, init, t1, t2}
MCSymmetry == Permutations({t1, t2}) \cup Permutations({m1, m2})
MCSemInit == [s \in Sems |-> 0]
=============================================================================
