------------------------------- MODULE MCDisk -------------------------------
(* Constants for model-checking Disk: the idle task, the preemptible init  *)
(* thread and one or two ordinary tasks share the drive.                   *)
EXTENDS Disk, TLC

CONSTANTS idle, init, t1, t2, disk_mutex, disk_sem, null

MCTasks3 == {idle, init, t1}
MCTasks4 == {idle, init, t1, t2}
MCSemInit == [s \in Sems |-> 0]
MCSymmetry == Permutations({t1, t2})
=============================================================================
