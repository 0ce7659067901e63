-------------------------------- MODULE Sync --------------------------------
(***************************************************************************)
(* What the kernel's mutexes and semaphores (kernel/ipc.c) promise to the  *)
(* tasks that call them, with no scheduler, no queues and no time: who     *)
(* holds a mutex and how deep, how many permits a semaphore has, and who   *)
(* is blocked on what.  Module Sched implements this specification.        *)
(*                                                                         *)
(* The promise leaves open which waiter is served; the code serves them    *)
(* first come, first served (module Sched, property HandoffInOrder).       *)
(***************************************************************************)
EXTENDS Naturals

CONSTANTS
  Tasks,      \* whoever may call: every task, the idle task included
  Mutexes,    \* the kernel's mutexes
  Sems,       \* the kernel's semaphores
  NULL,       \* no holder
  SemInit     \* [Sems -> Nat], the count given to sem_init

VARIABLES
  holder,     \* [Mutexes -> Tasks \cup {NULL}]
  depth,      \* [Mutexes -> Nat], how many times the holder has locked it
  lockWait,   \* [Mutexes -> SUBSET Tasks], the tasks blocked in mutex_lock
  permits,    \* [Sems -> Nat]
  semWait     \* [Sems -> SUBSET Tasks], the tasks blocked in sem_wait

vars == <<holder, depth, lockWait, permits, semWait>>

Blocked(t) == (\E m \in Mutexes : t \in lockWait[m]) \/ (\E s \in Sems : t \in semWait[s])

Init ==
  /\ holder = [m \in Mutexes |-> NULL]
  /\ depth = [m \in Mutexes |-> 0]
  /\ lockWait = [m \in Mutexes |-> {}]
  /\ permits = SemInit
  /\ semWait = [s \in Sems |-> {}]

(* A free mutex is taken, a held one is taken once more by its holder; for *)
(* anyone else the call blocks.                                            *)
Lock(t, m) ==
  /\ ~ Blocked(t)
  /\ \/ /\ holder[m] \in {NULL, t}
        /\ holder' = [holder EXCEPT ![m] = t]
        /\ depth' = [depth EXCEPT ![m] = @ + 1]
        /\ UNCHANGED lockWait
     \/ /\ holder[m] \notin {NULL, t}
        /\ lockWait' = [lockWait EXCEPT ![m] = @ \cup {t}]
        /\ UNCHANGED <<holder, depth>>
  /\ UNCHANGED <<permits, semWait>>

(* Only the holder's calls count.  The last one frees the mutex or makes a *)
(* waiter its holder; no third task can come between.                      *)
Unlock(t, m) ==
  /\ ~ Blocked(t)
  /\ holder[m] = t
  /\ \/ /\ depth[m] > 1
        /\ depth' = [depth EXCEPT ![m] = @ - 1]
        /\ UNCHANGED <<holder, lockWait>>
     \/ /\ depth[m] = 1
        /\ lockWait[m] = {}
        /\ holder' = [holder EXCEPT ![m] = NULL]
        /\ depth' = [depth EXCEPT ![m] = 0]
        /\ UNCHANGED lockWait
     \/ /\ depth[m] = 1
        /\ \E w \in lockWait[m] :
             /\ holder' = [holder EXCEPT ![m] = w]
             /\ lockWait' = [lockWait EXCEPT ![m] = @ \ {w}]
        /\ UNCHANGED depth
  /\ UNCHANGED <<permits, semWait>>

(* A permit is taken, or the call blocks when there is none.               *)
Wait(t, s) ==
  /\ ~ Blocked(t)
  /\ \/ /\ permits[s] > 0
        /\ permits' = [permits EXCEPT ![s] = @ - 1]
        /\ UNCHANGED semWait
     \/ /\ permits[s] = 0
        /\ semWait' = [semWait EXCEPT ![s] = @ \cup {t}]
        /\ UNCHANGED permits
  /\ UNCHANGED <<holder, depth, lockWait>>

(* A permit goes to a waiter if there is one and is kept otherwise.  The   *)
(* caller is a task or an interrupt handler.                               *)
Notify(s) ==
  /\ \/ /\ semWait[s] = {}
        /\ permits' = [permits EXCEPT ![s] = @ + 1]
        /\ UNCHANGED semWait
     \/ /\ \E w \in semWait[s] : semWait' = [semWait EXCEPT ![s] = @ \ {w}]
        /\ UNCHANGED permits
  /\ UNCHANGED <<holder, depth, lockWait>>

Next ==
  \/ \E t \in Tasks, m \in Mutexes : Lock(t, m) \/ Unlock(t, m)
  \/ \E t \in Tasks, s \in Sems : Wait(t, s)
  \/ \E s \in Sems : Notify(s)

Spec == Init /\ [][Next]_vars
=============================================================================
