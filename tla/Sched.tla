-------------------------------- MODULE Sched --------------------------------
(***************************************************************************)
(* The scheduler and what blocks and wakes tasks: kernel/sched.c,          *)
(* kernel/ipc.c, and the parts of kernel/task.c that create a task, put it *)
(* to sleep, wake it and run it at each timer tick.                        *)
(*                                                                         *)
(* Every operation below runs between enter_critical() and leave_critical()*)
(* on the one CPU, so each is one action, together with the schedule() it  *)
(* ends in.  `current' is whoever makes the call; after a call that        *)
(* switches, the caller resumes when it is `current' again.                *)
(*                                                                         *)
(* The intrusive queues (lib/queue.c) appear as sequences (module Queues); *)
(* module Ring shows that the pointer code behaves like them.              *)
(***************************************************************************)
EXTENDS Integers, FiniteSets, Queues

CONSTANTS
  Tasks,      \* the task structures there can be
  Idle,       \* the idle task, kernel_init itself
  First,      \* the task that runs init_task_entry
  Mutexes,    \* the kernel's mutexes
  Sems,       \* the kernel's semaphores
  SemInit,    \* [Sems -> Nat], the count given to sem_init
  TASK_SLICE, \* timer ticks in a time slice
  NULL,       \* the null pointer: no owner
  MaxSleep,   \* bound: the longest sleep asked for, in ticks
  MaxCount,   \* bound: a semaphore's count
  MaxNest     \* bound: the depth of a mutex

ASSUME SchedAssumption ==
  /\ Idle \in Tasks
  /\ First \in Tasks
  /\ Idle # First
  /\ NULL \notin Tasks
  /\ TASK_SLICE \in Nat \ {0}
  /\ MaxSleep \in Nat
  /\ MaxCount \in Nat
  /\ MaxNest \in Nat
  /\ SemInit \in [Sems -> Nat]
  /\ Mutexes \cap Sems = {}
  /\ {"ready", "sleep"} \cap (Mutexes \cup Sems) = {}

VARIABLES
  state,       \* task->state; "UNBORN" while the structure is not allocated
  slice,       \* task->slice
  sleep_ticks, \* task->sleep_ticks
  queue,       \* the queues task->rq can be linked into, each with its members in order
  current,     \* the task the CPU runs
  count,       \* sem->count
  lock_times,  \* mutex->lock_times
  owner        \* mutex->owner

vars == <<state, slice, sleep_ticks, queue, current, count, lock_times, owner>>
syncVars == <<count, lock_times, owner>>

(* ready_task_queue, sleep_task_queue, sem->sem_queue, mutex->mutex_queue. *)
QueueNames == {"ready", "sleep"} \cup Sems \cup Mutexes

States == {"UNBORN", "RUNNING", "SLEEP", "WAITING", "ZOMBIE"}

-----------------------------------------------------------------------------
(* Mutant of MoveTo: the node is not unlinked from its queue first.        *)
MoveToLinked(t, k) == [queue EXCEPT ![k] = Append(@, t)]

(* queue_remove, then queue_insert_tail on queue k.                        *)
MoveTo(t, k) ==
  [j \in QueueNames |-> IF j = k THEN Append(Without(queue[j], t), t)
                                 ELSE Without(queue[j], t)]

(* pick_next_task, given the ready queue and the task states at the call:  *)
(* the caller's successor in the ring, or the first task when the caller   *)
(* is not runnable any more, or idle_task when the queue is empty.         *)
PickNext(ready, st) ==
  LET here == Position(ready, current)
  IN  IF ready = << >> THEN Idle
      ELSE IF st[current] # "RUNNING" \/ here = Len(ready) THEN Head(ready)
      ELSE ready[here + 1]

(* schedule(), after the queues and the states of this step are in place.  *)
schedule == current' = PickNext(queue'["ready"], state')

-----------------------------------------------------------------------------
(* kernel_init: the idle task first, then the init task; the CPU is idle's.*)
Init ==
  /\ state = [t \in Tasks |-> IF t \in {Idle, First} THEN "RUNNING" ELSE "UNBORN"]
  /\ slice = [t \in Tasks |-> TASK_SLICE]
  /\ sleep_ticks = [t \in Tasks |-> 0]
  /\ queue = [k \in QueueNames |-> IF k = "ready" THEN <<Idle, First>> ELSE << >>]
  /\ current = Idle
  /\ count = SemInit
  /\ lock_times = [m \in Mutexes |-> 0]
  /\ owner = [m \in Mutexes |-> NULL]

(* Mutant of Block: no schedule(), the caller keeps the CPU.               *)
BlockAndStay(k) ==
  /\ queue' = MoveTo(current, k)
  /\ state' = [state EXCEPT ![current] = "WAITING"]
  /\ UNCHANGED <<slice, sleep_ticks, current>>

(* The caller joins the wait queue k and gives up the CPU.                 *)
Block(k) ==
  /\ queue' = MoveTo(current, k)
  /\ state' = [state EXCEPT ![current] = "WAITING"]
  /\ schedule
  /\ UNCHANGED <<slice, sleep_ticks>>

(* Mutant of Release: the waiter that came last is served.                 *)
ReleaseLast(k) ==
  /\ queue' = MoveTo(Last(queue[k]), "ready")
  /\ state' = [state EXCEPT ![Last(queue[k])] = "RUNNING"]
  /\ schedule
  /\ UNCHANGED <<slice, sleep_ticks>>

(* The first task waiting in k is made runnable, at the ready queue's tail.*)
Release(k) ==
  /\ queue' = MoveTo(Head(queue[k]), "ready")
  /\ state' = [state EXCEPT ![Head(queue[k])] = "RUNNING"]
  /\ schedule
  /\ UNCHANGED <<slice, sleep_ticks>>

TasksUnchanged == UNCHANGED <<state, slice, sleep_ticks, queue, current>>

(* Mutant of sem_wait: `count >= 0' for `count > 0'.                       *)
SemWaitAtZero(s) ==
  /\ count[s] >= 0
  /\ count' = [count EXCEPT ![s] = @ - 1]
  /\ TasksUnchanged
  /\ UNCHANGED <<lock_times, owner>>

sem_wait(s) ==
  /\ \/ /\ count[s] > 0
        /\ count' = [count EXCEPT ![s] = @ - 1]
        /\ TasksUnchanged
     \/ /\ count[s] <= 0
        /\ Block(s)
        /\ UNCHANGED count
  /\ UNCHANGED <<lock_times, owner>>

(* Mutant of sem_notify: count++ for a released waiter too.                *)
SemNotifyCounts(s) ==
  /\ count[s] < MaxCount
  /\ count' = [count EXCEPT ![s] = @ + 1]
  /\ \/ queue[s] # << >> /\ Release(s)
     \/ queue[s] = << >> /\ TasksUnchanged
  /\ UNCHANGED <<lock_times, owner>>

(* Also called by the interrupt handler, whoever it interrupted.           *)
sem_notify(s) ==
  /\ \/ /\ queue[s] # << >>
        /\ Release(s)
        /\ UNCHANGED count
     \/ /\ queue[s] = << >>
        /\ count[s] < MaxCount
        /\ count' = [count EXCEPT ![s] = @ + 1]
        /\ TasksUnchanged
  /\ UNCHANGED <<lock_times, owner>>

mutex_lock(m) ==
  /\ \/ /\ lock_times[m] = 0
        /\ lock_times' = [lock_times EXCEPT ![m] = 1]
        /\ owner' = [owner EXCEPT ![m] = current]
        /\ TasksUnchanged
     \/ /\ lock_times[m] # 0
        /\ owner[m] = current
        /\ lock_times[m] < MaxNest
        /\ lock_times' = [lock_times EXCEPT ![m] = @ + 1]
        /\ UNCHANGED owner
        /\ TasksUnchanged
     \/ /\ lock_times[m] # 0
        /\ owner[m] # current
        /\ Block(m)
        /\ UNCHANGED <<lock_times, owner>>
  /\ UNCHANGED count

(* Mutant of mutex_unlock: the waiters are forgotten.                      *)
MutexUnlockNoHandover(m) ==
  /\ owner[m] = current
  /\ lock_times' = [lock_times EXCEPT ![m] = @ - 1]
  /\ owner' = [owner EXCEPT ![m] = IF lock_times[m] = 1 THEN NULL ELSE @]
  /\ TasksUnchanged
  /\ UNCHANGED count

(* Mutant of mutex_unlock: whoever calls is taken for the owner.           *)
MutexUnlockByAnyone(m) ==
  /\ lock_times[m] = 1
  /\ queue[m] = << >>
  /\ lock_times' = [lock_times EXCEPT ![m] = 0]
  /\ owner' = [owner EXCEPT ![m] = NULL]
  /\ TasksUnchanged
  /\ UNCHANGED count

(* A caller that is not the owner changes nothing and is not told.         *)
mutex_unlock(m) ==
  /\ \/ /\ owner[m] # current
        /\ TasksUnchanged
        /\ UNCHANGED <<lock_times, owner>>
     \/ /\ owner[m] = current
        /\ lock_times[m] # 1
        /\ lock_times' = [lock_times EXCEPT ![m] = @ - 1]
        /\ UNCHANGED owner
        /\ TasksUnchanged
     \/ /\ owner[m] = current
        /\ lock_times[m] = 1
        /\ queue[m] = << >>
        /\ lock_times' = [lock_times EXCEPT ![m] = 0]
        /\ owner' = [owner EXCEPT ![m] = NULL]
        /\ TasksUnchanged
     \/ /\ owner[m] = current
        /\ lock_times[m] = 1
        /\ queue[m] # << >>
        /\ owner' = [owner EXCEPT ![m] = Head(queue[m])]
        /\ lock_times' = [lock_times EXCEPT ![m] = 1]
        /\ Release(m)
  /\ UNCHANGED count

(* sys_sleep for a number of ticks; zero ticks only gives up the CPU.      *)
sys_sleep(ticks) ==
  /\ \/ /\ ticks = 0
        /\ UNCHANGED <<queue, state, sleep_ticks>>
     \/ /\ ticks > 0
        /\ queue' = MoveTo(current, "sleep")
        /\ state' = [state EXCEPT ![current] = "SLEEP"]
        /\ sleep_ticks' = [sleep_ticks EXCEPT ![current] = ticks]
  /\ schedule
  /\ UNCHANGED <<slice, syncVars>>

(* To the ready queue's tail, whatever is left of the slice.               *)
task_yield ==
  /\ queue' = MoveTo(current, "ready")
  /\ UNCHANGED <<state, slice, sleep_ticks, syncVars>>
  /\ schedule

-----------------------------------------------------------------------------
(* The tasks whose sleep ends with this tick.                              *)
Due == {t \in Range(queue["sleep"]) : sleep_ticks[t] = 1}

(* Mutant of AfterSlice: the used up slice is refilled and no more.        *)
AfterSliceInPlace == queue["ready"]

(* The ready queue once the running task's slice is accounted for: a used  *)
(* up slice sends it to the tail.                                          *)
AfterSlice ==
  IF slice[current] = 1 THEN MoveTo(current, "ready")["ready"] ELSE queue["ready"]

(* Mutant of task_tick: a woken task is queued with its state left SLEEP.  *)
TickLeavesState ==
  /\ slice' = [slice EXCEPT ![current] = IF @ = 1 THEN TASK_SLICE ELSE @ - 1]
  /\ sleep_ticks' = [t \in Tasks |-> IF t \in Range(queue["sleep"])
                                     THEN sleep_ticks[t] - 1 ELSE sleep_ticks[t]]
  /\ \E woken \in InOrder(queue["sleep"], Due),
        asleep \in InOrder(queue["sleep"], Range(queue["sleep"]) \ Due) :
       queue' = [queue EXCEPT !["ready"] = AfterSlice \o woken, !["sleep"] = asleep]
  /\ UNCHANGED state
  /\ schedule
  /\ UNCHANGED syncVars

(* do_handler_time's task_tick: the slice, then every sleeper in order,    *)
(* then a switch to the next runnable task.                                *)
task_tick ==
  /\ slice' = [slice EXCEPT ![current] = IF @ = 1 THEN TASK_SLICE ELSE @ - 1]
  /\ sleep_ticks' = [t \in Tasks |-> IF t \in Range(queue["sleep"])
                                     THEN sleep_ticks[t] - 1 ELSE sleep_ticks[t]]
  /\ state' = [t \in Tasks |-> IF t \in Due THEN "RUNNING" ELSE state[t]]
  /\ \E woken \in InOrder(queue["sleep"], Due),
        asleep \in InOrder(queue["sleep"], Range(queue["sleep"]) \ Due) :
       queue' = [queue EXCEPT !["ready"] = AfterSlice \o woken, !["sleep"] = asleep]
  /\ schedule
  /\ UNCHANGED syncVars

(* sys_fork: task_init links the child into the ready queue; then, before  *)
(* interrupts can come back, it is marked RUNNING, or ZOMBIE if its memory *)
(* could not be copied.  The child stays in the ready queue either way.    *)
sys_fork(child) ==
  /\ state[child] = "UNBORN"
  /\ \E outcome \in {"RUNNING", "ZOMBIE"} : state' = [state EXCEPT ![child] = outcome]
  /\ slice' = [slice EXCEPT ![child] = TASK_SLICE]
  /\ queue' = [queue EXCEPT !["ready"] = Append(@, child)]
  /\ UNCHANGED <<sleep_ticks, current, syncVars>>

-----------------------------------------------------------------------------
(* The idle task only halts: interrupts happen to it, it calls nothing.    *)
Call ==
  /\ current # Idle
  /\ \/ \E m \in Mutexes : mutex_lock(m) \/ mutex_unlock(m)
     \/ \E s \in Sems : sem_wait(s)
     \/ \E ticks \in 0 .. MaxSleep : sys_sleep(ticks)
     \/ \E child \in Tasks : sys_fork(child)
     \/ task_yield

Interrupt == task_tick \/ \E s \in Sems : sem_notify(s)

Next == Call \/ Interrupt

Spec == Init /\ [][Next]_vars

(* The timer keeps ticking, and every system call returns to code that can *)
(* be interrupted (or blocks, and the task switched to can be).            *)
FairSpec == Spec /\ WF_vars(task_tick)

-----------------------------------------------------------------------------
(* The variables have the types of the C fields they stand for.            *)
TypeOK ==
  /\ state \in [Tasks -> States]
  /\ slice \in [Tasks -> 1 .. TASK_SLICE]
  /\ sleep_ticks \in [Tasks -> Nat]
  /\ queue \in [QueueNames -> Seq(Tasks)]
  /\ current \in Tasks
  /\ count \in [Sems -> Nat]
  /\ lock_times \in [Mutexes -> Nat]
  /\ owner \in [Mutexes -> Tasks \cup {NULL}]

(* The queues a task may be linked into, by its state.                     *)
Homes(st) ==
  CASE st \in {"RUNNING", "ZOMBIE"} -> {"ready"}
    [] st = "SLEEP"                 -> {"sleep"}
    [] st = "WAITING"               -> Sems \cup Mutexes
    [] st = "UNBORN"                -> {}

(* task->rq is one node: a task is linked into at most one queue, at one   *)
(* place, which its state names, and once created it is always in one.     *)
(* This is what every queue_remove(&task->rq) in the kernel relies on, and *)
(* each call has to move the node and set the state in agreement.          *)
QueueInv ==
  /\ \A k \in QueueNames : IsInjective(queue[k])
  /\ \A j, k \in QueueNames : j # k => Range(queue[j]) \cap Range(queue[k]) = {}
  /\ \A t \in Tasks, k \in QueueNames :
       t \in Range(queue[k]) => k \in Homes(state[t])
  /\ \A t \in Tasks :
       state[t] # "UNBORN" => \E k \in QueueNames : t \in Range(queue[k])

(* After every switch the CPU runs a task that is in the ready queue, and  *)
(* the idle task never leaves it: pick_next_task reads current->rq.next,   *)
(* which is a wrong ring's link unless the caller's node is in that queue. *)
CurrentInv == {current, Idle} \subseteq Range(queue["ready"])

(* A mutex is locked exactly while it has an owner; a task queues for it   *)
(* only while someone else owns it.  So a handover in mutex_unlock leaves  *)
(* no waiter behind a free mutex and never hands it to its own waiter.     *)
LockInv ==
  \A m \in Mutexes :
    /\ (lock_times[m] = 0) <=> (owner[m] = NULL)
    /\ owner[m] = NULL => queue[m] = << >>
    /\ owner[m] \notin Range(queue[m])

(* No lost wake-up: a semaphore with a permit left has nobody waiting,     *)
(* however sem_wait, sem_notify and the interrupt handler interleave.      *)
SemInv == \A s \in Sems : count[s] > 0 => queue[s] = << >>

(* A sleeper has at least a tick to go: task_tick's `--sleep_ticks == 0'   *)
(* can then not be stepped over, which would let it sleep for 2^32 ticks.  *)
SleepInv == \A t \in Tasks : state[t] = "SLEEP" => sleep_ticks[t] > 0

(* sem_notify and mutex_unlock serve waiters first come, first served: no  *)
(* call and no tick takes a task out of a wait queue from behind another,  *)
(* and whoever leaves a mutex's queue owns the mutex.                      *)
HandoffInOrder ==
  [][\A k \in Sems \cup Mutexes :
       \A t \in Range(queue[k]) \ Range(queue'[k]) :
         /\ t = Head(queue[k])
         /\ k \in Mutexes => owner'[k] = t]_vars

(* The mutexes and semaphores are those of module Sync: a blocked caller   *)
(* is a queued one, and no interleaving of calls, ticks and interrupts     *)
(* lets two tasks hold a mutex or a permit be lost or taken twice.         *)
Abstract ==
  INSTANCE Sync WITH
    holder <- owner,
    depth <- lock_times,
    permits <- count,
    lockWait <- [m \in Mutexes |-> Range(queue[m])],
    semWait <- [s \in Sems |-> Range(queue[s])]

ImplementsSync == Abstract!Spec

(* Every task in the ready queue gets the CPU, whatever the others do: the *)
(* ring walk restarts at the queue's head when a task blocks or a zombie   *)
(* gives way, and the slice that sends a task to the tail makes up for it. *)
NoStarvation == \A t \in Tasks : t \in Range(queue["ready"]) ~> current = t

(* A sleeping task is woken.                                               *)
SleepEnds == \A t \in Tasks : state[t] = "SLEEP" ~> state[t] = "RUNNING"

(* What do_fork's comment says of a child whose memory could not be copied *)
(* (kernel/task.c:551): it is a zombie and the idle task reclaims it.      *)
ZombieReclaimed ==
  \A t \in Tasks : state[t] = "ZOMBIE" ~> t \notin Range(queue["ready"])
=============================================================================
