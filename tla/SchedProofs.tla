----------------------------- MODULE SchedProofs -----------------------------
(***************************************************************************)
(* Proofs about module Sched, for any set of tasks, mutexes and semaphores,*)
(* any time slice and any bounds: the queues, the locks and the scheduler  *)
(* stay consistent, and Sched implements Sync.                             *)
(***************************************************************************)
EXTENDS Sched, BasicLemmas


-----------------------------------------------------------------------------
(* The invariant, in two halves: what the scheduler keeps of tasks and     *)
(* their queues, and what the locks keep of their own fields.              *)

TaskInv ==
  /\ state \in [Tasks -> States]
  /\ slice \in [Tasks -> 1 .. TASK_SLICE]
  /\ sleep_ticks \in [Tasks -> Nat]
  /\ queue \in [QueueNames -> Seq(Tasks)]
  /\ QueueInv
  /\ CurrentInv
  /\ SleepInv

SyncInv ==
  /\ count \in [Sems -> Nat]
  /\ lock_times \in [Mutexes -> Nat]
  /\ owner \in [Mutexes -> Tasks \cup {NULL}]
  /\ LockInv
  /\ SemInv

IInv == TaskInv /\ SyncInv

(* What a state says about the queue its task is in.                       *)
LEMMA HomesValues ==
  /\ Homes("RUNNING") = {"ready"}
  /\ Homes("ZOMBIE") = {"ready"}
  /\ Homes("SLEEP") = {"sleep"}
  /\ Homes("WAITING") = Sems \cup Mutexes
  /\ Homes("UNBORN") = {}
  BY DEF Homes

LEMMA CurrentIsTask ==
  ASSUME TaskInv
  PROVE  /\ current \in Tasks
         /\ current \in Range(queue["ready"])
         /\ state[current] \in {"RUNNING", "ZOMBIE"}
<1>1. queue["ready"] \in Seq(Tasks) /\ current \in Range(queue["ready"])
  BY DEF TaskInv, CurrentInv, QueueNames
<1>2. current \in Tasks
  BY <1>1, RangeOfSeq
<1>3. "ready" \in Homes(state[current]) /\ state[current] \in States
  BY <1>1, <1>2 DEF TaskInv, QueueInv, QueueNames
<1>4. "ready" \notin Sems \cup Mutexes
  BY SchedAssumption
<1> QED BY <1>1, <1>2, <1>3, <1>4, HomesValues DEF States

(* queue_remove and queue_insert_tail move one task and keep the rest.     *)
LEMMA MoveToProperties ==
  ASSUME TaskInv, NEW t \in Tasks, NEW k \in QueueNames
  PROVE  /\ MoveTo(t, k) \in [QueueNames -> Seq(Tasks)]
         /\ \A j \in QueueNames :
              /\ IsInjective(MoveTo(t, k)[j])
              /\ Range(MoveTo(t, k)[j]) =
                   IF j = k THEN Range(queue[j]) \cup {t} ELSE Range(queue[j]) \ {t}
<1>1. \A j \in QueueNames : Lists(Without(queue[j], t), Tasks, Range(queue[j]) \ {t})
  BY WithoutProperties DEF TaskInv, QueueInv
<1>2. Lists(Append(Without(queue[k], t), t), Tasks, (Range(queue[k]) \ {t}) \cup {t})
  BY <1>1, InsertTailProperties DEF Lists
<1> QED BY <1>1, <1>2 DEF MoveTo, Lists

(* A task moved to a queue its new state names keeps the queues in order.  *)
LEMMA MoveKeepsQueueInv ==
  ASSUME TaskInv, NEW t \in Tasks, NEW k \in QueueNames,
         NEW st \in States \ {"UNBORN"}, k \in Homes(st),
         queue' = MoveTo(t, k), state' = [state EXCEPT ![t] = st]
  PROVE  /\ queue' \in [QueueNames -> Seq(Tasks)]
         /\ state' \in [Tasks -> States]
         /\ QueueInv'
<1>1. /\ queue' \in [QueueNames -> Seq(Tasks)]
      /\ \A j \in QueueNames :
           /\ IsInjective(queue'[j])
           /\ Range(queue'[j]) =
                IF j = k THEN Range(queue[j]) \cup {t} ELSE Range(queue[j]) \ {t}
  BY MoveToProperties
<1>2. state' \in [Tasks -> States]
  BY DEF TaskInv
<1>3. (\A i, j \in QueueNames : i # j => Range(queue[i]) \cap Range(queue[j]) = {})'
  <2> SUFFICES ASSUME NEW i \in QueueNames, NEW j \in QueueNames, i # j
               PROVE  Range(queue'[i]) \cap Range(queue'[j]) = {}
    BY DEF QueueNames
  <2>1. Range(queue[i]) \cap Range(queue[j]) = {}
    BY DEF TaskInv, QueueInv
  <2>2. /\ Range(queue'[i]) = IF i = k THEN Range(queue[i]) \cup {t} ELSE Range(queue[i]) \ {t}
        /\ Range(queue'[j]) = IF j = k THEN Range(queue[j]) \cup {t} ELSE Range(queue[j]) \ {t}
    BY <1>1
  <2>3. CASE i = k
    BY <2>1, <2>2, <2>3
  <2>4. CASE j = k
    BY <2>1, <2>2, <2>4
  <2>5. CASE i # k /\ j # k
    <3>1. /\ Range(queue'[i]) \subseteq Range(queue[i])
          /\ Range(queue'[j]) \subseteq Range(queue[j])
      BY <2>2, <2>5
    <3> QED BY <2>1, <3>1, Zenon
  <2> QED BY <2>3, <2>4, <2>5
<1>4. (\A u \in Tasks, j \in QueueNames :
         u \in Range(queue[j]) => j \in Homes(state[u]))'
  <2> SUFFICES ASSUME NEW u \in Tasks, NEW j \in QueueNames, u \in Range(queue'[j])
               PROVE  j \in Homes(state'[u])
    BY DEF QueueNames, Homes
  <2>1. CASE u = t
    BY <2>1, <1>1 DEF TaskInv
  <2>2. CASE u # t
    <3>1. u \in Range(queue[j]) /\ state'[u] = state[u]
      BY <2>2, <1>1 DEF TaskInv
    <3> QED BY <3>1 DEF TaskInv, QueueInv
  <2> QED BY <2>1, <2>2
<1>5. (\A u \in Tasks :
         state[u] # "UNBORN" => \E j \in QueueNames : u \in Range(queue[j]))'
  <2> SUFFICES ASSUME NEW u \in Tasks, state'[u] # "UNBORN"
               PROVE  \E j \in QueueNames : u \in Range(queue'[j])
    BY DEF QueueNames
  <2>1. CASE u = t
    BY <2>1, <1>1
  <2>2. CASE u # t
    BY <2>2, <1>1 DEF TaskInv, QueueInv
  <2> QED BY <2>1, <2>2
<1> QED BY <1>1, <1>2, <1>3, <1>4, <1>5 DEF QueueInv, QueueNames

(* pick_next_task picks a member of the ready queue: it follows the link   *)
(* of a caller that is in that queue, or starts at the first.              *)
LEMMA PickNextProperties ==
  ASSUME NEW ready \in Seq(Tasks), ready # << >>, NEW st,
         st[current] = "RUNNING" => current \in Range(ready)
  PROVE  PickNext(ready, st) \in Range(ready)
<1> DEFINE here == Position(ready, current)
<1>1. Head(ready) \in Range(ready)
  BY EmptyQueue
<1>2. CASE st[current] = "RUNNING" /\ here # Len(ready)
  <2>1. here \in 1 .. Len(ready)
    BY <1>2, PositionProperties
  <2>2. here + 1 \in DOMAIN ready
    BY <1>2, <2>1
  <2> QED BY <1>2, <2>2 DEF PickNext, Range
<1> QED BY <1>1, <1>2 DEF PickNext

-----------------------------------------------------------------------------
(* The pieces operations are made of.                                      *)

(* The queues of the locks are none of the scheduler's.                    *)
LEMMA WaitQueues ==
  ASSUME NEW k \in Sems \cup Mutexes
  PROVE  /\ k \in QueueNames /\ k # "ready" /\ k # "sleep"
         /\ k \in Homes("WAITING")
  BY SchedAssumption, HomesValues DEF QueueNames

(* schedule() keeps the CPU with a ready task when the queues are in order.*)
LEMMA ScheduleStep ==
  ASSUME TaskInv,
         queue' \in [QueueNames -> Seq(Tasks)], QueueInv',
         state' \in [Tasks -> States], state'[current] # "UNBORN",
         Idle \in Range(queue'["ready"]),
         schedule
  PROVE  CurrentInv'
<1> DEFINE ready == queue'["ready"]
<1>1. ready \in Seq(Tasks)
  BY DEF QueueNames
<1>2. ready # << >>
  BY <1>1, EmptyQueue
<1>3. state'[current] = "RUNNING" => current \in Range(ready)
  <2> HAVE state'[current] = "RUNNING"
  <2>1. PICK k \in QueueNames : current \in Range(queue'[k])
    BY CurrentIsTask DEF QueueInv, QueueNames
  <2>2. k \in Homes(state'[current])
    BY <2>1, CurrentIsTask DEF QueueInv, QueueNames, Homes
  <2> QED BY <2>1, <2>2, HomesValues
<1>4. PickNext(ready, state') \in Range(ready)
  BY <1>1, <1>2, <1>3, PickNextProperties
<1> QED BY <1>4 DEF schedule, CurrentInv

(* A caller that blocks on k: it joins k and a ready task runs.            *)
LEMMA BlockStep ==
  ASSUME TaskInv, NEW k \in Sems \cup Mutexes, current # Idle, Block(k)
  PROVE  /\ TaskInv'
         /\ \A j \in QueueNames :
              Range(queue'[j]) = IF j = k THEN Range(queue[j]) \cup {current}
                                          ELSE Range(queue[j]) \ {current}
<1>1. k \in QueueNames /\ k # "ready" /\ k \in Homes("WAITING")
  BY WaitQueues
<1>2. current \in Tasks /\ "WAITING" \in States \ {"UNBORN"}
  BY CurrentIsTask DEF States
<1>3. /\ queue' = MoveTo(current, k)
      /\ state' = [state EXCEPT ![current] = "WAITING"]
      /\ schedule
      /\ UNCHANGED <<slice, sleep_ticks>>
  BY DEF Block
<1>4. /\ queue' \in [QueueNames -> Seq(Tasks)]
      /\ state' \in [Tasks -> States]
      /\ QueueInv'
  BY <1>1, <1>2, <1>3, MoveKeepsQueueInv
<1>5. \A j \in QueueNames :
        Range(queue'[j]) = IF j = k THEN Range(queue[j]) \cup {current}
                                    ELSE Range(queue[j]) \ {current}
  BY <1>1, <1>2, <1>3, MoveToProperties
<1>6. Idle \in Range(queue'["ready"])
  BY <1>1, <1>5 DEF TaskInv, CurrentInv, QueueNames
<1>7. state'[current] # "UNBORN"
  BY <1>2, <1>3 DEF TaskInv
<1>8. CurrentInv'
  BY <1>3, <1>4, <1>6, <1>7, ScheduleStep
<1>9. SleepInv'
  BY <1>2, <1>3 DEF TaskInv, SleepInv
<1> QED BY <1>3, <1>4, <1>5, <1>8, <1>9 DEF TaskInv

(* The first waiter of k is made ready: the others keep their places.      *)
LEMMA ReleaseStep ==
  ASSUME TaskInv, NEW k \in Sems \cup Mutexes, queue[k] # << >>, Release(k)
  PROVE  /\ TaskInv'
         /\ Head(queue[k]) \in Tasks
         /\ Head(queue[k]) \in Range(queue[k])
         /\ \A j \in QueueNames :
              Range(queue'[j]) = IF j = "ready" THEN Range(queue[j]) \cup {Head(queue[k])}
                                                ELSE Range(queue[j]) \ {Head(queue[k])}
<1> DEFINE w == Head(queue[k])
<1>1. k \in QueueNames /\ "ready" \in QueueNames /\ "ready" \in Homes("RUNNING")
  BY WaitQueues, HomesValues DEF QueueNames
<1>2. w \in Tasks /\ w \in Range(queue[k]) /\ "RUNNING" \in States \ {"UNBORN"}
  BY <1>1, EmptyQueue DEF TaskInv, States
<1>3. /\ queue' = MoveTo(w, "ready")
      /\ state' = [state EXCEPT ![w] = "RUNNING"]
      /\ schedule
      /\ UNCHANGED <<slice, sleep_ticks>>
  BY DEF Release
<1> HIDE DEF w
<1>4. /\ queue' \in [QueueNames -> Seq(Tasks)]
      /\ state' \in [Tasks -> States]
      /\ QueueInv'
  BY <1>1, <1>2, <1>3, MoveKeepsQueueInv
<1>5. \A j \in QueueNames :
        Range(queue'[j]) = IF j = "ready" THEN Range(queue[j]) \cup {w}
                                          ELSE Range(queue[j]) \ {w}
  BY <1>1, <1>2, <1>3, MoveToProperties
<1>6. Idle \in Range(queue'["ready"])
  BY <1>1, <1>5 DEF TaskInv, CurrentInv
<1>7. state'[current] # "UNBORN"
  BY <1>2, <1>3, CurrentIsTask DEF TaskInv
<1>8. CurrentInv'
  BY <1>3, <1>4, <1>6, <1>7, ScheduleStep
<1>9. SleepInv'
  BY <1>2, <1>3 DEF TaskInv, SleepInv
<1> QED BY <1>2, <1>3, <1>4, <1>5, <1>8, <1>9 DEF TaskInv, w

LEMMA TasksUnchangedStep ==
  ASSUME TaskInv, TasksUnchanged
  PROVE  TaskInv'
  BY DEF TasksUnchanged, TaskInv, QueueInv, CurrentInv, SleepInv

(* A queue that had no members and gained none is empty.                   *)
LEMMA StaysEmpty ==
  ASSUME NEW q \in Seq(Tasks), NEW r \in Seq(Tasks), q = << >>, Range(r) \subseteq Range(q)
  PROVE  r = << >>
  BY EmptyQueue

-----------------------------------------------------------------------------
(* Every operation keeps the invariant.                                    *)

LEMMA SemWaitStep ==
  ASSUME IInv, current # Idle, NEW s \in Sems, sem_wait(s)
  PROVE  IInv'
<1>1. CASE count[s] > 0 /\ TasksUnchanged
  <2>1. TaskInv' /\ UNCHANGED queue
    BY <1>1, TasksUnchangedStep DEF IInv, TasksUnchanged
  <2>2. count' = [count EXCEPT ![s] = @ - 1] /\ UNCHANGED <<lock_times, owner>>
    BY <1>1 DEF sem_wait, IInv, SyncInv
  <2> QED BY <1>1, <2>1, <2>2 DEF IInv, SyncInv, LockInv, SemInv
<1>2. CASE count[s] <= 0 /\ Block(s)
  <2>1. /\ TaskInv'
        /\ \A j \in QueueNames :
             Range(queue'[j]) = IF j = s THEN Range(queue[j]) \cup {current}
                                         ELSE Range(queue[j]) \ {current}
    BY <1>2, BlockStep DEF IInv
  <2>2. UNCHANGED <<count, lock_times, owner>>
    BY <1>2 DEF sem_wait, IInv, SyncInv
  <2>3. \A j \in (Sems \cup Mutexes) \ {s} :
          /\ queue[j] = << >> => queue'[j] = << >>
          /\ Range(queue'[j]) \subseteq Range(queue[j])
    BY <2>1, StaysEmpty, WaitQueues DEF IInv, TaskInv
  <2>4. LockInv'
    BY <2>2, <2>3, SchedAssumption DEF IInv, SyncInv, LockInv
  <2>5. SemInv'
    BY <1>2, <2>2, <2>3 DEF IInv, SyncInv, SemInv
  <2> QED BY <2>1, <2>2, <2>4, <2>5 DEF IInv, SyncInv
<1> QED BY <1>1, <1>2 DEF sem_wait

LEMMA SemNotifyStep ==
  ASSUME IInv, NEW s \in Sems, sem_notify(s)
  PROVE  IInv'
<1>1. CASE queue[s] # << >> /\ Release(s) /\ UNCHANGED count
  <2>1. /\ TaskInv'
        /\ \A j \in QueueNames :
             Range(queue'[j]) = IF j = "ready" THEN Range(queue[j]) \cup {Head(queue[s])}
                                               ELSE Range(queue[j]) \ {Head(queue[s])}
    BY <1>1, ReleaseStep DEF IInv
  <2>2. UNCHANGED <<count, lock_times, owner>>
    BY <1>1 DEF sem_notify
  <2>3. \A j \in Sems \cup Mutexes :
          /\ queue[j] = << >> => queue'[j] = << >>
          /\ Range(queue'[j]) \subseteq Range(queue[j])
    BY <2>1, StaysEmpty, WaitQueues DEF IInv, TaskInv
  <2> QED BY <2>1, <2>2, <2>3 DEF IInv, SyncInv, LockInv, SemInv
<1>2. CASE queue[s] = << >> /\ count' = [count EXCEPT ![s] = @ + 1] /\ TasksUnchanged
  <2>1. TaskInv' /\ UNCHANGED queue
    BY <1>2, TasksUnchangedStep DEF IInv, TasksUnchanged
  <2>2. UNCHANGED <<lock_times, owner>>
    BY DEF sem_notify
  <2> QED BY <1>2, <2>1, <2>2 DEF IInv, SyncInv, LockInv, SemInv
<1> QED BY <1>1, <1>2 DEF sem_notify

LEMMA MutexLockStep ==
  ASSUME IInv, current # Idle, NEW m \in Mutexes, mutex_lock(m)
  PROVE  IInv'
<1>1. UNCHANGED count /\ current \in Tasks /\ current # NULL /\ current \in Range(queue["ready"])
  BY CurrentIsTask, SchedAssumption DEF mutex_lock, IInv
<1>2. m \in QueueNames /\ m # "ready"
  BY WaitQueues
<1>3. CASE lock_times[m] = 0 /\ lock_times' = [lock_times EXCEPT ![m] = 1]
           /\ owner' = [owner EXCEPT ![m] = current] /\ TasksUnchanged
  <2>1. TaskInv' /\ UNCHANGED queue
    BY <1>3, TasksUnchangedStep DEF IInv, TasksUnchanged
  <2>2. current \notin Range(queue[m])
    BY <1>1, <1>2 DEF IInv, TaskInv, QueueInv, QueueNames
  <2> QED BY <1>1, <1>3, <2>1, <2>2 DEF IInv, SyncInv, LockInv, SemInv
<1>4. CASE lock_times[m] # 0 /\ owner[m] = current /\ UNCHANGED owner
           /\ lock_times' = [lock_times EXCEPT ![m] = @ + 1] /\ TasksUnchanged
  <2>1. TaskInv' /\ UNCHANGED queue
    BY <1>4, TasksUnchangedStep DEF IInv, TasksUnchanged
  <2> QED BY <1>1, <1>4, <2>1 DEF IInv, SyncInv, LockInv, SemInv
<1>5. CASE lock_times[m] # 0 /\ owner[m] # current /\ Block(m) /\ UNCHANGED <<lock_times, owner>>
  <2>1. /\ TaskInv'
        /\ \A j \in QueueNames :
             Range(queue'[j]) = IF j = m THEN Range(queue[j]) \cup {current}
                                         ELSE Range(queue[j]) \ {current}
    BY <1>5, BlockStep DEF IInv
  <2>2. \A j \in (Sems \cup Mutexes) \ {m} :
          /\ queue[j] = << >> => queue'[j] = << >>
          /\ Range(queue'[j]) \subseteq Range(queue[j])
    BY <2>1, StaysEmpty, WaitQueues DEF IInv, TaskInv
  <2>3. owner[m] # NULL /\ owner[m] \notin Range(queue'[m])
    BY <1>2, <1>5, <2>1 DEF IInv, SyncInv, LockInv
  <2>4. LockInv'
    BY <1>5, <2>2, <2>3 DEF IInv, SyncInv, LockInv
  <2>5. SemInv'
    BY <1>1, <2>2, SchedAssumption DEF IInv, SyncInv, SemInv
  <2> QED BY <1>1, <1>5, <2>1, <2>4, <2>5 DEF IInv, SyncInv
<1> QED BY <1>3, <1>4, <1>5 DEF mutex_lock

LEMMA MutexUnlockStep ==
  ASSUME IInv, NEW m \in Mutexes, mutex_unlock(m)
  PROVE  IInv'
<1>1. UNCHANGED count /\ current \in Tasks /\ current # NULL
  BY CurrentIsTask, SchedAssumption DEF mutex_unlock, IInv
<1>2. CASE TasksUnchanged /\ UNCHANGED <<lock_times, owner>>
  <2>1. TaskInv' /\ UNCHANGED queue
    BY <1>2, TasksUnchangedStep DEF IInv, TasksUnchanged
  <2> QED BY <1>1, <1>2, <2>1 DEF IInv, SyncInv, LockInv, SemInv
<1>3. CASE owner[m] = current /\ lock_times[m] # 1 /\ TasksUnchanged
           /\ lock_times' = [lock_times EXCEPT ![m] = @ - 1] /\ UNCHANGED owner
  <2>1. TaskInv' /\ UNCHANGED queue
    BY <1>3, TasksUnchangedStep DEF IInv, TasksUnchanged
  <2>2. lock_times[m] # 0
    BY <1>1, <1>3 DEF IInv, SyncInv, LockInv
  <2> QED BY <1>1, <1>3, <2>1, <2>2 DEF IInv, SyncInv, LockInv, SemInv
<1>4. CASE owner[m] = current /\ queue[m] = << >> /\ TasksUnchanged
           /\ lock_times' = [lock_times EXCEPT ![m] = 0] /\ owner' = [owner EXCEPT ![m] = NULL]
  <2>1. TaskInv' /\ UNCHANGED queue
    BY <1>4, TasksUnchangedStep DEF IInv, TasksUnchanged
  <2>2. NULL \notin Range(queue[m])
    BY <1>4, WaitQueues, EmptyQueue DEF IInv, TaskInv
  <2> QED BY <1>1, <1>4, <2>1, <2>2 DEF IInv, SyncInv, LockInv, SemInv
<1>5. CASE owner[m] = current /\ queue[m] # << >> /\ Release(m)
           /\ lock_times' = [lock_times EXCEPT ![m] = 1]
           /\ owner' = [owner EXCEPT ![m] = Head(queue[m])]
  <2> DEFINE w == Head(queue[m])
  <2>1. /\ TaskInv'
        /\ w \in Tasks
        /\ \A j \in QueueNames :
             Range(queue'[j]) = IF j = "ready" THEN Range(queue[j]) \cup {w}
                                               ELSE Range(queue[j]) \ {w}
    BY <1>5, ReleaseStep DEF IInv
  <2> HIDE DEF w
  <2>2. \A j \in Sems \cup Mutexes :
          /\ queue[j] = << >> => queue'[j] = << >>
          /\ Range(queue'[j]) \subseteq Range(queue[j])
    BY <2>1, StaysEmpty, WaitQueues DEF IInv, TaskInv
  <2>3. w # NULL /\ w \notin Range(queue'[m])
    BY <2>1, WaitQueues, SchedAssumption
  <2>4. owner' = [owner EXCEPT ![m] = w]
    BY <1>5 DEF w
  <2>5. LockInv'
    BY <1>5, <2>2, <2>3, <2>4 DEF IInv, SyncInv, LockInv
  <2>6. SemInv'
    BY <1>1, <2>2 DEF IInv, SyncInv, SemInv
  <2> QED BY <1>1, <1>5, <2>1, <2>4, <2>5, <2>6 DEF IInv, SyncInv
<1> QED BY <1>2, <1>3, <1>4, <1>5 DEF mutex_unlock

LEMMA SysSleepStep ==
  ASSUME IInv, current # Idle, NEW ticks \in Nat, sys_sleep(ticks)
  PROVE  IInv'
<1>1. /\ "ready" \in QueueNames /\ "sleep" \in QueueNames
      /\ "sleep" \in Homes("SLEEP") /\ "SLEEP" \in States \ {"UNBORN"}
      /\ current \in Tasks /\ state[current] # "UNBORN"
  BY HomesValues, CurrentIsTask DEF IInv, QueueNames, States
<1>2. UNCHANGED <<slice, count, lock_times, owner>> /\ schedule
  BY DEF sys_sleep, syncVars
<1>3. CASE ticks = 0 /\ UNCHANGED <<queue, state, sleep_ticks>>
  <2>1. QueueInv' /\ SleepInv' /\ Idle \in Range(queue'["ready"])
    BY <1>3 DEF IInv, TaskInv, QueueInv, SleepInv, CurrentInv
  <2>2. queue' \in [QueueNames -> Seq(Tasks)] /\ state' \in [Tasks -> States]
    BY <1>3 DEF IInv, TaskInv
  <2>3. CurrentInv'
    BY <1>1, <1>2, <1>3, <2>1, <2>2, ScheduleStep DEF IInv
  <2> QED BY <1>2, <1>3, <2>1, <2>3 DEF IInv, TaskInv, SyncInv, LockInv, SemInv
<1>4. CASE /\ ticks > 0
           /\ queue' = MoveTo(current, "sleep")
           /\ state' = [state EXCEPT ![current] = "SLEEP"]
           /\ sleep_ticks' = [sleep_ticks EXCEPT ![current] = ticks]
  <2>1. /\ queue' \in [QueueNames -> Seq(Tasks)]
        /\ state' \in [Tasks -> States]
        /\ QueueInv'
    BY <1>1, <1>4, MoveKeepsQueueInv DEF IInv
  <2>2. \A j \in QueueNames :
          Range(queue'[j]) = IF j = "sleep" THEN Range(queue[j]) \cup {current}
                                            ELSE Range(queue[j]) \ {current}
    BY <1>1, <1>4, MoveToProperties DEF IInv
  <2>3. Idle \in Range(queue'["ready"])
    BY <1>1, <2>2 DEF IInv, TaskInv, CurrentInv
  <2>4. state'[current] # "UNBORN"
    BY <1>1, <1>4 DEF IInv, TaskInv
  <2>5. CurrentInv'
    BY <1>2, <2>1, <2>3, <2>4, ScheduleStep DEF IInv
  <2>6. SleepInv'
    BY <1>1, <1>4 DEF IInv, TaskInv, SleepInv
  <2>7. TaskInv'
    BY <1>2, <1>4, <2>1, <2>5, <2>6 DEF IInv, TaskInv
  <2>8. \A j \in Sems \cup Mutexes :
          /\ queue[j] = << >> => queue'[j] = << >>
          /\ Range(queue'[j]) \subseteq Range(queue[j])
    BY <2>1, <2>2, StaysEmpty, WaitQueues DEF IInv, TaskInv
  <2> QED BY <1>2, <2>7, <2>8 DEF IInv, SyncInv, LockInv, SemInv
<1> QED BY <1>3, <1>4 DEF sys_sleep

LEMMA TaskYieldStep ==
  ASSUME IInv, task_yield
  PROVE  IInv'
<1>1. /\ "ready" \in QueueNames
      /\ current \in Tasks /\ state[current] \in States \ {"UNBORN"}
      /\ "ready" \in Homes(state[current])
  BY HomesValues, CurrentIsTask DEF IInv, TaskInv, QueueNames
<1>2. /\ queue' = MoveTo(current, "ready")
      /\ UNCHANGED <<state, slice, sleep_ticks, count, lock_times, owner>>
      /\ schedule
  BY DEF task_yield, syncVars
<1>3. state' = [state EXCEPT ![current] = state[current]]
  BY <1>2 DEF IInv, TaskInv
<1>4. /\ queue' \in [QueueNames -> Seq(Tasks)]
      /\ state' \in [Tasks -> States]
      /\ QueueInv'
  BY <1>1, <1>2, <1>3, MoveKeepsQueueInv DEF IInv
<1>5. \A j \in QueueNames :
        Range(queue'[j]) = IF j = "ready" THEN Range(queue[j]) \cup {current}
                                          ELSE Range(queue[j]) \ {current}
  BY <1>1, <1>2, MoveToProperties DEF IInv
<1>6. Idle \in Range(queue'["ready"])
  BY <1>1, <1>5 DEF IInv, TaskInv, CurrentInv
<1>7. CurrentInv'
  BY <1>1, <1>2, <1>4, <1>6, ScheduleStep DEF IInv
<1>8. TaskInv'
  BY <1>2, <1>4, <1>7 DEF IInv, TaskInv, SleepInv
<1>9. \A j \in Sems \cup Mutexes :
        /\ queue[j] = << >> => queue'[j] = << >>
        /\ Range(queue'[j]) \subseteq Range(queue[j])
  BY <1>4, <1>5, StaysEmpty, WaitQueues DEF IInv, TaskInv
<1> QED BY <1>2, <1>8, <1>9 DEF IInv, SyncInv, LockInv, SemInv

(* A tick moves the due sleepers, all of them and no others.               *)
LEMMA TaskTickStep ==
  ASSUME IInv, task_tick
  PROVE  IInv'
<1> USE DEF IInv
<1>1. "ready" \in QueueNames /\ "sleep" \in QueueNames /\ current \in Tasks
  BY CurrentIsTask DEF QueueNames
<1>2. PICK woken \in InOrder(queue["sleep"], Due),
           asleep \in InOrder(queue["sleep"], Range(queue["sleep"]) \ Due) :
        queue' = [queue EXCEPT !["ready"] = AfterSlice \o woken, !["sleep"] = asleep]
  BY DEF task_tick
<1>3. Due \subseteq Range(queue["sleep"]) /\ Range(queue["sleep"]) \in SUBSET Tasks
  BY <1>1, RangeOfSeq DEF Due, TaskInv
<1>4. \A t \in Range(queue["sleep"]) : state[t] = "SLEEP"
  <2> TAKE t \in Range(queue["sleep"])
  <2>1. "sleep" \in Homes(state[t]) /\ state[t] \in States
    BY <1>1, <1>3 DEF TaskInv, QueueInv
  <2> QED BY <2>1, HomesValues, SchedAssumption DEF States
<1>5. Lists(AfterSlice, Tasks, Range(queue["ready"]))
  <2>1. CASE slice[current] = 1
    <3>1. /\ MoveTo(current, "ready") \in [QueueNames -> Seq(Tasks)]
          /\ IsInjective(MoveTo(current, "ready")["ready"])
          /\ Range(MoveTo(current, "ready")["ready"]) = Range(queue["ready"]) \cup {current}
      BY <1>1, MoveToProperties
    <3>2. current \in Range(queue["ready"])
      BY CurrentIsTask
    <3> QED BY <2>1, <1>1, <3>1, <3>2 DEF AfterSlice, Lists
  <2>2. CASE slice[current] # 1
    BY <2>2, <1>1 DEF AfterSlice, Lists, TaskInv, QueueInv
  <2> QED BY <2>1, <2>2
<1>6. /\ Lists(woken, Tasks, Due)
      /\ Lists(asleep, Tasks, Range(queue["sleep"]) \ Due)
  BY <1>1, <1>3, InOrderProperties DEF TaskInv
<1>7. Lists(AfterSlice \o woken, Tasks, Range(queue["ready"]) \cup Due)
  <2>1. Range(queue["ready"]) \cap Range(queue["sleep"]) = {}
    BY <1>1 DEF TaskInv, QueueInv
  <2> QED BY <2>1, <1>3, <1>5, <1>6, ConcatLists DEF Lists
<1>8. /\ queue'["ready"] = AfterSlice \o woken
      /\ queue'["sleep"] = asleep
      /\ \A j \in QueueNames \ {"ready", "sleep"} : queue'[j] = queue[j]
      /\ DOMAIN queue' = QueueNames
  BY <1>1, <1>2 DEF TaskInv
<1>9. /\ queue' \in [QueueNames -> Seq(Tasks)]
      /\ \A j \in QueueNames : IsInjective(queue'[j])
  <2>1. \A j \in QueueNames : queue'[j] \in Seq(Tasks) /\ IsInjective(queue'[j])
    <3> TAKE j \in QueueNames
    <3>1. CASE j = "ready"
      BY <1>7, <1>8, <3>1 DEF Lists
    <3>2. CASE j = "sleep"
      BY <1>6, <1>8, <3>2 DEF Lists
    <3>3. CASE j \notin {"ready", "sleep"}
      <4>1. queue'[j] = queue[j]
        BY <1>8, <3>3
      <4>2. queue[j] \in Seq(Tasks) /\ IsInjective(queue[j])
        BY <1>1 DEF TaskInv, QueueInv
      <4> QED BY <4>1, <4>2
    <3> QED BY <3>1, <3>2, <3>3
  <2>2. queue' = [j \in QueueNames |-> queue'[j]]
    BY <1>1, <1>2, <1>8 DEF TaskInv
  <2> QED BY <2>1, <2>2
<1>10. /\ Range(queue'["ready"]) = Range(queue["ready"]) \cup Due
       /\ Range(queue'["sleep"]) = Range(queue["sleep"]) \ Due
       /\ \A j \in QueueNames \ {"ready", "sleep"} : Range(queue'[j]) = Range(queue[j])
  BY <1>6, <1>7, <1>8 DEF Lists
<1>11. /\ \A t \in Tasks : state'[t] = IF t \in Due THEN "RUNNING" ELSE state[t]
       /\ state' \in [Tasks -> States]
  BY DEF task_tick, TaskInv, States
<1>12. QueueInv'
  <2>1. \A t \in Tasks, j \in QueueNames :
          t \in Range(queue'[j]) <=>
            IF t \in Due THEN j = "ready" ELSE t \in Range(queue[j])
    <3> TAKE t \in Tasks, j \in QueueNames
    <3>1. CASE t \in Due
      <4>1. j # "sleep" => t \notin Range(queue[j])
        BY <3>1, <1>1, <1>3 DEF TaskInv, QueueInv
      <4> QED BY <3>1, <4>1, <1>10
    <3>2. CASE t \notin Due
      BY <3>2, <1>10
    <3> QED BY <3>1, <3>2
  <2>2. \A j \in QueueNames : Range(queue'[j]) \subseteq Tasks
    BY <1>9, RangeOfSeq
  <2>3. ASSUME NEW i \in QueueNames, NEW j \in QueueNames, i # j
        PROVE  Range(queue'[i]) \cap Range(queue'[j]) = {}
    <3> SUFFICES ASSUME NEW t \in Tasks, t \in Range(queue'[i]), t \in Range(queue'[j])
                 PROVE  FALSE
      BY <2>2
    <3>1. t \notin Due
      BY <2>1, <2>3
    <3>2. t \in Range(queue[i]) /\ t \in Range(queue[j])
      BY <2>1, <3>1
    <3>3. Range(queue[i]) \cap Range(queue[j]) = {}
      BY <2>3 DEF TaskInv, QueueInv
    <3> QED BY <3>2, <3>3
  <2>4. ASSUME NEW t \in Tasks, NEW j \in QueueNames, t \in Range(queue'[j])
        PROVE  j \in Homes(state'[t])
    <3>1. CASE t \in Due
      BY <3>1, <2>1, <2>4, <1>11, HomesValues
    <3>2. CASE t \notin Due
      <4>1. t \in Range(queue[j]) /\ state'[t] = state[t]
        BY <3>2, <2>1, <2>4, <1>11
      <4> QED BY <4>1 DEF TaskInv, QueueInv
    <3> QED BY <3>1, <3>2
  <2>5. ASSUME NEW t \in Tasks, state'[t] # "UNBORN"
        PROVE  \E j \in QueueNames : t \in Range(queue'[j])
    <3>1. CASE t \in Due
      BY <3>1, <2>1, <1>1
    <3>2. CASE t \notin Due
      <4>1. \E j \in QueueNames : t \in Range(queue[j])
        BY <3>2, <2>5, <1>11 DEF TaskInv, QueueInv
      <4> QED BY <3>2, <4>1, <2>1
    <3> QED BY <3>1, <3>2
  <2>6. \A j \in QueueNames : IsInjective(queue'[j])
    BY <1>9
  <2> QED BY <2>3, <2>4, <2>5, <2>6 DEF QueueInv, QueueNames, Homes
<1>13. CurrentInv'
  <2>1. Idle \in Range(queue'["ready"])
    BY <1>10 DEF TaskInv, CurrentInv
  <2>2. state'[current] # "UNBORN"
    BY <1>1, <1>11, CurrentIsTask
  <2>3. schedule
    BY DEF task_tick
  <2> QED BY <1>9, <1>11, <1>12, <2>1, <2>2, <2>3, ScheduleStep
<1>14. sleep_ticks' \in [Tasks -> Nat] /\ SleepInv'
  <2>1. sleep_ticks' = [t \in Tasks |-> IF t \in Range(queue["sleep"])
                                        THEN sleep_ticks[t] - 1 ELSE sleep_ticks[t]]
    BY DEF task_tick
  <2>2. \A t \in Range(queue["sleep"]) : sleep_ticks[t] \in Nat /\ sleep_ticks[t] > 0
    BY <1>3, <1>4 DEF TaskInv, SleepInv
  <2>3. sleep_ticks' \in [Tasks -> Nat]
    BY <2>1, <2>2 DEF TaskInv
  <2>4. ASSUME NEW t \in Tasks, state'[t] = "SLEEP"
        PROVE  sleep_ticks'[t] > 0
    <3>1. t \notin Due /\ state[t] = "SLEEP" /\ sleep_ticks[t] \in Nat /\ sleep_ticks[t] > 0
      BY <2>4, <1>11 DEF TaskInv, SleepInv
    <3>2. CASE t \in Range(queue["sleep"])
      <4>1. sleep_ticks[t] # 1 /\ sleep_ticks'[t] = sleep_ticks[t] - 1
        BY <3>1, <3>2, <2>1 DEF Due
      <4> QED BY <3>1, <4>1
    <3>3. CASE t \notin Range(queue["sleep"])
      BY <3>1, <3>3, <2>1
    <3> QED BY <3>2, <3>3
  <2> QED BY <2>3, <2>4 DEF SleepInv
<1>15. slice' \in [Tasks -> 1 .. TASK_SLICE]
  BY <1>1, SchedAssumption DEF task_tick, TaskInv
<1>16. UNCHANGED <<count, lock_times, owner>>
  BY DEF task_tick, syncVars
<1>17. \A j \in Sems \cup Mutexes : queue'[j] = queue[j]
  BY <1>8, WaitQueues
<1>18. SyncInv'
  BY <1>16, <1>17 DEF SyncInv, LockInv, SemInv
<1> QED BY <1>9, <1>11, <1>12, <1>13, <1>14, <1>15, <1>18 DEF TaskInv

(* A child joins the ready queue as its last member, runnable or a zombie. *)
LEMMA SysForkStep ==
  ASSUME IInv, NEW child \in Tasks, sys_fork(child)
  PROVE  IInv'
<1> USE DEF IInv
<1>1. PICK outcome \in {"RUNNING", "ZOMBIE"} : state' = [state EXCEPT ![child] = outcome]
  BY DEF sys_fork
<1>2. /\ "ready" \in QueueNames /\ current \in Tasks
      /\ "ready" \in Homes(outcome) /\ outcome \in States \ {"UNBORN"}
      /\ state[child] = "UNBORN"
      /\ queue' = [queue EXCEPT !["ready"] = Append(@, child)]
      /\ slice' = [slice EXCEPT ![child] = TASK_SLICE]
      /\ UNCHANGED <<sleep_ticks, current, count, lock_times, owner>>
  BY HomesValues, CurrentIsTask DEF QueueNames, States, sys_fork, syncVars
<1>3. \A j \in QueueNames : child \notin Range(queue[j])
  BY <1>2, HomesValues DEF TaskInv, QueueInv
<1>4. Lists(queue'["ready"], Tasks, Range(queue["ready"]) \cup {child})
  <2>1. queue["ready"] \in Seq(Tasks) /\ IsInjective(queue["ready"])
    BY <1>2 DEF TaskInv, QueueInv
  <2>2. queue'["ready"] = Append(queue["ready"], child)
    BY <1>2 DEF TaskInv
  <2> QED BY <1>2, <1>3, <2>1, <2>2, InsertTailProperties
<1>5. /\ \A j \in QueueNames \ {"ready"} : queue'[j] = queue[j]
      /\ \A j \in QueueNames : queue'[j] \in Seq(Tasks) /\ IsInjective(queue'[j])
      /\ queue' \in [QueueNames -> Seq(Tasks)]
  BY <1>2, <1>4 DEF TaskInv, QueueInv, Lists
<1>6. \A j \in QueueNames :
        Range(queue'[j]) = IF j = "ready" THEN Range(queue[j]) \cup {child} ELSE Range(queue[j])
  BY <1>4, <1>5 DEF Lists
<1>7. /\ state' \in [Tasks -> States]
      /\ \A t \in Tasks : state'[t] = IF t = child THEN outcome ELSE state[t]
  BY <1>1, <1>2 DEF TaskInv
<1>8. QueueInv'
  <2>1. ASSUME NEW i \in QueueNames, NEW j \in QueueNames, i # j
        PROVE  Range(queue'[i]) \cap Range(queue'[j]) = {}
    <3>1. Range(queue[i]) \cap Range(queue[j]) = {}
      BY <2>1 DEF TaskInv, QueueInv
    <3>2. child \notin Range(queue[i]) /\ child \notin Range(queue[j])
      BY <1>3
    <3>3. /\ Range(queue'[i]) = Range(queue[i]) \/ (i = "ready" /\ Range(queue'[i]) = Range(queue[i]) \cup {child})
          /\ Range(queue'[j]) = Range(queue[j]) \/ (j = "ready" /\ Range(queue'[j]) = Range(queue[j]) \cup {child})
      BY <1>6
    <3> QED BY <2>1, <3>1, <3>2, <3>3
  <2>2. ASSUME NEW t \in Tasks, NEW j \in QueueNames, t \in Range(queue'[j])
        PROVE  j \in Homes(state'[t])
    <3>1. CASE t = child
      BY <3>1, <2>2, <1>2, <1>3, <1>6, <1>7
    <3>2. CASE t # child
      <4>1. t \in Range(queue[j]) /\ state'[t] = state[t]
        BY <3>2, <2>2, <1>6, <1>7
      <4> QED BY <4>1 DEF TaskInv, QueueInv
    <3> QED BY <3>1, <3>2
  <2>3. ASSUME NEW t \in Tasks, state'[t] # "UNBORN"
        PROVE  \E j \in QueueNames : t \in Range(queue'[j])
    <3>1. CASE t = child
      <4>1. child \in Range(queue'["ready"])
        BY <1>4 DEF Lists
      <4> QED BY <3>1, <4>1, <1>2
    <3>2. CASE t # child
      <4>1. \E j \in QueueNames : t \in Range(queue[j])
        BY <3>2, <2>3, <1>7 DEF TaskInv, QueueInv
      <4> QED BY <4>1, <1>6
    <3> QED BY <3>1, <3>2
  <2>4. \A j \in QueueNames : IsInjective(queue'[j])
    BY <1>5
  <2> QED BY <2>1, <2>2, <2>3, <2>4 DEF QueueInv, QueueNames, Homes
<1>9. CurrentInv'
  BY <1>2, <1>6 DEF TaskInv, CurrentInv
<1>10. SleepInv'
  BY <1>2, <1>7 DEF TaskInv, SleepInv
<1>11. slice' \in [Tasks -> 1 .. TASK_SLICE] /\ sleep_ticks' \in [Tasks -> Nat]
  BY <1>2, SchedAssumption DEF TaskInv
<1>12. SyncInv'
  <2>1. \A j \in Sems \cup Mutexes : queue'[j] = queue[j]
    BY <1>5, WaitQueues
  <2> QED BY <1>2, <2>1 DEF SyncInv, LockInv, SemInv
<1> QED BY <1>5, <1>7, <1>8, <1>9, <1>10, <1>11, <1>12 DEF TaskInv

LEMMA InitIInv ==
  Init => IInv
<1> SUFFICES ASSUME Init PROVE IInv
  OBVIOUS
<1> USE SchedAssumption DEF Init
<1>1. "ready" \in QueueNames /\ \A j \in QueueNames : queue[j] = IF j = "ready" THEN <<Idle, First>> ELSE << >>
  BY DEF QueueNames
<1>2. /\ \A j \in QueueNames : queue[j] \in Seq(Tasks) /\ IsInjective(queue[j])
      /\ Range(<<Idle, First>>) = {Idle, First}
      /\ Range(<< >>) = {}
  <2>1. IsInjective(<<Idle, First>>) /\ Range(<<Idle, First>>) = {Idle, First}
    BY DEF IsInjective, Range
  <2>2. IsInjective(<< >>) /\ Range(<< >>) = {}
    BY DEF IsInjective, Range
  <2> QED BY <1>1, <2>1, <2>2
<1>3. queue \in [QueueNames -> Seq(Tasks)]
  BY <1>1, <1>2
<1>4. QueueInv
  <2>1. \A i, j \in QueueNames : i # j => Range(queue[i]) \cap Range(queue[j]) = {}
    BY <1>1, <1>2
  <2>2. \A t \in Tasks, j \in QueueNames : t \in Range(queue[j]) => j \in Homes(state[t])
    BY <1>1, <1>2, HomesValues
  <2>3. \A t \in Tasks : state[t] # "UNBORN" => \E j \in QueueNames : t \in Range(queue[j])
    BY <1>1, <1>2
  <2> QED BY <1>2, <2>1, <2>2, <2>3 DEF QueueInv
<1>5. CurrentInv /\ SleepInv
  BY <1>1, <1>2 DEF CurrentInv, SleepInv
<1>6. TaskInv
  BY <1>3, <1>4, <1>5 DEF TaskInv, States
<1>7. \A j \in Sems \cup Mutexes : queue[j] = << >> /\ Range(queue[j]) = {}
  BY <1>1, <1>2, WaitQueues
<1>8. SyncInv
  BY <1>7 DEF SyncInv, LockInv, SemInv
<1> QED BY <1>6, <1>8 DEF IInv

LEMMA NextIInv ==
  IInv /\ [Next]_vars => IInv'
<1> SUFFICES ASSUME IInv, [Next]_vars PROVE IInv'
  OBVIOUS
<1>1. ASSUME NEW m \in Mutexes, current # Idle, mutex_lock(m) PROVE IInv'
  BY <1>1, MutexLockStep
<1>2. ASSUME NEW m \in Mutexes, mutex_unlock(m) PROVE IInv'
  BY <1>2, MutexUnlockStep
<1>3. ASSUME NEW s \in Sems, current # Idle, sem_wait(s) PROVE IInv'
  BY <1>3, SemWaitStep
<1>4. ASSUME NEW s \in Sems, sem_notify(s) PROVE IInv'
  BY <1>4, SemNotifyStep
<1>5. ASSUME NEW ticks \in 0 .. MaxSleep, current # Idle, sys_sleep(ticks) PROVE IInv'
  BY <1>5, SysSleepStep, SchedAssumption
<1>6. ASSUME NEW child \in Tasks, sys_fork(child) PROVE IInv'
  BY <1>6, SysForkStep
<1>7. CASE task_yield
  BY <1>7, TaskYieldStep
<1>8. CASE task_tick
  BY <1>8, TaskTickStep
<1>9. CASE UNCHANGED vars
  BY <1>9 DEF vars, IInv, TaskInv, QueueInv, CurrentInv, SleepInv, SyncInv, LockInv, SemInv
<1> QED BY <1>1, <1>2, <1>3, <1>4, <1>5, <1>6, <1>7, <1>8, <1>9 DEF Next, Call, Interrupt

-----------------------------------------------------------------------------
(* In every reachable state, for any constants: the types hold, each task  *)
(* is linked into the one queue its state names (QueueInv), the CPU runs a *)
(* ready task (CurrentInv), a locked mutex has one owner who does not wait *)
(* for it (LockInv), no permit lies idle while a task waits (SemInv), and  *)
(* sleepers have ticks left (SleepInv).                                    *)
THEOREM SchedCorrect ==
  Spec => [](TypeOK /\ QueueInv /\ CurrentInv /\ LockInv /\ SemInv /\ SleepInv)
<1>1. IInv => TypeOK /\ QueueInv /\ CurrentInv /\ LockInv /\ SemInv /\ SleepInv
  BY CurrentIsTask DEF IInv, TaskInv, SyncInv, TypeOK
<1> QED BY <1>1, InitIInv, NextIInv, PTL DEF Spec

-----------------------------------------------------------------------------
(* What a step does to the sets of waiting tasks.                          *)

(* A task waiting in one queue is neither running nor in another.          *)
LEMMA WaitersApart ==
  ASSUME TaskInv, NEW k \in Sems \cup Mutexes
  PROVE  /\ current \notin Range(queue[k])
         /\ \A j \in (Sems \cup Mutexes) \ {k} : Range(queue[j]) \cap Range(queue[k]) = {}
<1>1. k \in QueueNames /\ k # "ready" /\ "ready" \in QueueNames
  BY WaitQueues DEF QueueNames
<1>2. Range(queue["ready"]) \cap Range(queue[k]) = {}
  BY <1>1 DEF TaskInv, QueueInv
<1>3. \A j \in (Sems \cup Mutexes) \ {k} : Range(queue[j]) \cap Range(queue[k]) = {}
  BY <1>1, WaitQueues DEF TaskInv, QueueInv
<1> QED BY <1>2, <1>3, CurrentIsTask

LEMMA BlockWaiters ==
  ASSUME TaskInv, NEW j \in Sems \cup Mutexes, current # Idle, Block(j)
  PROVE  \A k \in Sems \cup Mutexes :
           Range(queue'[k]) = IF k = j THEN Range(queue[k]) \cup {current} ELSE Range(queue[k])
  BY BlockStep, WaitQueues, WaitersApart

LEMMA ReleaseWaiters ==
  ASSUME TaskInv, NEW j \in Sems \cup Mutexes, queue[j] # << >>, Release(j)
  PROVE  /\ Head(queue[j]) \in Range(queue[j])
         /\ \A k \in Sems \cup Mutexes :
              Range(queue'[k]) = IF k = j THEN Range(queue[k]) \ {Head(queue[j])}
                                          ELSE Range(queue[k])
<1> DEFINE w == Head(queue[j])
<1>1. /\ w \in Range(queue[j])
      /\ \A k \in QueueNames :
           Range(queue'[k]) = IF k = "ready" THEN Range(queue[k]) \cup {w}
                                             ELSE Range(queue[k]) \ {w}
  BY ReleaseStep
<1> HIDE DEF w
<1>2. \A k \in Sems \cup Mutexes : Range(queue'[k]) = Range(queue[k]) \ {w}
  BY <1>1, WaitQueues
<1>3. \A k \in (Sems \cup Mutexes) \ {j} : w \notin Range(queue[k])
  BY <1>1, WaitersApart
<1>4. \A k \in (Sems \cup Mutexes) \ {j} : Range(queue'[k]) = Range(queue[k])
  BY <1>2, <1>3
<1> QED BY <1>1, <1>2, <1>4 DEF w

(* Everything else leaves the waiting tasks alone.                         *)
LEMMA OtherWaiters ==
  ASSUME IInv,
         \/ TasksUnchanged
         \/ \E ticks \in Nat : sys_sleep(ticks)
         \/ task_yield
         \/ task_tick
         \/ \E child \in Tasks : sys_fork(child),
         NEW k \in Sems \cup Mutexes
  PROVE  Range(queue'[k]) = Range(queue[k])
<1>1. /\ k \in QueueNames /\ k # "ready" /\ k # "sleep"
      /\ "ready" \in QueueNames /\ "sleep" \in QueueNames
      /\ current \in Tasks /\ current \notin Range(queue[k])
  BY WaitQueues, WaitersApart, CurrentIsTask DEF IInv, QueueNames
<1>2. CASE TasksUnchanged
  BY <1>2 DEF TasksUnchanged
<1>3. ASSUME NEW j \in {"ready", "sleep"}, queue' = MoveTo(current, j)
      PROVE  Range(queue'[k]) = Range(queue[k])
  <2>1. Range(queue'[k]) = Range(queue[k]) \ {current}
    BY <1>1, <1>3, MoveToProperties DEF IInv
  <2> QED BY <1>1, <2>1
<1>4. CASE \E ticks \in Nat : sys_sleep(ticks)
  BY <1>3, <1>4 DEF sys_sleep
<1>5. CASE task_yield
  BY <1>3, <1>5 DEF task_yield
<1>6. CASE task_tick
  BY <1>1, <1>6 DEF task_tick, IInv, TaskInv
<1>7. CASE \E child \in Tasks : sys_fork(child)
  BY <1>1, <1>7 DEF sys_fork, IInv, TaskInv
<1> QED BY <1>2, <1>4, <1>5, <1>6, <1>7

-----------------------------------------------------------------------------
(* Waiters are served first come, first served: no step takes a task out   *)
(* of a wait queue but the first, and the one that leaves a mutex's queue  *)
(* owns the mutex (sem_notify, mutex_unlock).                              *)
THEOREM HandoffInOrderTheorem ==
  Spec => HandoffInOrder
<1> DEFINE A ==
      \A k \in Sems \cup Mutexes :
        \A t \in Range(queue[k]) \ Range(queue'[k]) :
          /\ t = Head(queue[k])
          /\ k \in Mutexes => owner'[k] = t
<1>1. IInv /\ [Next]_vars => [A]_vars
  <2> SUFFICES ASSUME IInv, Next,
                      NEW k \in Sems \cup Mutexes,
                      NEW t \in Range(queue[k]) \ Range(queue'[k])
               PROVE  t = Head(queue[k]) /\ (k \in Mutexes => owner'[k] = t)
    OBVIOUS
  <2>1. ASSUME NEW j \in Sems \cup Mutexes, current # Idle, Block(j)
        PROVE  FALSE
    BY <2>1, BlockWaiters DEF IInv
  <2>2. ASSUME NEW j \in Sems \cup Mutexes, queue[j] # << >>, Release(j)
        PROVE  k = j /\ t = Head(queue[j])
    BY <2>2, ReleaseWaiters DEF IInv
  <2>3. /\ ~ TasksUnchanged
        /\ \A ticks \in Nat : ~ sys_sleep(ticks)
        /\ ~ task_yield
        /\ ~ task_tick
        /\ \A child \in Tasks : ~ sys_fork(child)
    BY OtherWaiters
  <2>4. ASSUME NEW m \in Mutexes, current # Idle, mutex_lock(m)
        PROVE  FALSE
    BY <2>1, <2>3, <2>4 DEF mutex_lock
  <2>5. ASSUME NEW s \in Sems, current # Idle, sem_wait(s)
        PROVE  FALSE
    BY <2>1, <2>3, <2>5 DEF sem_wait
  <2>6. ASSUME NEW s \in Sems, sem_notify(s)
        PROVE  t = Head(queue[k]) /\ (k \in Mutexes => owner'[k] = t)
    BY <2>2, <2>3, <2>6, SchedAssumption DEF sem_notify
  <2>7. ASSUME NEW m \in Mutexes, mutex_unlock(m)
        PROVE  t = Head(queue[k]) /\ (k \in Mutexes => owner'[k] = t)
    <3>1. /\ queue[m] # << >>
          /\ owner' = [owner EXCEPT ![m] = Head(queue[m])]
          /\ Release(m)
      BY <2>3, <2>7 DEF mutex_unlock
    <3>2. k = m /\ t = Head(queue[m])
      BY <2>2, <3>1
    <3> QED BY <3>1, <3>2 DEF IInv, SyncInv
  <2> QED BY <2>3, <2>4, <2>5, <2>6, <2>7, SchedAssumption DEF Next, Call, Interrupt
<1>2. Spec => [][A]_vars
  BY <1>1, InitIInv, NextIInv, PTL DEF Spec
<1> QED BY <1>2 DEF HandoffInOrder

-----------------------------------------------------------------------------
(* The refinement: each call is the abstract call, the rest stutters.      *)

LEMMA NotBlocked ==
  ASSUME IInv
  PROVE  ~ Abstract!Blocked(current)
  BY WaitersApart DEF IInv, Abstract!Blocked

(* The wait sets of Sync, read off the queues before and after a step.     *)
LEMMA BlockRefines ==
  ASSUME IInv, NEW j \in Sems \cup Mutexes, current # Idle, Block(j)
  PROVE  /\ [m \in Mutexes |-> Range(queue'[m])] =
              IF j \in Mutexes
              THEN [[m \in Mutexes |-> Range(queue[m])] EXCEPT ![j] = @ \cup {current}]
              ELSE [m \in Mutexes |-> Range(queue[m])]
         /\ [s \in Sems |-> Range(queue'[s])] =
              IF j \in Sems
              THEN [[s \in Sems |-> Range(queue[s])] EXCEPT ![j] = @ \cup {current}]
              ELSE [s \in Sems |-> Range(queue[s])]
  BY BlockWaiters DEF IInv

LEMMA ReleaseRefines ==
  ASSUME IInv, NEW j \in Sems \cup Mutexes, queue[j] # << >>, Release(j)
  PROVE  /\ Head(queue[j]) \in Range(queue[j])
         /\ [m \in Mutexes |-> Range(queue'[m])] =
              IF j \in Mutexes
              THEN [[m \in Mutexes |-> Range(queue[m])] EXCEPT ![j] = @ \ {Head(queue[j])}]
              ELSE [m \in Mutexes |-> Range(queue[m])]
         /\ [s \in Sems |-> Range(queue'[s])] =
              IF j \in Sems
              THEN [[s \in Sems |-> Range(queue[s])] EXCEPT ![j] = @ \ {Head(queue[j])}]
              ELSE [s \in Sems |-> Range(queue[s])]
  BY ReleaseWaiters DEF IInv

LEMMA OtherRefines ==
  ASSUME IInv,
         \/ TasksUnchanged
         \/ \E ticks \in Nat : sys_sleep(ticks)
         \/ task_yield
         \/ task_tick
         \/ \E child \in Tasks : sys_fork(child)
  PROVE  /\ [m \in Mutexes |-> Range(queue'[m])] = [m \in Mutexes |-> Range(queue[m])]
         /\ [s \in Sems |-> Range(queue'[s])] = [s \in Sems |-> Range(queue[s])]
  BY OtherWaiters

LEMMA MutexLockRefines ==
  ASSUME IInv, current # Idle, NEW m \in Mutexes, mutex_lock(m)
  PROVE  Abstract!Lock(current, m)
<1> USE DEF Abstract!Lock
<1>1. ~ Abstract!Blocked(current) /\ UNCHANGED count /\ m \notin Sems
  BY NotBlocked, SchedAssumption DEF mutex_lock
<1>2. CASE lock_times[m] = 0 /\ lock_times' = [lock_times EXCEPT ![m] = 1]
           /\ owner' = [owner EXCEPT ![m] = current] /\ TasksUnchanged
  <2>1. owner[m] = NULL /\ lock_times' = [lock_times EXCEPT ![m] = @ + 1]
    BY <1>2 DEF IInv, SyncInv, LockInv
  <2> QED BY <1>1, <1>2, <2>1, OtherRefines
<1>3. CASE lock_times[m] # 0 /\ owner[m] = current /\ UNCHANGED owner
           /\ lock_times' = [lock_times EXCEPT ![m] = @ + 1] /\ TasksUnchanged
  <2>1. owner' = [owner EXCEPT ![m] = current]
    BY <1>3 DEF IInv, SyncInv
  <2> QED BY <1>1, <1>3, <2>1, OtherRefines
<1>4. CASE lock_times[m] # 0 /\ owner[m] # current /\ Block(m) /\ UNCHANGED <<lock_times, owner>>
  <2>1. owner[m] \notin {NULL, current}
    BY <1>4 DEF IInv, SyncInv, LockInv
  <2> QED BY <1>1, <1>4, <2>1, BlockRefines
<1> QED BY <1>2, <1>3, <1>4 DEF mutex_lock

LEMMA MutexUnlockRefines ==
  ASSUME IInv, NEW m \in Mutexes, mutex_unlock(m)
  PROVE  Abstract!Unlock(current, m) \/ UNCHANGED Abstract!vars
<1>1. ~ Abstract!Blocked(current) /\ UNCHANGED count /\ m \notin Sems
  BY NotBlocked, SchedAssumption DEF mutex_unlock
<1>2. CASE TasksUnchanged /\ UNCHANGED <<lock_times, owner>>
  BY <1>1, <1>2, OtherRefines DEF Abstract!vars
<1>3. CASE owner[m] = current /\ lock_times[m] # 1 /\ TasksUnchanged
           /\ lock_times' = [lock_times EXCEPT ![m] = @ - 1] /\ UNCHANGED owner
  <2>1. lock_times[m] > 1
    BY <1>3, CurrentIsTask, SchedAssumption DEF IInv, SyncInv, LockInv
  <2> QED BY <1>1, <1>3, <2>1, OtherRefines DEF Abstract!Unlock
<1>4. CASE owner[m] = current /\ lock_times[m] = 1 /\ queue[m] = << >> /\ TasksUnchanged
           /\ lock_times' = [lock_times EXCEPT ![m] = 0] /\ owner' = [owner EXCEPT ![m] = NULL]
  <2>1. Range(queue[m]) = {}
    BY <1>4, EmptyQueue, WaitQueues DEF IInv, TaskInv
  <2> QED BY <1>1, <1>4, <2>1, OtherRefines DEF Abstract!Unlock
<1>5. CASE owner[m] = current /\ lock_times[m] = 1 /\ queue[m] # << >> /\ Release(m)
           /\ lock_times' = [lock_times EXCEPT ![m] = 1]
           /\ owner' = [owner EXCEPT ![m] = Head(queue[m])]
  <2>1. UNCHANGED lock_times
    BY <1>5 DEF IInv, SyncInv
  <2> QED BY <1>1, <1>5, <2>1, ReleaseRefines DEF Abstract!Unlock
<1> QED BY <1>2, <1>3, <1>4, <1>5 DEF mutex_unlock

LEMMA SemWaitRefines ==
  ASSUME IInv, current # Idle, NEW s \in Sems, sem_wait(s)
  PROVE  Abstract!Wait(current, s)
<1> USE DEF Abstract!Wait
<1>1. ~ Abstract!Blocked(current) /\ UNCHANGED <<lock_times, owner>> /\ s \notin Mutexes
  BY NotBlocked, SchedAssumption DEF sem_wait
<1>2. CASE count[s] > 0 /\ count' = [count EXCEPT ![s] = @ - 1] /\ TasksUnchanged
  BY <1>1, <1>2, OtherRefines
<1>3. CASE count[s] <= 0 /\ Block(s) /\ UNCHANGED count
  <2>1. count[s] = 0
    BY <1>3 DEF IInv, SyncInv
  <2> QED BY <1>1, <1>3, <2>1, BlockRefines
<1> QED BY <1>2, <1>3 DEF sem_wait

LEMMA SemNotifyRefines ==
  ASSUME IInv, NEW s \in Sems, sem_notify(s)
  PROVE  Abstract!Notify(s)
<1> USE DEF Abstract!Notify
<1>1. UNCHANGED <<lock_times, owner>> /\ s \notin Mutexes
  BY SchedAssumption DEF sem_notify
<1>2. CASE queue[s] # << >> /\ Release(s) /\ UNCHANGED count
  BY <1>1, <1>2, ReleaseRefines
<1>3. CASE queue[s] = << >> /\ count' = [count EXCEPT ![s] = @ + 1] /\ TasksUnchanged
  <2>1. Range(queue[s]) = {}
    BY <1>3, EmptyQueue, WaitQueues DEF IInv, TaskInv
  <2> QED BY <1>1, <1>3, <2>1, OtherRefines
<1> QED BY <1>2, <1>3 DEF sem_notify

(* Sched implements Sync: whatever the scheduler, the timer and the        *)
(* interrupts do, the tasks see mutexes and semaphores, and nothing else   *)
(* in the kernel changes them.                                             *)
THEOREM SchedImplementsSync ==
  Spec => ImplementsSync
<1>1. Init => Abstract!Init
  <2>1. Init => \A k \in Sems \cup Mutexes : Range(queue[k]) = {}
    BY WaitQueues DEF Init, Range
  <2> QED BY <2>1 DEF Init, Abstract!Init
<1>2. IInv /\ [Next]_vars => [Abstract!Next]_Abstract!vars
  <2> SUFFICES ASSUME IInv, [Next]_vars
               PROVE  Abstract!Next \/ UNCHANGED Abstract!vars
    OBVIOUS
  <2>1. current \in Tasks
    BY CurrentIsTask DEF IInv
  <2>2. ASSUME NEW m \in Mutexes, current # Idle, mutex_lock(m) PROVE Abstract!Next
    BY <2>1, <2>2, MutexLockRefines DEF Abstract!Next
  <2>3. ASSUME NEW m \in Mutexes, mutex_unlock(m) PROVE Abstract!Next \/ UNCHANGED Abstract!vars
    BY <2>1, <2>3, MutexUnlockRefines DEF Abstract!Next
  <2>4. ASSUME NEW s \in Sems, current # Idle, sem_wait(s) PROVE Abstract!Next
    BY <2>1, <2>4, SemWaitRefines DEF Abstract!Next
  <2>5. ASSUME NEW s \in Sems, sem_notify(s) PROVE Abstract!Next
    BY <2>5, SemNotifyRefines DEF Abstract!Next
  <2>6. ASSUME \/ \E ticks \in 0 .. MaxSleep : sys_sleep(ticks)
               \/ task_yield
               \/ task_tick
               \/ \E child \in Tasks : sys_fork(child)
        PROVE  UNCHANGED Abstract!vars
    <3>1. UNCHANGED <<count, lock_times, owner>>
      BY <2>6 DEF sys_sleep, task_yield, task_tick, sys_fork, syncVars
    <3>2. \A ticks \in 0 .. MaxSleep : ticks \in Nat
      BY SchedAssumption
    <3> QED BY <2>6, <3>1, <3>2, OtherRefines DEF Abstract!vars
  <2>7. CASE UNCHANGED vars
    BY <2>7 DEF vars, Abstract!vars
  <2> QED BY <2>2, <2>3, <2>4, <2>5, <2>6, <2>7 DEF Next, Call, Interrupt
<1> QED BY <1>1, <1>2, InitIInv, NextIInv, PTL DEF Spec, ImplementsSync, Abstract!Spec
=============================================================================
