----------------------------- MODULE DiskProofs -----------------------------
(***************************************************************************)
(* Proofs about module Disk, for any set of tasks, any of them preemptible,*)
(* any transfer lengths and any failures: the driver and the drive stay in *)
(* step, no wake-up is lost, and all that is proved of Sched holds here.   *)
(***************************************************************************)
EXTENDS Disk, SchedProofs

-----------------------------------------------------------------------------
(* The tasks that wait for the mutex, and those that wait for the drive.   *)
Queued == Range(queue[mutex])
Asleep == Range(queue[sem])

(* A task is in the driver as the owner of the mutex or in its queue, with *)
(* a call before that failed if and only if it has locked the mutex twice. *)
PlaceInv ==
  \A t \in Tasks :
    /\ pc[t] # "user" => owner[mutex] = t \/ t \in Queued
    /\ t \in Queued => pc[t] = "command"
    /\ t \in Asleep => pc[t] = "poll"
    /\ t \in failed => owner[mutex] = t
    /\ pc[t] = "user" /\ owner[mutex] = t => t \in failed
    /\ pc[t] # "user" /\ owner[mutex] = t => (t \in failed <=> lock_times[mutex] > 1)
    /\ pc[t] \in {"command", "wait", "poll", "data"} => left[t] > 0

(* Where the drive d is when the mutex's owner is at p, doing command o    *)
(* with n sectors left.                                                    *)
InStep(d, p, o, n) ==
  /\ p \in {"user", "command"} => d.status \in {"idle", "err"}
  /\ p \in {"wait", "poll"} /\ o = "read" =>
       d.op = "read" /\ d.left = n /\ d.status # "idle"
  /\ p \in {"wait", "poll"} /\ o = "write" =>
       d.op = "write" /\ d.left = n - 1 /\ d.status # (IF n = 1 THEN "drq" ELSE "idle")
  /\ p = "data" => d = [status |-> "drq", op |-> o, left |-> n]
  /\ p = "unlock" => d.status = "idle"

DriveInv ==
  LET o == owner[mutex]
  IN  /\ o = NULL => drive.status \in {"idle", "err"}
      /\ o # NULL => InStep(drive, pc[o], op[o], left[o])

(* Whom the interrupt in service interrupted is not blocked.               *)
ServedInv == isr # NULL => state[isr] \in {"RUNNING", "ZOMBIE"}

DriverInv ==
  /\ DiskTypeOK
  /\ PlaceInv
  /\ DriveInv
  /\ WakeupsPaired
  /\ ServedInv

DInv == IInv /\ DriverInv

-----------------------------------------------------------------------------
(* What the calls of Sched do to the driver's mutex and semaphore.         *)

LEMMA LockEffect ==
  ASSUME IInv, current # Idle, mutex_lock(mutex)
  PROVE  /\ UNCHANGED count
         /\ Asleep' = Asleep
         /\ \/ /\ owner[mutex] = NULL
               /\ owner'[mutex] = current
               /\ lock_times'[mutex] = 1
               /\ Queued' = Queued
            \/ /\ owner[mutex] = current
               /\ owner'[mutex] = current
               /\ lock_times'[mutex] > 1
               /\ Queued' = Queued
            \/ /\ owner[mutex] \notin {NULL, current}
               /\ UNCHANGED <<owner, lock_times>>
               /\ Queued' = Queued \cup {current}
<1>1. mutex \in Mutexes /\ sem \in Sems /\ mutex # sem
  BY DiskAssumption, SchedAssumption
<1>2. UNCHANGED count
  BY DEF mutex_lock
<1>3. CASE lock_times[mutex] = 0 /\ lock_times' = [lock_times EXCEPT ![mutex] = 1]
           /\ owner' = [owner EXCEPT ![mutex] = current] /\ TasksUnchanged
  BY <1>1, <1>2, <1>3 DEF IInv, SyncInv, LockInv, TasksUnchanged, Queued, Asleep
<1>4. CASE lock_times[mutex] # 0 /\ owner[mutex] = current /\ UNCHANGED owner
           /\ lock_times' = [lock_times EXCEPT ![mutex] = @ + 1] /\ TasksUnchanged
  BY <1>1, <1>2, <1>4 DEF IInv, SyncInv, LockInv, TasksUnchanged, Queued, Asleep
<1>5. CASE lock_times[mutex] # 0 /\ owner[mutex] # current /\ Block(mutex)
           /\ UNCHANGED <<lock_times, owner>>
  <2>1. /\ Range(queue'[mutex]) = Range(queue[mutex]) \cup {current}
        /\ Range(queue'[sem]) = Range(queue[sem])
    BY <1>1, <1>5, BlockWaiters DEF IInv
  <2> QED BY <1>1, <1>2, <1>5, <2>1 DEF IInv, SyncInv, LockInv, Queued, Asleep
<1> QED BY <1>3, <1>4, <1>5 DEF mutex_lock

LEMMA UnlockEffect ==
  ASSUME IInv, owner[mutex] = current, mutex_unlock(mutex)
  PROVE  /\ UNCHANGED count
         /\ Asleep' = Asleep
         /\ \/ /\ lock_times[mutex] > 1
               /\ UNCHANGED owner
               /\ Queued' = Queued
            \/ /\ lock_times[mutex] = 1
               /\ owner'[mutex] = NULL
               /\ Queued = {}
               /\ Queued' = {}
            \/ /\ lock_times[mutex] = 1
               /\ lock_times'[mutex] = 1
               /\ owner'[mutex] \in Queued
               /\ Queued' = Queued \ {owner'[mutex]}
<1>1. mutex \in Mutexes /\ sem \in Sems /\ mutex # sem /\ mutex \in QueueNames
  BY DiskAssumption, SchedAssumption DEF QueueNames
<1>2. UNCHANGED count
  BY DEF mutex_unlock
<1>3. CASE lock_times[mutex] # 1 /\ UNCHANGED owner /\ TasksUnchanged
  <2>1. lock_times[mutex] > 1
    BY <1>1, <1>3, CurrentIsTask, SchedAssumption DEF IInv, SyncInv, LockInv
  <2> QED BY <1>2, <1>3, <2>1 DEF TasksUnchanged, Queued, Asleep
<1>4. CASE lock_times[mutex] = 1 /\ queue[mutex] = << >>
           /\ owner' = [owner EXCEPT ![mutex] = NULL] /\ TasksUnchanged
  <2>1. Range(queue[mutex]) = {}
    BY <1>1, <1>4, EmptyQueue DEF IInv, TaskInv
  <2> QED BY <1>1, <1>2, <1>4, <2>1 DEF IInv, SyncInv, TasksUnchanged, Queued, Asleep
<1>5. CASE lock_times[mutex] = 1 /\ queue[mutex] # << >> /\ Release(mutex)
           /\ owner' = [owner EXCEPT ![mutex] = Head(queue[mutex])]
           /\ lock_times' = [lock_times EXCEPT ![mutex] = 1]
  <2>1. /\ Head(queue[mutex]) \in Range(queue[mutex])
        /\ Range(queue'[mutex]) = Range(queue[mutex]) \ {Head(queue[mutex])}
        /\ Range(queue'[sem]) = Range(queue[sem])
    BY <1>1, <1>5, ReleaseWaiters DEF IInv
  <2>2. owner'[mutex] = Head(queue[mutex]) /\ lock_times'[mutex] = 1
    BY <1>1, <1>5 DEF IInv, SyncInv
  <2> QED BY <1>2, <1>5, <2>1, <2>2 DEF Queued, Asleep
<1> QED BY <1>3, <1>4, <1>5 DEF mutex_unlock

LEMMA WaitEffect ==
  ASSUME IInv, current # Idle, sem_wait(sem)
  PROVE  /\ UNCHANGED <<owner, lock_times>>
         /\ Queued' = Queued
         /\ \/ /\ count[sem] > 0
               /\ count'[sem] = count[sem] - 1
               /\ Asleep' = Asleep
            \/ /\ count[sem] = 0
               /\ count'[sem] = 0
               /\ Asleep' = Asleep \cup {current}
<1>1. mutex \in Mutexes /\ sem \in Sems /\ mutex # sem /\ count[sem] \in Nat
  BY DiskAssumption, SchedAssumption DEF IInv, SyncInv
<1>2. UNCHANGED <<owner, lock_times>>
  BY DEF sem_wait
<1>3. CASE count[sem] > 0 /\ count' = [count EXCEPT ![sem] = @ - 1] /\ TasksUnchanged
  BY <1>1, <1>2, <1>3 DEF IInv, SyncInv, TasksUnchanged, Queued, Asleep
<1>4. CASE count[sem] <= 0 /\ Block(sem) /\ UNCHANGED count
  <2>1. /\ Range(queue'[sem]) = Range(queue[sem]) \cup {current}
        /\ Range(queue'[mutex]) = Range(queue[mutex])
    BY <1>1, <1>4, BlockWaiters DEF IInv
  <2> QED BY <1>1, <1>2, <1>4, <2>1 DEF Queued, Asleep
<1> QED BY <1>3, <1>4 DEF sem_wait

LEMMA NotifyEffect ==
  ASSUME IInv, sem_notify(sem)
  PROVE  /\ UNCHANGED <<owner, lock_times>>
         /\ Queued' = Queued
         /\ \/ /\ Asleep = {}
               /\ Asleep' = {}
               /\ count'[sem] = count[sem] + 1
            \/ /\ UNCHANGED count
               /\ \E w \in Asleep : Asleep' = Asleep \ {w}
<1>1. mutex \in Mutexes /\ sem \in Sems /\ mutex # sem /\ sem \in QueueNames
  BY DiskAssumption, SchedAssumption DEF QueueNames
<1>2. UNCHANGED <<owner, lock_times>>
  BY DEF sem_notify
<1>3. CASE queue[sem] # << >> /\ Release(sem) /\ UNCHANGED count
  <2>1. /\ Head(queue[sem]) \in Range(queue[sem])
        /\ Range(queue'[sem]) = Range(queue[sem]) \ {Head(queue[sem])}
        /\ Range(queue'[mutex]) = Range(queue[mutex])
    BY <1>1, <1>3, ReleaseWaiters DEF IInv
  <2> QED BY <1>2, <1>3, <2>1 DEF Queued, Asleep
<1>4. CASE queue[sem] = << >> /\ count' = [count EXCEPT ![sem] = @ + 1] /\ TasksUnchanged
  <2>1. Range(queue[sem]) = {}
    BY <1>1, <1>4, EmptyQueue DEF IInv, TaskInv
  <2> QED BY <1>1, <1>2, <1>4, <2>1 DEF IInv, SyncInv, TasksUnchanged, Queued, Asleep
<1> QED BY <1>3, <1>4 DEF sem_notify

LEMMA QuietEffect ==
  ASSUME IInv,
         \/ UNCHANGED vars
         \/ task_tick
         \/ \E child \in Tasks : sys_fork(child)
  PROVE  UNCHANGED <<count, owner, lock_times, Queued, Asleep>>
<1>1. mutex \in Sems \cup Mutexes /\ sem \in Sems \cup Mutexes
  BY DiskAssumption
<1>2. CASE UNCHANGED vars
  BY <1>2 DEF vars, Queued, Asleep
<1>3. CASE task_tick \/ \E child \in Tasks : sys_fork(child)
  <2>1. Range(queue'[mutex]) = Range(queue[mutex]) /\ Range(queue'[sem]) = Range(queue[sem])
    BY <1>1, <1>3, OtherWaiters
  <2>2. UNCHANGED <<count, owner, lock_times>>
    BY <1>3 DEF task_tick, sys_fork, syncVars
  <2> QED BY <2>1, <2>2 DEF Queued, Asleep
<1> QED BY <1>2, <1>3

(* The running task waits for nothing.                                     *)
LEMMA RunnerIsFree ==
  ASSUME IInv
  PROVE  /\ current \in Tasks
         /\ current \notin Queued
         /\ current \notin Asleep
         /\ Queued \cap Asleep = {}
         /\ Queued \subseteq Tasks
         /\ Asleep \subseteq Tasks
         /\ current # NULL
         /\ state[current] \in {"RUNNING", "ZOMBIE"}
<1>1. /\ mutex \in Mutexes /\ sem \in Sems /\ mutex # sem
      /\ mutex \in QueueNames /\ sem \in QueueNames
  BY DiskAssumption, SchedAssumption DEF QueueNames
<1>2. /\ current \in Tasks /\ current # NULL
      /\ state[current] \in {"RUNNING", "ZOMBIE"}
  BY CurrentIsTask, SchedAssumption DEF IInv
<1>3. Queued \subseteq Tasks /\ Asleep \subseteq Tasks
  BY <1>1, RangeOfSeq DEF IInv, TaskInv, Queued, Asleep
<1> QED BY <1>1, <1>2, <1>3, WaitersApart DEF IInv, Queued, Asleep

-----------------------------------------------------------------------------
(* Every step of Disk is a step of Sched, or one that Sched does not see.  *)
LEMMA DiskStepIsSchedStep ==
  ASSUME [DiskNext]_diskVars
  PROVE  [Next]_vars
<1>1. ASSUME NEW o, NEW n, disk_call(o, n) PROVE Next
  BY <1>1, DiskAssumption DEF disk_call, At, Next, Call
<1>2. ASSUME NEW child \in Tasks, fork(child) PROVE Next
  BY <1>2 DEF fork, At, Next, Call
<1>3. ASSUME await_irq PROVE Next
  BY <1>3, DiskAssumption DEF await_irq, At, Next, Call
<1>4. ASSUME disk_return PROVE Next
  BY <1>4, DiskAssumption DEF disk_return, At, Next, Call
<1>5. ASSUME do_handler_time PROVE Next
  BY <1>5 DEF do_handler_time, Next, Interrupt
<1>6. ASSUME do_handler_ide PROVE Next
  BY <1>6, DiskAssumption DEF do_handler_ide, Next, Interrupt
<1>7. ASSUME send_cmd \/ wait_data \/ read_data \/ write_data \/ pic_done \/ drive_ready
      PROVE  UNCHANGED vars
  BY <1>7 DEF send_cmd, wait_data, read_data, write_data, pic_done, drive_ready
<1>8. CASE UNCHANGED diskVars
  BY <1>8 DEF diskVars
<1> QED BY <1>1, <1>2, <1>3, <1>4, <1>5, <1>6, <1>7, <1>8 DEF DiskNext, Driver

(* Tasks inside Disk use mutexes and semaphores as Sched's tasks do: every *)
(* behaviour of Disk is one of Sched, so what is proved of Sched holds of  *)
(* the kernel with this driver and these interrupts.                       *)
THEOREM DiskImplementsSched ==
  DiskSpec => Spec
<1>1. DiskInit => Init
  BY DEF DiskInit
<1> QED BY <1>1, DiskStepIsSchedStep, PTL DEF DiskSpec, Spec

-----------------------------------------------------------------------------
(* The steps of the task that runs the driver, between its calls.          *)

(* A task past mutex_lock owns the mutex, and no task else is there.       *)
LEMMA AtOwner ==
  ASSUME DInv, NEW p \in {"command", "wait", "poll", "data", "unlock"}, At(p)
  PROVE  /\ current \in Tasks /\ current # NULL /\ current # isr
         /\ owner[mutex] = current
         /\ current \notin Queued /\ current \notin Asleep
         /\ pc[current] = p
         /\ InStep(drive, p, op[current], left[current])
         /\ p # "unlock" => left[current] > 0
         /\ Credit - Owed(p, FALSE, drive.status) \in {0, 1}
<1>1. /\ current \in Tasks /\ current # NULL /\ current # isr /\ pc[current] = p
      /\ current \notin Queued /\ current \notin Asleep
  BY RunnerIsFree DEF DInv, At
<1>2. owner[mutex] = current /\ (p # "unlock" => left[current] > 0)
  BY <1>1 DEF DInv, DriverInv, PlaceInv
<1>3. InStep(drive, p, op[current], left[current])
  BY <1>1, <1>2 DEF DInv, DriverInv, DriveInv
<1>4. Credit - Owed(p, FALSE, drive.status) \in {0, 1}
  <2>1. (current \in Asleep) = FALSE
    BY <1>1
  <2> QED BY <1>1, <1>2, <2>1 DEF DInv, DriverInv, WakeupsPaired, Asleep
<1> QED BY <1>1, <1>2, <1>3, <1>4

(* When the owner moves on and nothing is queued, latched or counted, what *)
(* is left to show is its own place, the drive's and the balance.          *)
LEMMA OwnerStep ==
  ASSUME DInv, NEW p \in {"command", "wait", "poll", "data", "unlock"}, At(p),
         UNCHANGED <<vars, irr, isr, op>>,
         NEW q \in {"user", "wait", "data", "unlock"},
         pc' = [pc EXCEPT ![current] = q],
         NEW n \in 0 .. MaxSectors, left' = [left EXCEPT ![current] = n],
         q \in {"wait", "data"} => n > 0,
         failed' = IF q = "user" THEN failed \cup {current} ELSE failed,
         drive' \in [status : {"idle", "busy", "drq", "err"}, op : {"read", "write"},
                     left : 0 .. MaxSectors],
         InStep(drive', q, op[current], n),
         Owed(q, FALSE, drive'.status) = Owed(p, FALSE, drive.status)
  PROVE  DriverInv'
<1>1. /\ current \in Tasks /\ current # NULL
      /\ owner[mutex] = current
      /\ current \notin Queued /\ current \notin Asleep
      /\ pc[current] = p
      /\ Credit - Owed(p, FALSE, drive.status) \in {0, 1}
  BY AtOwner
<1>2. /\ UNCHANGED <<owner, lock_times, count, state, current, isr, irr, op, Queued, Asleep>>
  BY DEF vars, Queued, Asleep
<1>3. DiskTypeOK'
  BY <1>1, <1>2 DEF DInv, DriverInv, DiskTypeOK
<1>4. PlaceInv'
  BY <1>1, <1>2 DEF DInv, DriverInv, DiskTypeOK, PlaceInv
<1>5. /\ pc'[current] = q /\ op'[current] = op[current] /\ left'[current] = n
      /\ owner'[mutex] = current
  BY <1>1, <1>2 DEF DInv, DriverInv, DiskTypeOK
<1>6. DriveInv'
  BY <1>1, <1>5 DEF DriveInv
<1>7. WakeupsPaired'
  <2>1. (current \in Asleep') = FALSE
    BY <1>1, <1>2
  <2>2. Credit' = Credit
    BY <1>2 DEF Credit
  <2> QED BY <1>1, <1>5, <2>1, <2>2 DEF WakeupsPaired, Asleep
<1>8. ServedInv'
  BY <1>2 DEF DInv, DriverInv, ServedInv
<1> QED BY <1>3, <1>4, <1>6, <1>7, <1>8 DEF DriverInv

LEMMA SendCmdStep ==
  ASSUME DInv, send_cmd
  PROVE  DriverInv'
<1> DEFINE o == op[current]
           q == IF o = "read" THEN "wait" ELSE "data"
           n == left[current]
<1>1. /\ At("command")
      /\ drive' = [status |-> IF o = "read" THEN "busy" ELSE "drq", op |-> o, left |-> n]
      /\ pc' = [pc EXCEPT ![current] = q]
      /\ UNCHANGED <<vars, irr, isr, op, left, failed>>
  BY DEF send_cmd, Goto, picVars
<1>2. /\ current \in Tasks /\ n > 0 /\ n \in 0 .. MaxSectors /\ o \in {"read", "write"}
      /\ left' = [left EXCEPT ![current] = n]
  BY <1>1, AtOwner DEF DInv, DriverInv, DiskTypeOK
<1> HIDE DEF o, n
<1>3. InStep(drive', q, o, n)
  BY <1>1, <1>2 DEF InStep
<1>4. Owed(q, FALSE, drive'.status) = Owed("command", FALSE, drive.status)
  BY <1>1, <1>2 DEF Owed
<1>5. drive' \in [status : {"idle", "busy", "drq", "err"}, op : {"read", "write"},
                  left : 0 .. MaxSectors]
  BY <1>1, <1>2
<1>6. q \in {"wait", "data"}
  OBVIOUS
<1> QED BY <1>1, <1>2, <1>3, <1>4, <1>5, <1>6, OwnerStep DEF o

LEMMA WaitDataStep ==
  ASSUME DInv, wait_data
  PROVE  DriverInv'
<1> DEFINE n == left[current]
<1>1. At("poll") /\ drive.status # "busy" /\ UNCHANGED <<vars, drive, irr, isr, op>>
  BY DEF wait_data, picVars
<1>2. /\ current \in Tasks /\ n > 0 /\ n \in 0 .. MaxSectors /\ op[current] \in {"read", "write"}
      /\ InStep(drive, "poll", op[current], n)
  BY <1>1, AtOwner DEF DInv, DriverInv, DiskTypeOK
<1>3. /\ drive' \in [status : {"idle", "busy", "drq", "err"}, op : {"read", "write"},
                     left : 0 .. MaxSectors]
      /\ drive'.status = drive.status
      /\ drive.status \in {"idle", "drq", "err"}
      /\ drive = [status |-> drive.status, op |-> drive.op, left |-> drive.left]
  BY <1>1 DEF DInv, DriverInv, DiskTypeOK
<1>4. \A q \in {"user", "data", "unlock"} :
        Owed(q, FALSE, drive'.status) = Owed("poll", FALSE, drive.status)
  BY <1>3 DEF Owed
<1>5. CASE /\ drive.status = "err"
           /\ failed' = failed \cup {current}
           /\ pc' = [pc EXCEPT ![current] = "user"]
           /\ UNCHANGED left
  <2>1. left' = [left EXCEPT ![current] = n]
    BY <1>2, <1>5 DEF DInv, DriverInv, DiskTypeOK
  <2>2. InStep(drive', "user", op[current], n)
    BY <1>1, <1>5 DEF InStep
  <2> QED BY <1>1, <1>2, <1>3, <1>4, <1>5, <2>1, <2>2, OwnerStep
<1>6. CASE /\ drive.status # "err"
           /\ op[current] = "read"
           /\ pc' = [pc EXCEPT ![current] = "data"]
           /\ UNCHANGED <<left, failed>>
  <2>1. left' = [left EXCEPT ![current] = n]
    BY <1>2, <1>6 DEF DInv, DriverInv, DiskTypeOK
  <2>2. drive = [status |-> "drq", op |-> op[current], left |-> n]
    BY <1>2, <1>3, <1>6 DEF InStep
  <2>3. InStep(drive', "data", op[current], n)
    BY <1>1, <2>2 DEF InStep
  <2> QED BY <1>1, <1>2, <1>3, <1>4, <1>6, <2>1, <2>3, OwnerStep
<1>7. CASE /\ drive.status # "err"
           /\ op[current] = "write"
           /\ left' = [left EXCEPT ![current] = @ - 1]
           /\ pc' = [pc EXCEPT ![current] = IF left[current] = 1 THEN "unlock" ELSE "data"]
           /\ UNCHANGED failed
  <2>1. left' = [left EXCEPT ![current] = n - 1] /\ n - 1 \in 0 .. MaxSectors
    BY <1>2, <1>7, DiskAssumption DEF DInv, DriverInv, DiskTypeOK
  <2>2. CASE n = 1
    <3>1. pc' = [pc EXCEPT ![current] = "unlock"]
      BY <1>7, <2>2
    <3>2. InStep(drive', "unlock", op[current], n - 1)
      BY <1>1, <1>2, <1>3, <1>7, <2>2 DEF InStep
    <3> QED BY <1>1, <1>3, <1>4, <1>7, <2>1, <3>1, <3>2, OwnerStep
  <2>3. CASE n # 1
    <3>1. pc' = [pc EXCEPT ![current] = "data"] /\ n - 1 > 0
      BY <1>2, <1>7, <2>3
    <3>2. drive = [status |-> "drq", op |-> op[current], left |-> n - 1]
      BY <1>2, <1>3, <1>7, <2>3 DEF InStep
    <3>3. InStep(drive', "data", op[current], n - 1)
      BY <1>1, <3>2 DEF InStep
    <3> QED BY <1>1, <1>3, <1>4, <1>7, <2>1, <3>1, <3>3, OwnerStep
  <2> QED BY <2>2, <2>3
<1> QED BY <1>1, <1>5, <1>6, <1>7 DEF wait_data, Goto

(* A sector goes through the port: the drive is busy with the next, except *)
(* after the last sector of a read.                                        *)
LEMMA TransferEffect ==
  ASSUME DInv, At("data")
  PROVE  /\ left[current] > 0 /\ left[current] \in 0 .. MaxSectors
         /\ Transferred = [status |-> IF op[current] = "read" /\ left[current] = 1
                                      THEN "idle" ELSE "busy",
                           op |-> op[current], left |-> left[current] - 1]
         /\ op[current] \in {"read", "write"}
<1> DEFINE n == left[current]
           o == op[current]
<1>1. /\ n > 0 /\ n \in 0 .. MaxSectors /\ o \in {"read", "write"}
      /\ drive = [status |-> "drq", op |-> o, left |-> n]
  BY AtOwner DEF DInv, DriverInv, DiskTypeOK, InStep
<1> HIDE DEF n, o
<1>2. Transferred = [status |-> IF o = "read" /\ n = 1 THEN "idle" ELSE "busy",
                     op |-> o, left |-> n - 1]
  BY <1>1 DEF Transferred
<1> QED BY <1>1, <1>2 DEF n, o

LEMMA ReadDataStep ==
  ASSUME DInv, read_data
  PROVE  DriverInv'
<1> DEFINE n == left[current]
           q == IF n = 1 THEN "unlock" ELSE "wait"
<1>1. /\ At("data") /\ op[current] = "read"
      /\ drive' = Transferred
      /\ left' = [left EXCEPT ![current] = n - 1]
      /\ pc' = [pc EXCEPT ![current] = q]
      /\ UNCHANGED <<vars, irr, isr, op, failed>>
  BY DEF read_data, Goto, picVars
<1>2. /\ n > 0 /\ n \in 0 .. MaxSectors
      /\ drive' = [status |-> IF n = 1 THEN "idle" ELSE "busy", op |-> "read", left |-> n - 1]
  BY <1>1, TransferEffect
<1> HIDE DEF n
<1>3. /\ drive' \in [status : {"idle", "busy", "drq", "err"}, op : {"read", "write"},
                     left : 0 .. MaxSectors]
      /\ n - 1 \in 0 .. MaxSectors
  BY <1>2, DiskAssumption
<1>4. InStep(drive', q, "read", n - 1)
  BY <1>2 DEF InStep
<1>5. CASE n = 1
  <2>1. Owed("unlock", FALSE, drive'.status) = Owed("data", FALSE, drive.status)
    BY DEF Owed
  <2> QED BY <1>1, <1>3, <1>4, <1>5, <2>1, OwnerStep
<1>6. CASE n # 1
  <2>1. Owed("wait", FALSE, drive'.status) = Owed("data", FALSE, drive.status) /\ n - 1 > 0
    BY <1>2, <1>6 DEF Owed
  <2> QED BY <1>1, <1>3, <1>4, <1>6, <2>1, OwnerStep
<1> QED BY <1>5, <1>6

LEMMA WriteDataStep ==
  ASSUME DInv, write_data
  PROVE  DriverInv'
<1> DEFINE n == left[current]
<1>1. /\ At("data") /\ op[current] = "write"
      /\ drive' = Transferred
      /\ pc' = [pc EXCEPT ![current] = "wait"]
      /\ UNCHANGED <<vars, irr, isr, op, left, failed>>
  BY DEF write_data, Goto, picVars
<1>2. /\ n > 0 /\ n \in 0 .. MaxSectors
      /\ drive' = [status |-> "busy", op |-> "write", left |-> n - 1]
  BY <1>1, TransferEffect
<1>3. left' = [left EXCEPT ![current] = n]
  BY <1>1 DEF DInv, DriverInv, DiskTypeOK
<1> HIDE DEF n
<1>4. drive' \in [status : {"idle", "busy", "drq", "err"}, op : {"read", "write"},
                  left : 0 .. MaxSectors]
  BY <1>2, DiskAssumption
<1>5. InStep(drive', "wait", "write", n)
  BY <1>2 DEF InStep
<1>6. Owed("wait", FALSE, drive'.status) = Owed("data", FALSE, drive.status)
  BY <1>2 DEF Owed
<1> QED BY <1>1, <1>2, <1>3, <1>4, <1>5, <1>6, OwnerStep

-----------------------------------------------------------------------------
(* The steps that lock, unlock, wait and notify, and the interrupts.       *)

(* No call or tick stops a task that can run, other than the caller.       *)
LEMMA StaysRunnable ==
  ASSUME IInv, NEW t \in Tasks, state[t] \in {"RUNNING", "ZOMBIE"},
         \/ t # current /\ (mutex_lock(mutex) \/ sem_wait(sem))
         \/ mutex_unlock(mutex)
         \/ sem_notify(sem)
         \/ task_tick
         \/ \E child \in Tasks : sys_fork(child)
         \/ UNCHANGED vars
  PROVE  state'[t] \in {"RUNNING", "ZOMBIE"}
<1>1. state \in [Tasks -> States]
  BY DEF IInv, TaskInv
<1>2. ASSUME NEW k, Block(k), t # current PROVE state'[t] = state[t]
  BY <1>1, <1>2 DEF Block
<1>3. ASSUME NEW k, Release(k) PROVE state'[t] \in {"RUNNING", state[t]}
  BY <1>1, <1>3 DEF Release
<1>4. ASSUME TasksUnchanged \/ UNCHANGED vars PROVE state'[t] = state[t]
  BY <1>4 DEF TasksUnchanged, vars
<1>5. ASSUME task_tick PROVE state'[t] \in {"RUNNING", state[t]}
  BY <1>5 DEF task_tick
<1>6. ASSUME NEW child \in Tasks, sys_fork(child) PROVE state'[t] = state[t]
  BY <1>1, <1>6 DEF sys_fork
<1>7. ASSUME mutex_lock(mutex) \/ sem_wait(sem), t # current PROVE state'[t] = state[t]
  BY <1>2, <1>4, <1>7 DEF mutex_lock, sem_wait
<1>8. ASSUME mutex_unlock(mutex) \/ sem_notify(sem) PROVE state'[t] \in {"RUNNING", state[t]}
  BY <1>3, <1>4, <1>8 DEF mutex_unlock, sem_notify
<1> QED BY <1>4, <1>5, <1>6, <1>7, <1>8

LEMMA DiskCallStep ==
  ASSUME DInv, NEW o \in {"read", "write"}, NEW n \in 1 .. MaxSectors, disk_call(o, n)
  PROVE  DriverInv'
<1>1. /\ current # Idle /\ current # isr /\ pc[current] = "user"
      /\ mutex_lock(mutex)
      /\ op' = [op EXCEPT ![current] = o]
      /\ left' = [left EXCEPT ![current] = n]
      /\ pc' = [pc EXCEPT ![current] = "command"]
      /\ UNCHANGED <<drive, irr, isr, failed>>
  BY DEF disk_call, At, Goto, picVars
<1>2. /\ current \in Tasks /\ current # NULL
      /\ current \notin Queued /\ current \notin Asleep
  BY RunnerIsFree DEF DInv
<1>3. n \in 0 .. MaxSectors /\ n > 0
  BY DiskAssumption
<1>4. DiskTypeOK'
  BY <1>1, <1>2, <1>3 DEF DInv, DriverInv, DiskTypeOK
<1>5. /\ UNCHANGED count
      /\ Asleep' = Asleep
      /\ \/ /\ owner[mutex] = NULL
            /\ owner'[mutex] = current
            /\ lock_times'[mutex] = 1
            /\ Queued' = Queued
         \/ /\ owner[mutex] = current
            /\ owner'[mutex] = current
            /\ lock_times'[mutex] > 1
            /\ Queued' = Queued
         \/ /\ owner[mutex] \notin {NULL, current}
            /\ UNCHANGED <<owner, lock_times>>
            /\ Queued' = Queued \cup {current}
  BY <1>1, LockEffect DEF DInv
<1>6. PlaceInv'
  BY <1>1, <1>2, <1>3, <1>5, SchedAssumption DEF DInv, DriverInv, DiskTypeOK, PlaceInv
<1>7. owner[mutex] \in Tasks \cup {NULL}
  BY DiskAssumption DEF DInv, IInv, SyncInv
<1>8. /\ owner'[mutex] = current => pc'[current] = "command"
      /\ owner[mutex] = current => pc[current] = "user"
      /\ owner'[mutex] # current => /\ owner'[mutex] = owner[mutex] /\ owner[mutex] # NULL
                                   /\ pc'[owner[mutex]] = pc[owner[mutex]]
                                   /\ op'[owner[mutex]] = op[owner[mutex]]
                                   /\ left'[owner[mutex]] = left[owner[mutex]]
  BY <1>1, <1>2, <1>5, <1>7 DEF DInv, DriverInv, DiskTypeOK
<1>9. DriveInv'
  <2>1. CASE owner'[mutex] = current
    <3>1. drive.status \in {"idle", "err"}
      BY <1>2, <1>5, <1>8, <2>1 DEF DInv, DriverInv, DriveInv, InStep
    <3> QED BY <1>1, <1>2, <1>8, <2>1, <3>1 DEF DriveInv, InStep
  <2>2. CASE owner'[mutex] # current
    BY <1>1, <1>8, <2>2 DEF DInv, DriverInv, DriveInv
  <2> QED BY <2>1, <2>2
<1>10. WakeupsPaired'
  <2>1. Credit' = Credit
    BY <1>1, <1>5 DEF Credit
  <2>2. CASE owner'[mutex] = current
    <3>1. CASE owner[mutex] = NULL
      <4>1. Credit \in {0, 1}
        BY <3>1 DEF DInv, DriverInv, WakeupsPaired
      <4> QED BY <1>2, <1>8, <2>1, <2>2, <4>1 DEF WakeupsPaired, Owed
    <3>2. CASE owner[mutex] = current
      <4>1. Credit \in {0, 1}
        BY <1>2, <1>8, <3>2 DEF DInv, DriverInv, WakeupsPaired, Owed
      <4> QED BY <1>2, <1>8, <2>1, <2>2, <4>1 DEF WakeupsPaired, Owed
    <3> QED BY <1>5, <2>2, <3>1, <3>2
  <2>3. CASE owner'[mutex] # current
    BY <1>1, <1>5, <1>8, <2>1, <2>3 DEF DInv, DriverInv, WakeupsPaired, Asleep
  <2> QED BY <2>2, <2>3
<1>11. ServedInv'
  BY <1>1, StaysRunnable DEF DInv, DriverInv, DiskTypeOK, ServedInv
<1> QED BY <1>4, <1>6, <1>9, <1>10, <1>11 DEF DriverInv

LEMMA AwaitIrqStep ==
  ASSUME DInv, await_irq
  PROVE  DriverInv'
<1>1. /\ At("wait") /\ current # Idle
      /\ sem_wait(sem)
      /\ pc' = [pc EXCEPT ![current] = "poll"]
      /\ UNCHANGED <<drive, irr, isr, op, left, failed>>
  BY DEF await_irq, At, Goto, picVars
<1>2. /\ current \in Tasks /\ current # NULL /\ current # isr
      /\ owner[mutex] = current
      /\ current \notin Queued /\ current \notin Asleep
      /\ pc[current] = "wait"
      /\ InStep(drive, "wait", op[current], left[current])
      /\ left[current] > 0
      /\ Credit - Owed("wait", FALSE, drive.status) \in {0, 1}
  BY <1>1, AtOwner
<1>3. /\ UNCHANGED <<owner, lock_times>>
      /\ Queued' = Queued
      /\ \/ /\ count[sem] > 0
            /\ count'[sem] = count[sem] - 1
            /\ Asleep' = Asleep
         \/ /\ count[sem] = 0
            /\ count'[sem] = 0
            /\ Asleep' = Asleep \cup {current}
  BY <1>1, WaitEffect DEF DInv
<1>4. DiskTypeOK'
  BY <1>1, <1>2 DEF DInv, DriverInv, DiskTypeOK
<1>5. pc'[current] = "poll" /\ owner'[mutex] = current
  BY <1>1, <1>2, <1>3 DEF DInv, DriverInv, DiskTypeOK
<1>6. PlaceInv'
  BY <1>1, <1>2, <1>3 DEF DInv, DriverInv, DiskTypeOK, PlaceInv
<1>7. DriveInv'
  <2>1. InStep(drive, "poll", op[current], left[current])
    BY <1>2 DEF InStep
  <2> QED BY <1>1, <1>2, <1>5, <2>1 DEF DriveInv
<1>8. WakeupsPaired'
  <2>1. count[sem] \in Nat
    BY DiskAssumption DEF DInv, IInv, SyncInv
  <2>2. CASE count[sem] > 0 /\ count'[sem] = count[sem] - 1 /\ Asleep' = Asleep
    <3>1. (current \in Asleep') = FALSE /\ Credit' = Credit - 1 /\ Credit \in Nat
      BY <1>1, <1>2, <2>1, <2>2 DEF Credit
    <3>2. Credit' - Owed("poll", FALSE, drive.status) \in {0, 1}
      BY <1>2, <3>1 DEF Owed
    <3> QED BY <1>1, <1>2, <1>5, <3>1, <3>2 DEF WakeupsPaired, Asleep
  <2>3. CASE count[sem] = 0 /\ count'[sem] = 0 /\ Asleep' = Asleep \cup {current}
    <3>1. (current \in Asleep') = TRUE /\ Credit' = Credit
      BY <1>1, <2>3 DEF Credit
    <3>2. Owed("poll", TRUE, drive.status) = Owed("wait", FALSE, drive.status)
      BY DEF Owed
    <3> QED BY <1>1, <1>2, <1>5, <3>1, <3>2 DEF WakeupsPaired, Asleep
  <2> QED BY <1>3, <2>2, <2>3
<1>9. ServedInv'
  BY <1>1, <1>2, StaysRunnable DEF DInv, DriverInv, DiskTypeOK, ServedInv
<1> QED BY <1>4, <1>6, <1>7, <1>8, <1>9 DEF DriverInv

LEMMA DiskReturnStep ==
  ASSUME DInv, disk_return
  PROVE  DriverInv'
<1>1. /\ At("unlock")
      /\ mutex_unlock(mutex)
      /\ pc' = [pc EXCEPT ![current] = "user"]
      /\ UNCHANGED <<drive, irr, isr, op, left, failed>>
  BY DEF disk_return, Goto, picVars
<1>2. /\ current \in Tasks /\ current # NULL
      /\ owner[mutex] = current
      /\ current \notin Queued /\ current \notin Asleep
      /\ pc[current] = "unlock"
      /\ drive.status = "idle"
      /\ Credit - Owed("unlock", FALSE, drive.status) \in {0, 1}
  BY <1>1, AtOwner DEF InStep
<1>3. /\ UNCHANGED count
      /\ Asleep' = Asleep
      /\ \/ /\ lock_times[mutex] > 1
            /\ UNCHANGED owner
            /\ Queued' = Queued
         \/ /\ lock_times[mutex] = 1
            /\ owner'[mutex] = NULL
            /\ Queued = {}
            /\ Queued' = {}
         \/ /\ lock_times[mutex] = 1
            /\ lock_times'[mutex] = 1
            /\ owner'[mutex] \in Queued
            /\ Queued' = Queued \ {owner'[mutex]}
  BY <1>1, <1>2, UnlockEffect DEF DInv
<1>4. DiskTypeOK'
  BY <1>1, <1>2 DEF DInv, DriverInv, DiskTypeOK
<1>5. Queued \subseteq Tasks /\ NULL \notin Tasks
  BY RunnerIsFree, SchedAssumption DEF DInv
<1>6. owner'[mutex] # NULL => /\ pc'[owner'[mutex]] \in {"user", "command"}
                             /\ owner'[mutex] \in Tasks
  BY <1>1, <1>2, <1>3, <1>5 DEF DInv, DriverInv, DiskTypeOK, PlaceInv
<1>7. PlaceInv'
  BY <1>1, <1>2, <1>3, <1>5 DEF DInv, DriverInv, DiskTypeOK, PlaceInv
<1>8. DriveInv'
  BY <1>1, <1>2, <1>6 DEF DriveInv, InStep
<1>9. WakeupsPaired'
  <2>1. Credit' = Credit /\ Credit \in {0, 1}
    BY <1>1, <1>2, <1>3 DEF Credit, Owed
  <2> QED BY <1>6, <2>1 DEF WakeupsPaired, Owed
<1>10. ServedInv'
  BY <1>1, StaysRunnable DEF DInv, DriverInv, DiskTypeOK, ServedInv
<1> QED BY <1>4, <1>7, <1>8, <1>9, <1>10 DEF DriverInv

(* Time passes and processes come and go without a trace in the driver.    *)
LEMMA QuietStep ==
  ASSUME DInv, do_handler_time \/ pic_done \/ (\E child \in Tasks : fork(child))
  PROVE  DriverInv'
<1>1. /\ UNCHANGED <<pc, op, left, failed, drive, irr>>
      /\ isr' \in {isr, NULL}
      /\ \/ UNCHANGED vars
         \/ task_tick
         \/ \E child \in Tasks : sys_fork(child)
  BY DEF do_handler_time, pic_done, fork, taskVars, picVars
<1>2. UNCHANGED <<count, owner, lock_times, Queued, Asleep>>
  BY <1>1, QuietEffect DEF DInv
<1>3. DiskTypeOK'
  BY <1>1 DEF DInv, DriverInv, DiskTypeOK
<1>4. PlaceInv'
  BY <1>1, <1>2 DEF DInv, DriverInv, PlaceInv
<1>5. DriveInv'
  BY <1>1, <1>2 DEF DInv, DriverInv, DriveInv
<1>6. WakeupsPaired'
  BY <1>1, <1>2 DEF DInv, DriverInv, WakeupsPaired, Credit, Asleep
<1>7. ServedInv'
  BY <1>1, StaysRunnable DEF DInv, DriverInv, DiskTypeOK, ServedInv
<1> QED BY <1>3, <1>4, <1>5, <1>6, <1>7 DEF DriverInv

(* A task asleep waits for the drive, and owns the mutex.                  *)
LEMMA SleeperOwns ==
  ASSUME DInv, NEW t \in Asleep
  PROVE  t \in Tasks /\ t # NULL /\ owner[mutex] = t /\ pc[t] = "poll" /\ count[sem] = 0
<1>1. t \in Tasks /\ t # NULL
  BY RunnerIsFree, SchedAssumption DEF DInv
<1>2. pc[t] = "poll" /\ owner[mutex] = t
  BY <1>1 DEF DInv, DriverInv, PlaceInv
<1>3. count[sem] = 0
  <2>1. sem \in Sems /\ count[sem] \in Nat
    BY DiskAssumption DEF DInv, IInv, SyncInv
  <2>2. queue[sem] # << >>
    BY DEF Asleep, Range
  <2> QED BY <2>1, <2>2 DEF DInv, IInv, SyncInv, SemInv
<1> QED BY <1>1, <1>2, <1>3

(* Two requests may share the latch only when one of them is not owed to   *)
(* anybody: then it is the second that counts.                             *)
LEMMA DriveReadyStep ==
  ASSUME DInv, drive_ready
  PROVE  DriverInv'
<1> DEFINE o == owner[mutex]
<1>1. /\ drive.status = "busy"
      /\ \/ drive' = [drive EXCEPT !.status = IF drive.left = 0 THEN "idle" ELSE "drq"]
         \/ drive' = [drive EXCEPT !.status = "err"]
      /\ irr' = TRUE
      /\ UNCHANGED <<vars, pc, op, left, failed, isr>>
  BY DEF drive_ready, taskVars
<1>2. /\ drive \in [status : {"idle", "busy", "drq", "err"}, op : {"read", "write"},
                    left : 0 .. MaxSectors]
      /\ irr \in BOOLEAN
  BY DEF DInv, DriverInv, DiskTypeOK
<1>3. PICK st \in {"idle", "drq", "err"} :
        /\ drive' = [status |-> st, op |-> drive.op, left |-> drive.left]
        /\ st = "idle" => drive.left = 0
        /\ st = "drq" => drive.left # 0
  <2>1. CASE drive' = [drive EXCEPT !.status = IF drive.left = 0 THEN "idle" ELSE "drq"]
    <3>1. CASE drive.left = 0
      BY <1>2, <2>1, <3>1
    <3>2. CASE drive.left # 0
      BY <1>2, <2>1, <3>2
    <3> QED BY <3>1, <3>2
  <2>2. CASE drive' = [drive EXCEPT !.status = "err"]
    BY <1>2, <2>2
  <2> QED BY <1>1, <2>1, <2>2
<1>4. UNCHANGED <<owner, lock_times, count, Queued, Asleep, state>>
  BY <1>1 DEF vars, Queued, Asleep
<1>5. DiskTypeOK'
  BY <1>1, <1>2, <1>3 DEF DInv, DriverInv, DiskTypeOK
<1>6. PlaceInv'
  BY <1>1, <1>4 DEF DInv, DriverInv, PlaceInv
<1>7. o \in Tasks \cup {NULL}
  BY DiskAssumption DEF DInv, IInv, SyncInv
<1>8. /\ o # NULL /\ pc[o] \in {"wait", "poll"} /\ InStep(drive, pc[o], op[o], left[o])
      /\ op[o] \in {"read", "write"} /\ left[o] > 0 /\ left[o] \in Nat
  BY <1>1, <1>7, DiskAssumption DEF DInv, DriverInv, DiskTypeOK, PlaceInv, DriveInv, InStep
<1>9. DriveInv'
  <2>1. InStep(drive', pc[o], op[o], left[o])
    BY <1>1, <1>3, <1>8 DEF InStep
  <2> QED BY <1>1, <1>4, <1>8, <2>1 DEF DriveInv
<1>10. WakeupsPaired'
  <2>1. count[sem] \in Nat
    BY DiskAssumption DEF DInv, IInv, SyncInv
  <2>2. drive'.status # "busy"
    BY <1>3
  <2>3. o \in Asleep => pc[o] = "poll" /\ count[sem] = 0
    BY SleeperOwns
  <2>4. Credit = count[sem] + (IF irr THEN 1 ELSE 0) /\ Credit' = count[sem] + 1
    BY <1>1, <1>4 DEF Credit
  <2>5. CASE o \in Asleep
    <3>1. (o \in Asleep) = TRUE
      BY <2>5
    <3>2. Credit' - Owed(pc[o], TRUE, drive'.status) \in {0, 1}
      BY <2>2, <2>3, <2>4, <2>5 DEF Owed
    <3> QED BY <1>1, <1>4, <1>8, <3>1, <3>2 DEF WakeupsPaired, Asleep
  <2>6. CASE o \notin Asleep
    <3>1. (o \in Asleep) = FALSE
      BY <2>6
    <3>2. Credit - Owed(pc[o], FALSE, "busy") \in {0, 1}
      BY <1>1, <1>8, <3>1 DEF DInv, DriverInv, WakeupsPaired, Asleep
    <3>3. Credit' - Owed(pc[o], FALSE, drive'.status) \in {0, 1}
      BY <1>2, <1>8, <2>1, <2>2, <2>4, <3>2 DEF Owed
    <3> QED BY <1>1, <1>4, <1>8, <3>1, <3>3 DEF WakeupsPaired, Asleep
  <2> QED BY <2>5, <2>6
<1>11. ServedInv'
  BY <1>1, <1>4 DEF DInv, DriverInv, ServedInv
<1> QED BY <1>5, <1>6, <1>9, <1>10, <1>11 DEF DriverInv

LEMMA HandlerIdeStep ==
  ASSUME DInv, do_handler_ide
  PROVE  DriverInv'
<1> DEFINE o == owner[mutex]
<1>1. /\ irr /\ irr' = FALSE /\ isr' = current
      /\ sem_notify(sem)
      /\ UNCHANGED <<pc, op, left, failed, drive>>
  BY DEF do_handler_ide, taskVars
<1>2. current \in Tasks /\ state[current] \in {"RUNNING", "ZOMBIE"}
  BY RunnerIsFree DEF DInv
<1>3. /\ UNCHANGED <<owner, lock_times>>
      /\ Queued' = Queued
      /\ \/ /\ Asleep = {}
            /\ Asleep' = {}
            /\ count'[sem] = count[sem] + 1
         \/ /\ UNCHANGED count
            /\ \E w \in Asleep : Asleep' = Asleep \ {w}
  BY <1>1, NotifyEffect DEF DInv
<1>4. DiskTypeOK'
  BY <1>1, <1>2 DEF DInv, DriverInv, DiskTypeOK
<1>5. PlaceInv'
  BY <1>1, <1>3 DEF DInv, DriverInv, PlaceInv
<1>6. DriveInv'
  BY <1>1, <1>3 DEF DInv, DriverInv, DriveInv
<1>7. WakeupsPaired'
  <2>1. count[sem] \in Nat
    BY DiskAssumption DEF DInv, IInv, SyncInv
  <2>2. CASE Asleep = {} /\ Asleep' = {} /\ count'[sem] = count[sem] + 1
    <3>1. Credit' = Credit
      BY <1>1, <2>1, <2>2 DEF Credit
    <3> QED BY <1>1, <1>3, <2>2, <3>1 DEF DInv, DriverInv, WakeupsPaired, Asleep
  <2>3. CASE UNCHANGED count /\ \E w \in Asleep : Asleep' = Asleep \ {w}
    <3>1. /\ o \in Asleep /\ o \notin Asleep'
          /\ o # NULL /\ pc[o] = "poll" /\ count[sem] = 0
      BY <2>3, SleeperOwns
    <3>2. Credit = 1 /\ Credit' = 0
      BY <1>1, <2>3, <3>1 DEF Credit
    <3>3. (o \in Asleep) = TRUE /\ (o \in Asleep') = FALSE
      BY <3>1
    <3>4. Credit - Owed("poll", TRUE, drive.status) \in {0, 1}
      BY <3>1, <3>3 DEF DInv, DriverInv, WakeupsPaired, Asleep
    <3>5. Credit' - Owed("poll", FALSE, drive.status) \in {0, 1}
      BY <3>2, <3>4 DEF Owed
    <3> QED BY <1>1, <1>3, <3>1, <3>3, <3>5 DEF WakeupsPaired, Asleep
  <2> QED BY <1>3, <2>2, <2>3
<1>8. ServedInv'
  BY <1>1, <1>2, StaysRunnable DEF DInv, ServedInv
<1> QED BY <1>4, <1>5, <1>6, <1>7, <1>8 DEF DriverInv

-----------------------------------------------------------------------------
LEMMA InitDInv ==
  DiskInit => DInv
<1> SUFFICES ASSUME DiskInit PROVE DInv
  OBVIOUS
<1>1. Init /\ IInv
  BY InitIInv DEF DiskInit
<1>2. /\ mutex \in Mutexes /\ sem \in Sems
      /\ owner[mutex] = NULL /\ count[sem] = 0
      /\ queue[mutex] = << >> /\ queue[sem] = << >>
  BY <1>1, DiskAssumption, SchedAssumption DEF Init, QueueNames
<1>3. Queued = {} /\ Asleep = {}
  BY <1>2 DEF Queued, Asleep, Range
<1>4. DiskTypeOK
  BY DiskAssumption DEF DiskInit, DiskTypeOK
<1>5. PlaceInv
  BY <1>2, <1>3, SchedAssumption DEF DiskInit, PlaceInv
<1>6. DriveInv
  BY <1>2 DEF DiskInit, DriveInv
<1>7. WakeupsPaired
  BY <1>2 DEF DiskInit, WakeupsPaired, Credit
<1>8. ServedInv
  BY DEF DiskInit, ServedInv
<1> QED BY <1>1, <1>4, <1>5, <1>6, <1>7, <1>8 DEF DInv, DriverInv

LEMMA NextDInv ==
  DInv /\ [DiskNext]_diskVars => DInv'
<1> SUFFICES ASSUME DInv, [DiskNext]_diskVars PROVE DInv'
  OBVIOUS
<1>1. IInv'
  BY DiskStepIsSchedStep, NextIInv DEF DInv
<1>2. ASSUME NEW o \in {"read", "write"}, NEW n \in 1 .. MaxSectors, disk_call(o, n)
      PROVE  DriverInv'
  BY <1>2, DiskCallStep
<1>3. ASSUME do_handler_time \/ pic_done \/ (\E child \in Tasks : fork(child))
      PROVE  DriverInv'
  BY <1>3, QuietStep
<1>4. ASSUME send_cmd PROVE DriverInv'
  BY <1>4, SendCmdStep
<1>5. ASSUME await_irq PROVE DriverInv'
  BY <1>5, AwaitIrqStep
<1>6. ASSUME wait_data PROVE DriverInv'
  BY <1>6, WaitDataStep
<1>7. ASSUME read_data PROVE DriverInv'
  BY <1>7, ReadDataStep
<1>8. ASSUME write_data PROVE DriverInv'
  BY <1>8, WriteDataStep
<1>9. ASSUME disk_return PROVE DriverInv'
  BY <1>9, DiskReturnStep
<1>10. ASSUME drive_ready PROVE DriverInv'
  BY <1>10, DriveReadyStep
<1>11. ASSUME do_handler_ide PROVE DriverInv'
  BY <1>11, HandlerIdeStep
<1>12. ASSUME UNCHANGED diskVars PROVE DriverInv'
  <2>1. /\ UNCHANGED vars
        /\ UNCHANGED <<pc, op, left, failed, drive, irr, isr>>
    BY <1>12 DEF diskVars, taskVars, picVars
  <2>2. UNCHANGED <<owner, lock_times, count, state, queue, Queued, Asleep>>
    BY <2>1 DEF vars, Queued, Asleep
  <2>3. DiskTypeOK' /\ ServedInv'
    BY <2>1, <2>2 DEF DInv, DriverInv, DiskTypeOK, ServedInv
  <2>4. PlaceInv'
    BY <2>1, <2>2 DEF DInv, DriverInv, PlaceInv
  <2>5. DriveInv'
    BY <2>1, <2>2 DEF DInv, DriverInv, DriveInv
  <2>6. WakeupsPaired'
    BY <2>1, <2>2 DEF DInv, DriverInv, WakeupsPaired, Credit
  <2> QED BY <2>3, <2>4, <2>5, <2>6 DEF DriverInv
<1>13. ASSUME Driver PROVE DriverInv'
  BY <1>3, <1>4, <1>5, <1>6, <1>7, <1>8, <1>9, <1>13 DEF Driver
<1>14. DriverInv'
  BY <1>2, <1>3, <1>10, <1>11, <1>12, <1>13 DEF DiskNext
<1> QED BY <1>1, <1>14 DEF DInv

LEMMA DInvAlways ==
  DiskSpec => []DInv
  BY InitDInv, NextDInv, PTL DEF DiskSpec

(* The driver's safety: one command at a time, data only when the drive    *)
(* wants it, no lost wake-up, the mutex lost to failed calls and to those  *)
(* alone, and an end of interrupt to come (disk_read, disk_write,          *)
(* do_handler_ide), for any number of tasks and any transfer lengths.      *)
THEOREM DiskCorrect ==
  DiskSpec => [](DiskTypeOK /\ OneCommand /\ TransferInStep /\ WakeupsPaired
                 /\ LeakedLock /\ EoiReachable)
<1>1. ASSUME DInv
      PROVE  DiskTypeOK /\ OneCommand /\ TransferInStep /\ WakeupsPaired
             /\ LeakedLock /\ EoiReachable
  <2> USE <1>1
  <2>1. NULL \notin Tasks /\ DiskTypeOK /\ WakeupsPaired
    BY SchedAssumption DEF DInv, DriverInv
  <2>2. OneCommand
    <3> SUFFICES ASSUME NEW t \in Tasks, pc[t] # "user"
                 PROVE  \/ /\ owner[mutex] = t
                           /\ pc[t] = "command" => drive.status \in {"idle", "err"}
                        \/ pc[t] = "command" /\ t \in Range(queue[mutex])
      BY DEF OneCommand
    <3>1. owner[mutex] = t \/ (t \in Queued /\ pc[t] = "command")
      BY DEF DInv, DriverInv, PlaceInv
    <3> QED BY <2>1, <3>1 DEF DInv, DriverInv, DriveInv, InStep, Queued
  <2>3. TransferInStep
    <3> SUFFICES ASSUME NEW t \in Tasks, pc[t] = "data"
                 PROVE  drive = [status |-> "drq", op |-> op[t], left |-> left[t]]
      BY DEF TransferInStep
    <3>1. owner[mutex] = t
      BY DEF DInv, DriverInv, PlaceInv
    <3> QED BY <2>1, <3>1 DEF DInv, DriverInv, DriveInv, InStep
  <2>4. LeakedLock
    BY DEF DInv, DriverInv, PlaceInv, LeakedLock
  <2>5. EoiReachable
    <3> SUFFICES ASSUME isr # NULL PROVE isr \in Range(queue["ready"])
      BY DEF EoiReachable
    <3>1. isr \in Tasks /\ state[isr] \in {"RUNNING", "ZOMBIE"}
      BY DEF DInv, DriverInv, DiskTypeOK, ServedInv
    <3>2. PICK k \in QueueNames : isr \in Range(queue[k])
      BY <3>1 DEF DInv, IInv, TaskInv, QueueInv
    <3>3. k \in Homes(state[isr])
      BY <3>1, <3>2 DEF DInv, IInv, TaskInv, QueueInv
    <3> QED BY <3>1, <3>2, <3>3, HomesValues
  <2> QED BY <2>1, <2>2, <2>3, <2>4, <2>5
<1> QED BY <1>1, DInvAlways, PTL

(* A task blocked in sem_wait is never forgotten: the drive is still busy  *)
(* for it, or its interrupt is latched (sem_wait in disk_read, disk_write).*)
THEOREM SleeperIsAwaited ==
  DiskSpec => [](\A t \in Range(queue[sem]) : drive.status = "busy" \/ irr)
<1>1. ASSUME DInv, NEW t \in Asleep, drive.status # "busy"
      PROVE  irr
  <2>1. /\ t # NULL /\ owner[mutex] = t /\ pc[t] = "poll" /\ count[sem] = 0
    BY <1>1, SleeperOwns
  <2>2. (t \in Asleep) = TRUE
    BY <1>1
  <2>3. Credit - Owed("poll", TRUE, drive.status) \in {0, 1}
    BY <1>1, <2>1, <2>2 DEF DInv, DriverInv, WakeupsPaired, Asleep
  <2> QED BY <1>1, <2>1, <2>3 DEF Owed, Credit
<1>2. DInv => \A t \in Range(queue[sem]) : drive.status = "busy" \/ irr
  BY <1>1 DEF Asleep
<1> QED BY <1>2, DInvAlways, PTL
=============================================================================
