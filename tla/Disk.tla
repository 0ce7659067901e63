-------------------------------- MODULE Disk --------------------------------
(***************************************************************************)
(* The disk driver, device/disk.c, run by tasks under module Sched: tasks  *)
(* that call disk_read and disk_write, the IDE interrupt that wakes them,  *)
(* the timer that switches them, the drive, and the interrupt controller.  *)
(*                                                                         *)
(* System calls and handlers run with interrupts off, so a task inside the *)
(* driver is left only when it blocks; the exception is the kernel thread  *)
(* init_task_entry, which task_init starts with interrupts on and which    *)
(* execs /boot/init from the disk: it can be interrupted at every step.    *)
(*                                                                         *)
(* do_handler_ide calls sem_notify, which may switch tasks, before it ends *)
(* the interrupt with pic_done: the interrupt stays in service, and the    *)
(* next one pending, until the interrupted task has the CPU back.          *)
(***************************************************************************)
EXTENDS Sched

CONSTANTS
  mutex, sem,   \* the driver's two static variables
  Preemptible,  \* the tasks that run the kernel with interrupts on
  MaxSectors,   \* bound: sectors in a transfer
  MayFail       \* whether the drive may report an error

ASSUME DiskAssumption ==
  /\ mutex \in Mutexes
  /\ sem \in Sems
  /\ SemInit[sem] = 0
  /\ Preemptible \subseteq Tasks
  /\ MaxSectors \in Nat \ {0}
  /\ MayFail \in BOOLEAN

VARIABLES
  pc,      \* where a task is in disk_read or disk_write; "user" outside them
  op,      \* which of the two it is in, "read" or "write"
  left,    \* the sectors its loop has left to do
  drive,   \* what the drive is doing: status, command and sectors left of it
  irr,     \* the IDE interrupt is latched in the controller's request register
  isr,     \* whom the interrupt in service interrupted, NULL when none is
  failed   \* the tasks that had -ENODISK returned to them

taskVars == <<pc, op, left, failed>>
picVars == <<irr, isr>>
diskVars == <<vars, taskVars, drive, picVars>>

-----------------------------------------------------------------------------
(* Boot ends with interrupts coming on.  The reads of disk_init and of the *)
(* root file system's mount polled the drive with interrupts off: its last *)
(* request may still be latched.  wait_interupt is 1 since then for good.  *)
DiskInit ==
  /\ Init
  /\ pc = [t \in Tasks |-> "user"]
  /\ op = [t \in Tasks |-> "read"]
  /\ left = [t \in Tasks |-> 0]
  /\ drive = [status |-> "idle", op |-> "read", left |-> 0]
  /\ irr \in BOOLEAN
  /\ isr = NULL
  /\ failed = {}

(* Mutant of At: the handler's last part is no obstacle to going on.       *)
AtInHandler(p) == current # Idle /\ pc[current] = p

(* The running task is at p, not in the rest of an interrupt handler.      *)
At(p) == current # Idle /\ current # isr /\ pc[current] = p

Goto(p) == pc' = [pc EXCEPT ![current] = p]

(* Mutant of disk_call: no mutex_lock.                                     *)
DiskCallUnlocked(o, n) ==
  /\ At("user")
  /\ op' = [op EXCEPT ![current] = o]
  /\ left' = [left EXCEPT ![current] = n]
  /\ Goto("command")
  /\ UNCHANGED <<vars, drive, picVars, failed>>

(* disk_read or disk_write, up to mutex_lock, which may block the caller.  *)
disk_call(o, n) ==
  /\ At("user")
  /\ mutex_lock(mutex)
  /\ op' = [op EXCEPT ![current] = o]
  /\ left' = [left EXCEPT ![current] = n]
  /\ Goto("command")
  /\ UNCHANGED <<drive, picVars, failed>>

(* A drive asked to read gets busy; asked to write, it wants data at once. *)
send_cmd ==
  /\ At("command")
  /\ LET o == op[current] IN
       /\ drive' = [status |-> IF o = "read" THEN "busy" ELSE "drq",
                    op |-> o, left |-> left[current]]
       /\ Goto(IF o = "read" THEN "wait" ELSE "data")
  /\ UNCHANGED <<vars, picVars, op, left, failed>>

await_irq ==
  /\ At("wait")
  /\ sem_wait(sem)
  /\ Goto("poll")
  /\ UNCHANGED <<drive, picVars, op, left, failed>>

(* Mutant of wait_data: the status is not waited for.                      *)
WaitDataNoPoll ==
  /\ At("poll")
  /\ IF op[current] = "read" THEN Goto("data") /\ UNCHANGED left
     ELSE /\ left' = [left EXCEPT ![current] = @ - 1]
          /\ Goto(IF left[current] = 1 THEN "unlock" ELSE "data")
  /\ UNCHANGED <<vars, drive, picVars, op, failed>>

(* Spin while the drive is busy; an error returns from disk_read as it is, *)
(* with the mutex locked.                                                  *)
wait_data ==
  /\ At("poll")
  /\ drive.status # "busy"
  /\ \/ /\ drive.status = "err"
        /\ failed' = failed \cup {current}
        /\ Goto("user")
        /\ UNCHANGED left
     \/ /\ drive.status # "err"
        /\ op[current] = "read"
        /\ Goto("data")
        /\ UNCHANGED <<left, failed>>
     \/ /\ drive.status # "err"
        /\ op[current] = "write"
        /\ left' = [left EXCEPT ![current] = @ - 1]
        /\ Goto(IF left[current] = 1 THEN "unlock" ELSE "data")
        /\ UNCHANGED failed
  /\ UNCHANGED <<vars, drive, picVars, op>>

(* What a sector through the data port does to the drive, if it wants one. *)
Transferred ==
  IF drive.status # "drq" THEN drive
  ELSE [drive EXCEPT !.left = @ - 1,
                     !.status = IF drive.op = "read" /\ drive.left = 1
                                THEN "idle" ELSE "busy"]

(* Mutant of read_data: the loop runs once more.                           *)
ReadDataOneMore ==
  /\ At("data")
  /\ op[current] = "read"
  /\ drive' = Transferred
  /\ left' = [left EXCEPT ![current] = @ - 1]
  /\ Goto(IF left[current] = 0 THEN "unlock" ELSE "wait")
  /\ UNCHANGED <<vars, picVars, op, failed>>

read_data ==
  /\ At("data")
  /\ op[current] = "read"
  /\ drive' = Transferred
  /\ left' = [left EXCEPT ![current] = @ - 1]
  /\ Goto(IF left[current] = 1 THEN "unlock" ELSE "wait")
  /\ UNCHANGED <<vars, picVars, op, failed>>

write_data ==
  /\ At("data")
  /\ op[current] = "write"
  /\ drive' = Transferred
  /\ Goto("wait")
  /\ UNCHANGED <<vars, picVars, op, left, failed>>

(* Mutant of disk_return: mutex_unlock forgotten.                          *)
DiskReturnLocked ==
  /\ At("unlock")
  /\ Goto("user")
  /\ UNCHANGED <<vars, drive, picVars, op, left, failed>>

disk_return ==
  /\ At("unlock")
  /\ mutex_unlock(mutex)
  /\ Goto("user")
  /\ UNCHANGED <<drive, picVars, op, left, failed>>

-----------------------------------------------------------------------------
(* The drive has read or written a sector, or failed to; the status        *)
(* changes and an interrupt is requested.  A request latched earlier and   *)
(* not taken yet is the same latch.                                        *)
drive_ready ==
  /\ drive.status = "busy"
  /\ \/ drive' = [drive EXCEPT !.status = IF drive.left = 0 THEN "idle" ELSE "drq"]
     \/ MayFail /\ drive' = [drive EXCEPT !.status = "err"]
  /\ irr' = TRUE
  /\ UNCHANGED <<vars, taskVars, isr>>

-----------------------------------------------------------------------------
(* The CPU takes interrupts: in user mode, in the idle task's hlt, in the  *)
(* kernel only on behalf of a preemptible task, never inside a handler.    *)
InterruptsOn == current # isr /\ (pc[current] = "user" \/ current \in Preemptible)

do_handler_time ==
  /\ InterruptsOn
  /\ task_tick
  /\ UNCHANGED <<taskVars, drive, picVars>>

(* Mutant of do_handler_ide: nobody waits yet, nobody is notified.         *)
DoHandlerIdeIfWaiting ==
  /\ InterruptsOn
  /\ irr
  /\ isr = NULL
  /\ irr' = FALSE
  /\ isr' = current
  /\ \/ queue[sem] # << >> /\ sem_notify(sem)
     \/ queue[sem] = << >> /\ UNCHANGED vars
  /\ UNCHANGED <<taskVars, drive>>

(* do_handler_ide up to its pic_done.                                      *)
do_handler_ide ==
  /\ InterruptsOn
  /\ irr
  /\ isr = NULL
  /\ irr' = FALSE
  /\ isr' = current
  /\ sem_notify(sem)
  /\ UNCHANGED <<taskVars, drive>>

(* Mutant of pic_done: only the master chip is told.                       *)
PicDoneMasterOnly ==
  /\ current = isr
  /\ UNCHANGED diskVars

(* Its end, once the interrupted task runs again.                          *)
pic_done ==
  /\ current = isr
  /\ isr' = NULL
  /\ UNCHANGED <<vars, taskVars, drive, irr>>

-----------------------------------------------------------------------------
(* More tasks come by fork; a child starts in user mode.                   *)
fork(child) ==
  /\ At("user")
  /\ sys_fork(child)
  /\ state'[child] = "RUNNING"
  /\ UNCHANGED <<taskVars, drive, picVars>>

Driver ==
  send_cmd \/ await_irq \/ wait_data \/ read_data \/ write_data \/ disk_return \/ pic_done

DiskNext ==
  \/ \E o \in {"read", "write"}, n \in 1 .. MaxSectors : disk_call(o, n)
  \/ \E child \in Tasks : fork(child)
  \/ Driver
  \/ drive_ready
  \/ do_handler_time
  \/ do_handler_ide

DiskSpec == DiskInit /\ [][DiskNext]_diskVars

(* The drive answers.  A task in the driver that is given the CPU again    *)
(* and again gets a statement done between two ticks, 10 ms apart.  An     *)
(* interrupt that can be taken again and again is taken, though system     *)
(* calls keep shutting it out: each returns to code with interrupts on.    *)
DiskFairSpec ==
  /\ DiskSpec
  /\ WF_diskVars(drive_ready)
  /\ \A t \in Tasks : SF_diskVars(current = t /\ Driver)
  /\ SF_diskVars(do_handler_time)
  /\ SF_diskVars(do_handler_ide)

-----------------------------------------------------------------------------
DiskTypeOK ==
  /\ pc \in [Tasks -> {"user", "command", "wait", "poll", "data", "unlock"}]
  /\ op \in [Tasks -> {"read", "write"}]
  /\ left \in [Tasks -> 0 .. MaxSectors]
  /\ drive \in [status : {"idle", "busy", "drq", "err"}, op : {"read", "write"},
                left : 0 .. MaxSectors]
  /\ irr \in BOOLEAN
  /\ isr \in Tasks \cup {NULL}
  /\ failed \subseteq Tasks

(* One command at a time, whoever is interrupted or blocked where: a task  *)
(* in disk_read or disk_write owns the mutex or is queued for it, and a    *)
(* command is sent only to a drive that has finished the last one.         *)
OneCommand ==
  \A t \in Tasks : pc[t] # "user" =>
    \/ /\ owner[mutex] = t
       /\ pc[t] = "command" => drive.status \in {"idle", "err"}
    \/ pc[t] = "command" /\ t \in Range(queue[mutex])

(* Driver and drive agree on the sector in hand: data goes through the     *)
(* port only while the drive wants it, for the task whose command it is    *)
(* and as many sectors from the end as the task's loop has left.  A        *)
(* semaphore that is one notify ahead must not break this.                 *)
TransferInStep ==
  \A t \in Tasks : pc[t] = "data" =>
    drive = [status |-> "drq", op |-> op[t], left |-> left[t]]

(* Interrupts on their way to the task that waits, or will.                *)
Credit == count[sem] + (IF irr THEN 1 ELSE 0)

(* The requests of a command that its task has not waited for yet, by the  *)
(* task's place, whether it is blocked, and the drive's status: one once   *)
(* the drive is done with a sector, one less when the task waited already. *)
Owed(p, blocked, status) ==
  LET answered == IF status = "busy" THEN 0 ELSE 1
  IN  CASE p = "wait"                               -> answered
        [] p = "poll" /\ blocked                    -> answered
        [] p = "poll" /\ ~ blocked                  -> answered - 1
        [] p \notin {"wait", "poll"}                -> 0

(* No wake-up is lost, and at most one is kept from boot: the notifies in  *)
(* sight are those owed to the mutex's owner, or one more.  So a task that *)
(* blocked in sem_wait has a busy drive or a latched interrupt ahead, also *)
(* when the interrupt came before sem_wait, when two requests shared the   *)
(* latch while interrupts were off, and after a failed command.            *)
WakeupsPaired ==
  LET o == owner[mutex]
      owed == IF o = NULL THEN 0 ELSE Owed(pc[o], o \in Range(queue[sem]), drive.status)
  IN  Credit - owed \in {0, 1}

(* What a failed transfer costs: -ENODISK is returned with the mutex       *)
(* locked, and no later successful call makes up for it.  Every other way  *)
(* out of the driver leaves the mutex as it was.                           *)
LeakedLock ==
  \A t \in Tasks : pc[t] = "user" => (owner[mutex] = t <=> t \in failed)

(* The end of interrupt is always to come: whoever was interrupted when    *)
(* sem_notify switched away can run, so the controller is not left with    *)
(* the interrupt in service and the next one pending for ever.             *)
EoiReachable == isr # NULL => isr \in Range(queue["ready"])

(* disk_read and disk_write return, when the drive reports no errors.      *)
DiskDone == \A t \in Tasks : pc[t] # "user" ~> pc[t] = "user"

(* What sem_notify's comment says of the kernel's use of semaphores        *)
(* (kernel/ipc.c:52): notify and wait are paired, the count does not stay  *)
(* above its initial value.  With no transfer and no interrupt under way   *)
(* the driver's semaphore is then back at 0.                               *)
NotifyPaired ==
  owner[mutex] = NULL /\ drive.status = "idle" /\ ~ irr => count[sem] = SemInit[sem]
=============================================================================
