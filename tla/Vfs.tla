-------------------------------- MODULE Vfs --------------------------------
(***************************************************************************)
(* Open files and the calls on them, fs/file.c and fs/fs.c, with the       *)
(* descriptors in the tasks' structures, kernel/task.c.                    *)
(*                                                                         *)
(* A system call runs with interrupts off: other tasks run only while the  *)
(* caller waits for the mutex of the root file system, for the disk with   *)
(* the mutex held, or when it hands the mutex to a waiter.  One file system*)
(* is mounted, on "/"; the other entries of fs_table are unused.           *)
(***************************************************************************)
EXTENDS Integers, FiniteSets, Sequences, SequencesExt

CONSTANTS
  Tasks,      \* the tasks there may be
  Initial,    \* the task that runs first
  NoTask,     \* no owner of the mutex
  NFds,       \* descriptors of a task, 128 in the code
  NFiles,     \* entries of file_table, 2048 in the code
  MaxCalls    \* bound: calls in a history

ASSUME VfsAssumption ==
  /\ IsFiniteSet(Tasks) /\ Initial \in Tasks /\ NoTask \notin Tasks
  /\ {NFds, NFiles, MaxCalls} \subseteq Nat \ {0}

Fds == 1 .. NFds
Entries == 1 .. NFiles
NULL == 0
Wild == -1    \* a descriptor that was never set
O_RDONLY == 0
O_WRONLY == 1

(* A call: its descriptor and entry; for a close what mode and opened were *)
(* when it began; the mode it saw with the mutex; whether an open failed.  *)
Idle == [op |-> "none", step |-> "user", fd |-> 0, file |-> 0,
         was |-> 0, times |-> 0, saw |-> 0, failed |-> FALSE]
Call(op, fd, e) == [Idle EXCEPT !.op = op, !.fd = fd, !.file = e]

VARIABLES
  ref,     \* file_table[e].ref
  mode,    \* file_table[e].mode
  fds,     \* open_file_table of each task
  live,    \* the tasks
  call,    \* the call a task is in: waiting for the mutex, inside or left
  mutex,   \* the owner of the mutex and the queue of those who wait
  opened,  \* history: how often ext2_open has run on an entry
  lost,    \* history: references that no descriptor stands for
  cause,   \* history: what went wrong
  calls    \* history: how many calls there were

vars == <<ref, mode, fds, live, call, mutex, opened, lost, cause, calls>>

(* After fs_init, with the first task.                                     *)
Init ==
  /\ ref = [e \in Entries |-> 0]
  /\ mode = [e \in Entries |-> O_RDONLY]
  /\ fds = [t \in Tasks |-> [i \in Fds |-> NULL]]
  /\ live = {Initial}
  /\ call = [t \in Tasks |-> Idle]
  /\ mutex = [owner |-> NoTask, queue |-> << >>]
  /\ opened = [e \in Entries |-> 0]
  /\ lost = [e \in Entries |-> 0]
  /\ cause = {}
  /\ calls = 0

-----------------------------------------------------------------------------
(* Entries in use are passed over; the last one is returned even so.       *)
alloc_file ==
  IF \E e \in Entries : ref[e] = 0
  THEN CHOOSE e \in Entries : ref[e] = 0 /\ \A d \in 1 .. e - 1 : ref[d] # 0
  ELSE NFiles
Taken(e) == [ref EXCEPT ![e] = IF @ = 0 THEN 1 ELSE @]

free_file(refs, e) == [refs EXCEPT ![e] = IF @ > 0 THEN @ - 1 ELSE @]

task_alloc_fd(t) ==
  IF \E i \in Fds : fds[t][i] = NULL
  THEN CHOOSE i \in Fds : fds[t][i] = NULL /\ \A j \in 1 .. i - 1 : fds[t][j] # NULL
  ELSE -1

(* ext2_close looks at the mode first: bit 0 set, and it is through.       *)
Started(c, m) == [c EXCEPT !.step = "inside", !.saw = m[c.file]]

mutex_lock(t, c, m) ==
  IF mutex.owner = NoTask
  THEN /\ mutex' = [mutex EXCEPT !.owner = t]
       /\ call' = [call EXCEPT ![t] = Started(c, m)]
  ELSE /\ mutex' = [mutex EXCEPT !.queue = Append(@, t)]
       /\ call' = [call EXCEPT ![t] = [c EXCEPT !.step = "waiting"]]

(* Mutant of mutex_unlock: the waiters are forgotten.                      *)
UnlockOnly == [owner |-> NoTask, queue |-> mutex.queue]

(* Mutant of handover: the mutex goes to the one who came last.            *)
HandoverToLast(q) == [owner |-> Last(q), queue |-> Front(q)]

handover(q) == [owner |-> Head(q), queue |-> Tail(q)]

mutex_unlock ==
  IF mutex.queue = << >> THEN [mutex EXCEPT !.owner = NoTask] ELSE handover(mutex.queue)

Counted == calls' = calls + 1

(* sys_open and sys_unlink up to the mutex.  A name that does not begin    *)
(* with "/" is matched by the empty mount point of an unused entry of      *)
(* fs_table, which has no mutex.                                           *)
Get(t, op, m, rooted) ==
  LET e  == alloc_file
      fd == task_alloc_fd(t)
      shared == ref[e] # 0
      modes == IF op = "open" THEN [mode EXCEPT ![e] = m] ELSE mode
  IN  /\ t \in live /\ call[t] = Idle
      /\ ref' = Taken(e)
      /\ IF fd = -1
         THEN /\ lost' = IF shared THEN lost ELSE [lost EXCEPT ![e] = 1]
              /\ UNCHANGED <<fds, mode, call, mutex, cause>>
         ELSE /\ fds' = [fds EXCEPT ![t][fd] = e]
              /\ cause' = (IF shared THEN {"shared"} ELSE {}) \cup (IF rooted THEN {} ELSE {"astray"})
              /\ IF rooted
                 THEN /\ mode' = modes
                      /\ mutex_lock(t, Call(op, fd, e), modes)
                 ELSE UNCHANGED <<mode, call, mutex>>
              /\ UNCHANGED lost
      /\ Counted
      /\ UNCHANGED <<live, opened>>

sys_open(t, m, rooted) == Get(t, "open", m, rooted)
sys_unlink(t, rooted) == Get(t, "unlink", O_RDONLY, rooted)

(* sys_read, sys_write and sys_seek.                                       *)
access(t, fd) ==
  /\ t \in live /\ call[t] = Idle /\ fds[t][fd] # NULL
  /\ mutex_lock(t, Call("access", fd, fds[t][fd]), mode)
  /\ Counted
  /\ UNCHANGED <<ref, mode, fds, live, opened, lost, cause>>

(* The reference is given back before the wait, the descriptor after it.   *)
sys_close(t, fd) ==
  LET e == fds[t][fd]
  IN  /\ t \in live /\ call[t] = Idle /\ e # NULL
      /\ ref' = free_file(ref, e)
      /\ IF ref'[e] = 0
         THEN /\ mutex_lock(t, [Call("close", fd, e) EXCEPT !.was = mode[e], !.times = opened[e]], mode)
              /\ UNCHANGED fds
         ELSE /\ fds' = [fds EXCEPT ![t][fd] = NULL]
              /\ UNCHANGED <<call, mutex>>
      /\ Counted
      /\ UNCHANGED <<mode, live, opened, lost, cause>>

(* The second entry of fs_table is not mounted.                            *)
sys_sync(t) ==
  /\ t \in live /\ call[t] = Idle
  /\ mutex_lock(t, Call("sync", 1, 1), mode)
  /\ Counted
  /\ UNCHANGED <<ref, mode, fds, live, opened, lost, cause>>

(* A waiter that was handed the mutex runs.                                *)
resume(t) ==
  /\ call[t].step = "waiting" /\ mutex.owner = t
  /\ call' = [call EXCEPT ![t] = Started(@, mode)]
  /\ UNCHANGED <<ref, mode, fds, live, mutex, opened, lost, cause, calls>>

(* What a call does after mutex_unlock.                                    *)
Rest(t, c) ==
  /\ ref' = IF c.op = "unlink" \/ (c.op = "open" /\ c.failed) THEN free_file(ref, c.file) ELSE ref
  /\ fds' = IF c.op \in {"unlink", "close"} \/ (c.op = "open" /\ c.failed)
            THEN [fds EXCEPT ![t][c.fd] = NULL] ELSE fds
  /\ cause' = IF c.op = "sync" THEN {"astray"} ELSE cause
  /\ call' = [call EXCEPT ![t] = Idle]

(* The disk has done its part; mutex_unlock switches only to a waiter.     *)
finish(t, failed) ==
  LET c == [call[t] EXCEPT !.failed = failed]
  IN  /\ call[t].step = "inside"
      /\ failed => call[t].op = "open"
      /\ opened' = IF c.op = "open" /\ ~failed THEN [opened EXCEPT ![c.file] = @ + 1] ELSE opened
      /\ mutex' = mutex_unlock
      /\ IF mutex.queue = << >>
         THEN Rest(t, c)
         ELSE /\ call' = [call EXCEPT ![t] = [c EXCEPT !.step = "left"]]
              /\ UNCHANGED <<ref, fds, cause>>
      /\ UNCHANGED <<mode, live, lost, calls>>

leave(t) ==
  /\ call[t].step = "left"
  /\ Rest(t, call[t])
  /\ UNCHANGED <<mode, live, mutex, opened, lost, calls>>

(* Mutant of Inherited: the parent's files are copied without a reference. *)
InheritUncounted(t) == ref

Inherited(t) == [e \in Entries |-> ref[e] + Cardinality({i \in Fds : fds[t][i] = e})]

(* alloc_task does not clear the structure, which may lie in frames that   *)
(* programs have used, and copy_open_files leaves the descriptors alone    *)
(* that the parent does not use.  When copy_memory fails the parent gets   *)
(* -1, but the child is in the ready queue and runs (see Sched).           *)
do_fork(t, u, clear) ==
  /\ t \in live /\ call[t] = Idle /\ u \notin live
  /\ ref' = Inherited(t)
  /\ fds' = [fds EXCEPT ![u] = [i \in Fds |-> IF fds[t][i] # NULL THEN fds[t][i]
                                              ELSE IF clear THEN NULL ELSE Wild]]
  /\ live' = live \cup {u}
  /\ cause' = IF fds'[u] = fds[t] THEN {} ELSE {"stale"}
  /\ Counted
  /\ UNCHANGED <<mode, call, mutex, opened, lost>>

(* A history ends with the first thing gone wrong.                         *)
Next ==
  /\ cause = {}
  /\ \/ /\ calls < MaxCalls
        /\ \E t \in Tasks :
             \/ \E m \in {O_RDONLY, O_WRONLY}, rooted \in BOOLEAN : sys_open(t, m, rooted)
             \/ \E rooted \in BOOLEAN : sys_unlink(t, rooted)
             \/ \E fd \in Fds : access(t, fd) \/ sys_close(t, fd)
             \/ sys_sync(t)
             \/ \E u \in Tasks, clear \in BOOLEAN : do_fork(t, u, clear)
     \/ \E t \in Tasks :
          \/ resume(t) \/ leave(t)
          \/ \E failed \in BOOLEAN : finish(t, failed)

Step(A) == cause = {} /\ A

(* The disk answers and the scheduler starves nobody.                      *)
Fairness ==
  \A t \in Tasks : /\ WF_vars(Step(resume(t)))
                   /\ WF_vars(Step(leave(t)))
                   /\ WF_vars(Step(\E failed \in BOOLEAN : finish(t, failed)))

Spec == Init /\ [][Next]_vars /\ Fairness

-----------------------------------------------------------------------------
Closing(t) == call[t].op = "close"

(* The descriptors that name e and are not being closed.                   *)
Named(e) == {x \in Tasks \X Fds :
               /\ fds[x[1]][x[2]] = e
               /\ ~(Closing(x[1]) /\ call[x[1]].fd = x[2])}

(* file_t.ref counts the descriptors that name the entry, through opens    *)
(* that fail, forks and closes that wait, and what opens without a free    *)
(* descriptor have lost, as long as file_table was not full and no child   *)
(* began with a descriptor its parent does not have.                       *)
RefsMatch ==
  cause \cap {"shared", "stale"} = {} =>
    \A e \in Entries : ref[e] = Cardinality(Named(e)) + lost[e]

(* While the last close of an entry waits for the mutex the entry may be   *)
(* given to another open, but ext2_open does not run on it before the close*)
(* is through, and ext2_close goes by the mode the file was opened with    *)
(* unless that other open waits behind it.                                 *)
CloseBeforeReuse ==
  \A t \in Tasks :
    Closing(t) /\ call[t].step # "left" =>
      /\ opened[call[t].file] = call[t].times
      /\ call[t].step = "inside" /\ call[t].saw # call[t].was =>
           \E u \in Tasks : /\ call[u].op = "open" /\ call[u].file = call[t].file
                            /\ call[u].step = "waiting"

(* Every call returns, closes that wait for the mutex among them, unless   *)
(* something went wrong before: mutex_unlock leaves no waiter behind.      *)
CallsReturn == \A t \in Tasks : call[t] # Idle ~> call[t] = Idle \/ cause # {}
=============================================================================
