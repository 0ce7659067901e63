------------------------------ MODULE TickWalk ------------------------------
(***************************************************************************)
(* The walk over the sleep queue in task_tick, kernel/task.c, and the calls*)
(* that move a task between the ready and the sleep queue, with their      *)
(* pointers: task_sleep and task_wakeup take task->rq out of one ring and  *)
(* link it at the tail of another, task_wakeup while the walk stands on it.*)
(*                                                                         *)
(* The rings and their operations are those of Ring; a round of the walk   *)
(* is a few steps.  Everything here runs with interrupts off, so nothing   *)
(* comes between the steps of a walk or of a task_sleep.  What else they   *)
(* do, to states and slices, is in Sched.                                  *)
(***************************************************************************)
EXTENDS Ring

CONSTANTS
  ready_task_queue, sleep_task_queue,
  Boot,       \* the tasks, in the order task_init linked them: idle first
  MaxTicks    \* bound: the longest sleep

ASSUME TickWalkAssumption ==
  /\ {ready_task_queue, sleep_task_queue} \subseteq Heads
  /\ ready_task_queue # sleep_task_queue
  /\ IsInjective(Boot) /\ Range(Boot) \subseteq Nodes /\ Boot # << >>
  /\ MaxTicks \in Nat \ {0}

VARIABLES
  sleep_ticks,  \* of the task around each node
  pc,           \* where the walk stands
  q, succ,      \* its variables q and next
  before        \* history: the queues and the ticks when it began

tickVars == <<sleep_ticks, pc, q, succ, before>>

TickInit ==
  /\ contents = [h \in Heads |-> IF h = ready_task_queue THEN Boot ELSE << >>]
  /\ LET Ready(i) == IF i \in DOMAIN Boot THEN Boot[i] ELSE ready_task_queue
         Beside(c, first, d) == IF c = ready_task_queue THEN Ready(first)
                                ELSE IF c \in Range(Boot) THEN Ready(Position(Boot, c) + d) ELSE c
     IN  /\ next = [c \in Cells |-> Beside(c, 1, 1)]
         /\ prev = [c \in Cells |-> Beside(c, Len(Boot), -1)]
  /\ sleep_ticks = [t \in Nodes |-> 0]
  /\ pc = "user"
  /\ q = sleep_task_queue /\ succ = sleep_task_queue
  /\ before = [contents |-> contents, sleep_ticks |-> sleep_ticks]

(* task_sleep takes the node out of the ready queue ...  It is the current *)
(* task's, wherever that stands; the idle task only halts.                 *)
task_sleep(t, ticks) ==
  /\ pc = "user" /\ t \in Range(contents[ready_task_queue]) \ {Boot[1]}
  /\ sleep_ticks' = [sleep_ticks EXCEPT ![t] = ticks]
  /\ queue_remove(t)
  /\ q' = t /\ pc' = "sleep"
  /\ UNCHANGED <<succ, before>>

(* ... and links it into the other.                                        *)
task_sleep_insert ==
  /\ pc = "sleep"
  /\ queue_insert_tail(sleep_task_queue, q)
  /\ q' = sleep_task_queue /\ pc' = "user"
  /\ UNCHANGED <<sleep_ticks, succ, before>>

(* The walk begins with the first sleeper.                                 *)
walk_start ==
  /\ pc = "user"
  /\ q' = next[sleep_task_queue] /\ pc' = "test"
  /\ before' = [contents |-> contents, sleep_ticks |-> sleep_ticks]
  /\ UNCHANGED <<vars, sleep_ticks, succ>>

(* A round reads the successor first, then counts the sleeper's tick.  A   *)
(* head is no part of a task: a walk that meets the ready queue's is lost. *)
walk_round ==
  /\ pc = "test"
  /\ IF q \in Nodes
     THEN /\ succ' = next[q]
          /\ sleep_ticks' = [sleep_ticks EXCEPT ![q] = @ - 1]
          /\ pc' = IF sleep_ticks'[q] = 0 THEN "wakeup" ELSE "advance"
     ELSE /\ pc' = IF q = sleep_task_queue THEN "done" ELSE "lost"
          /\ UNCHANGED <<succ, sleep_ticks>>
  /\ UNCHANGED <<vars, q, before>>

(* task_wakeup: the node under the walk leaves the sleep queue ...         *)
task_wakeup ==
  /\ pc = "wakeup" /\ queue_remove(q) /\ pc' = "insert"
  /\ UNCHANGED <<sleep_ticks, q, succ, before>>

(* ... for the tail of the ready queue.                                    *)
task_wakeup_insert ==
  /\ pc = "insert" /\ queue_insert_tail(ready_task_queue, q) /\ pc' = "advance"
  /\ UNCHANGED <<sleep_ticks, q, succ, before>>

(* Mutant of walk_advance: the successor is read after task_wakeup.        *)
AdvanceFromNode ==
  /\ pc = "advance" /\ q' = next[q] /\ pc' = "test"
  /\ UNCHANGED <<vars, sleep_ticks, succ, before>>

walk_advance ==
  /\ pc = "advance" /\ q' = succ /\ pc' = "test"
  /\ UNCHANGED <<vars, sleep_ticks, succ, before>>

(* task_tick is through with the sleepers.                                 *)
walk_end ==
  /\ pc = "done" /\ pc' = "user"
  /\ UNCHANGED <<vars, sleep_ticks, q, succ, before>>

TickNext ==
  \/ \E t \in Range(Boot), ticks \in 1 .. MaxTicks : task_sleep(t, ticks)
  \/ task_sleep_insert
  \/ walk_start \/ walk_round \/ task_wakeup \/ task_wakeup_insert \/ walk_advance \/ walk_end

TickSpec == TickInit /\ [][TickNext]_<<vars, tickVars>>

-----------------------------------------------------------------------------
(* The tasks that slept when the walk began, and those with a tick left.   *)
Slept == before.contents[sleep_task_queue]
Due   == {t \in Range(Slept) : before.sleep_ticks[t] = 1}

(* What a tick does to the sleepers, whichever of them are due and wherever*)
(* they stand in the ring: each of them has one tick less and no other task*)
(* has, those whose last it was are behind the ready tasks in the order    *)
(* they slept in, the others still sleep, in order, as Sched has it in one *)
(* step; and the walk comes back to its head, it never leaves for the ready*)
(* queue with the node it woke.                                            *)
EverySleeperOnce ==
  /\ pc # "lost"
  /\ pc = "done" =>
       /\ sleep_ticks = [t \in Nodes |->
            IF t \in Range(Slept) THEN before.sleep_ticks[t] - 1 ELSE before.sleep_ticks[t]]
       /\ contents[sleep_task_queue] = SelectSeq(Slept, LAMBDA t : t \notin Due)
       /\ contents[ready_task_queue] =
            before.contents[ready_task_queue] \o SelectSeq(Slept, LAMBDA t : t \in Due)
=============================================================================
