-------------------------------- MODULE Ring --------------------------------
(***************************************************************************)
(* The doubly linked rings of lib/queue.c and lib/list.c, pointer by       *)
(* pointer.  The two files hold the same code; list.c has list_insert more.*)
(*                                                                         *)
(* A head and a member are the same structure: two pointers, inside the    *)
(* queue variable or inside a task_t, a bb_t, ....  A member is a pair of  *)
(* uninitialised pointers until its first insertion (task_init links       *)
(* task->rq of a freshly allocated task).  Calls come from critical        *)
(* sections, so each is one action; the assignments of a call are made in  *)
(* the order of its statements, which matters when nodes coincide.         *)
(*                                                                         *)
(* `contents' is what the callers mean: the members, first to last.  It is *)
(* no part of the program; Linked says that the pointers agree with it.    *)
(***************************************************************************)
EXTENDS Integers, Queues

CONSTANTS
  Heads,   \* the queue variables
  Nodes    \* the nodes inside other structures

ASSUME RingAssumption == Heads \cap Nodes = {}

VARIABLES next, prev, contents

vars == <<next, prev, contents>>

Cells == Heads \cup Nodes

(* queue_init on every head; anything at all in the nodes.                 *)
Init ==
  /\ next \in {f \in [Cells -> Cells] : \A h \in Heads : f[h] = h}
  /\ prev \in {f \in [Cells -> Cells] : \A h \in Heads : f[h] = h}
  /\ contents = [h \in Heads |-> << >>]

Members == UNION {Range(contents[h]) : h \in Heads}

queue_insert_tail(head, q) ==
  /\ next' = [next EXCEPT ![q] = head, ![prev[head]] = q]
  /\ prev' = [prev EXCEPT ![q] = prev[head], ![head] = q]
  /\ contents' = [contents EXCEPT ![head] = Append(@, q)]

queue_insert_head(head, q) ==
  /\ next' = [next EXCEPT ![q] = next[head], ![head] = q]
  /\ prev' = [prev EXCEPT ![q] = head, ![next[head]] = q]
  /\ contents' = [contents EXCEPT ![head] = <<q>> \o @]

(* Mutant of queue_remove: the successor's back link is not repaired.      *)
QueueRemoveForward(q) ==
  /\ next' = [next EXCEPT ![prev[q]] = next[q], ![q] = q]
  /\ prev' = [prev EXCEPT ![q] = q]
  /\ contents' = [h \in Heads |-> Without(contents[h], q)]

queue_remove(q) ==
  /\ next' = [next EXCEPT ![prev[q]] = next[q], ![q] = q]
  /\ prev' = [prev EXCEPT ![next[q]] = prev[q], ![q] = q]
  /\ contents' = [h \in Heads |-> Without(contents[h], q)]

(* q after p: p->next is q by the time the last statement reads it.        *)
list_insert(p, q) ==
  /\ next' = [next EXCEPT ![q] = next[p], ![p] = q]
  /\ prev' = [prev EXCEPT ![q] = p, ![next'[p]] = q]
  /\ contents' = [h \in Heads |->
       IF p = h THEN <<q>> \o contents[h]
       ELSE IF p \in Range(contents[h])
            THEN InsertAt(contents[h], Position(contents[h], p) + 1, q)
            ELSE contents[h]]

(* Callers insert what is in no ring and remove what is in one.            *)
Next ==
  \/ \E h \in Heads, q \in Nodes \ Members : queue_insert_tail(h, q) \/ queue_insert_head(h, q)
  \/ \E q \in Members : queue_remove(q)

Spec == Init /\ [][Next]_vars

(* The same with list_insert, which nothing in the kernel calls.           *)
ListNext == Next \/ \E p \in Heads \cup Members, q \in Nodes \ Members : list_insert(p, q)

ListSpec == Init /\ [][ListNext]_vars

-----------------------------------------------------------------------------
TypeOK ==
  /\ next \in [Cells -> Cells]
  /\ prev \in [Cells -> Cells]
  /\ contents \in [Heads -> Seq(Nodes)]

(* A node is in one ring, once: what callers have to see to, and do.       *)
Disjoint ==
  /\ \A h \in Heads : IsInjective(contents[h])
  /\ \A g, h \in Heads : g # h => Range(contents[g]) \cap Range(contents[h]) = {}

(* The cell at place i of the ring of head h with members s: the head at   *)
(* 0 and again after the last member.                                      *)
At(s, h, i) == IF i \in DOMAIN s THEN s[i] ELSE h

(* The pointers are the sequence: going forward and going back from the    *)
(* head one meets exactly the members, in order, and returns to the head,  *)
(* whatever was inserted and removed before and whatever the pointers of   *)
(* the nodes outside hold.  Every walk over a queue relies on it.          *)
Linked ==
  \A h \in Heads : \A i \in 0 .. Len(contents[h]) :
    /\ next[At(contents[h], h, i)] = At(contents[h], h, i + 1)
    /\ prev[At(contents[h], h, i + 1)] = At(contents[h], h, i)

(* What list.c says of list_insert (lib/list.c:29, include/list.h:6): it   *)
(* inserts the node at the given place, so rings stay rings.               *)
InsertKeepsLinked == Linked
=============================================================================
