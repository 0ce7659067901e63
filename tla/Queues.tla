------------------------------- MODULE Queues -------------------------------
(***************************************************************************)
(* The kernel's queues of tasks (lib/queue.c) as sequences, first to last. *)
(* Appending to a sequence is queue_insert_tail, Head is queue_first.      *)
(***************************************************************************)
EXTENDS Sequences, SequencesExt

(* Where t is in s.                                                        *)
Position(s, t) == CHOOSE i \in DOMAIN s : s[i] = t

(* queue_remove: t leaves the queue it is linked into, if it is in s.      *)
Without(s, t) == IF t \in Range(s) THEN RemoveAt(s, Position(s, t)) ELSE s

(* The members of S, which are members of s too, in the order of s.        *)
InOrder(s, S) ==
  {w \in [1 .. Cardinality(S) -> S] :
     /\ Range(w) = S
     /\ \A i, j \in DOMAIN w : i < j => Position(s, w[i]) < Position(s, w[j])}

(* A walk that takes its members out of s as it goes and steps over the one*)
(* behind each: past the last one it meets the head, steps over that, too, *)
(* and goes on with the first of what is left.                             *)
Drained(s) ==
  LET Round(w, k) ==
        LET left == RemoveAt(w.left, w.i)
        IN  IF w.i > Len(w.left) THEN w
            ELSE [taken |-> Append(w.taken, w.left[w.i]), left |-> left,
                  i |-> IF w.i <= Len(left) THEN w.i + 1 ELSE 1]
  IN  FoldLeft(Round, [taken |-> << >>, left |-> s, i |-> 1], s)
=============================================================================
