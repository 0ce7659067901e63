----------------------------- MODULE RingProofs -----------------------------
(***************************************************************************)
(* The pointer code of lib/queue.c implements sequences, for any number of *)
(* queues and nodes: module Sched may therefore treat queues as sequences. *)
(***************************************************************************)
EXTENDS Ring, BasicLemmas

IInv == TypeOK /\ Disjoint /\ Linked

(* The cells of a ring: its members at 1 .. n, its head anywhere else.     *)
LEMMA AtProperties ==
  ASSUME NEW s \in Seq(Nodes), NEW h \in Heads
  PROVE  /\ Len(s) \in Nat
         /\ \A i \in 1 .. Len(s) :
              At(s, h, i) = s[i] /\ At(s, h, i) \in Nodes /\ At(s, h, i) \in Range(s)
         /\ \A i \in Int : i \notin 1 .. Len(s) => At(s, h, i) = h
         /\ \A i \in Int : At(s, h, i) \in Cells
<1>1. Len(s) \in Nat /\ s \in [1 .. Len(s) -> Nodes] /\ DOMAIN s = 1 .. Len(s)
  BY LenProperties
<1>2. \A i \in 1 .. Len(s) : s[i] \in Nodes /\ s[i] \in Range(s)
  BY <1>1 DEF Range
<1> QED BY <1>1, <1>2 DEF At, Cells

(* No cell occurs at two places of a ring, nor in two rings.               *)
LEMMA CellsDistinct ==
  ASSUME TypeOK, Disjoint, NEW g \in Heads, NEW h \in Heads,
         NEW i \in 0 .. Len(contents[g]), NEW j \in 0 .. Len(contents[h]),
         At(contents[g], g, i) = At(contents[h], h, j)
  PROVE  g = h /\ i = j
<1> DEFINE s == contents[g]
           t == contents[h]
<1>1. s \in Seq(Nodes) /\ t \in Seq(Nodes)
  BY DEF TypeOK
<1>2. /\ Len(s) \in Nat /\ Len(t) \in Nat
      /\ i # 0 => At(s, g, i) = s[i] /\ At(s, g, i) \in Nodes /\ At(s, g, i) \in Range(s)
      /\ j # 0 => At(t, h, j) = t[j] /\ At(t, h, j) \in Nodes /\ At(t, h, j) \in Range(t)
      /\ i = 0 => At(s, g, i) = g
      /\ j = 0 => At(t, h, j) = h
  BY <1>1, AtProperties
<1>3. CASE i = 0 \/ j = 0
  BY <1>2, <1>3, RingAssumption
<1>4. CASE i # 0 /\ j # 0
  <2>1. g = h
    BY <1>2, <1>4 DEF Disjoint
  <2>2. IsInjective(t) /\ DOMAIN t = 1 .. Len(t)
    BY <1>1, LenProperties DEF Disjoint
  <2>3. i = j
    BY <1>2, <1>4, <2>1, <2>2 DEF IsInjective
  <2> QED BY <2>1, <2>3
<1> QED BY <1>3, <1>4

(* The neighbours of the head are at places 1 and n of its ring.           *)
LEMMA HeadLinks ==
  ASSUME IInv, NEW h \in Heads
  PROVE  /\ next[h] = At(contents[h], h, 1)
         /\ prev[h] = At(contents[h], h, Len(contents[h]))
<1>1. contents[h] \in Seq(Nodes)
  BY DEF IInv, TypeOK
<1>2. /\ Len(contents[h]) \in Nat
      /\ At(contents[h], h, 0) = h
      /\ At(contents[h], h, Len(contents[h]) + 1) = h
  BY <1>1, AtProperties
<1> QED BY <1>2 DEF IInv, Linked

(* The cells of one ring, and a node in none of the others.                *)
RingCells(h, q) == {q} \cup {At(contents[h], h, i) : i \in 0 .. Len(contents[h])}

(* A call that writes only to cells of one ring, or to the node it moves,  *)
(* leaves the other rings as they are.                                     *)
LEMMA OtherRings ==
  ASSUME IInv, NEW head \in Heads, NEW q \in Nodes,
         \A h \in Heads \ {head} : q \notin Range(contents[h]) /\ contents'[h] = contents[h],
         \A c \in Cells \ RingCells(head, q) : next'[c] = next[c] /\ prev'[c] = prev[c],
         NEW h \in Heads \ {head}, NEW i \in 0 .. Len(contents'[h])
  PROVE  /\ next'[At(contents'[h], h, i)] = At(contents'[h], h, i + 1)
         /\ prev'[At(contents'[h], h, i + 1)] = At(contents'[h], h, i)
<1> DEFINE s == contents[h]
<1>1. s \in Seq(Nodes) /\ contents'[h] = s /\ i \in 0 .. Len(s) /\ Len(s) \in Nat
  BY LenProperties DEF IInv, TypeOK
<1>2. ASSUME NEW j \in 0 .. Len(s)
      PROVE  At(s, h, j) \in Cells \ RingCells(head, q)
  <2>1. At(s, h, j) # q
    BY <1>1, AtProperties, RingAssumption
  <2>2. \A k \in 0 .. Len(contents[head]) : At(s, h, j) # At(contents[head], head, k)
    BY CellsDistinct DEF IInv
  <2> QED BY <1>1, <2>1, <2>2, AtProperties DEF RingCells
<1>3. At(s, h, i + 1) \in Cells \ RingCells(head, q)
  <2>1. CASE i < Len(s)
    BY <2>1, <1>1, <1>2
  <2>2. CASE i = Len(s)
    <3>1. At(s, h, i + 1) = At(s, h, 0)
      BY <2>2, <1>1, AtProperties
    <3> QED BY <3>1, <1>1, <1>2
  <2> QED BY <1>1, <2>1, <2>2
<1>4. next[At(s, h, i)] = At(s, h, i + 1) /\ prev[At(s, h, i + 1)] = At(s, h, i)
  BY <1>1 DEF IInv, Linked
<1> QED BY <1>1, <1>2, <1>3, <1>4

(* One ring's contents change, to a list that gains nothing but the node.  *)
LEMMA OneRingChanges ==
  ASSUME IInv, NEW head \in Heads, NEW q,
         contents' \in [Heads -> Seq(Nodes)],
         \A h \in Heads \ {head} : q \notin Range(contents[h]) /\ contents'[h] = contents[h],
         IsInjective(contents'[head]),
         Range(contents'[head]) \subseteq Range(contents[head]) \cup {q}
  PROVE  Disjoint'
<1>1. \A h \in Heads : IsInjective(contents'[h])
  BY DEF IInv, Disjoint
<1>2. ASSUME NEW g \in Heads, NEW h \in Heads, g # h
      PROVE  Range(contents'[g]) \cap Range(contents'[h]) = {}
  <2>1. Range(contents[g]) \cap Range(contents[h]) = {}
    BY <1>2 DEF IInv, Disjoint
  <2>2. CASE g = head
    <3>1. q \notin Range(contents[h]) /\ contents'[h] = contents[h]
      BY <1>2, <2>2
    <3> QED BY <2>1, <2>2, <3>1
  <2>3. CASE h = head
    <3>1. q \notin Range(contents[g]) /\ contents'[g] = contents[g]
      BY <1>2, <2>3
    <3> QED BY <2>1, <2>3, <3>1
  <2>4. CASE g # head /\ h # head
    <3>1. contents'[g] = contents[g] /\ contents'[h] = contents[h]
      BY <2>4
    <3> QED BY <2>1, <3>1
  <2> QED BY <2>2, <2>3, <2>4
<1> QED BY <1>1, <1>2 DEF Disjoint

(* The last step of each operation: its own ring is linked, so all are.    *)
LEMMA RingsLinked ==
  ASSUME IInv, NEW head \in Heads, NEW q \in Nodes,
         \A h \in Heads \ {head} : q \notin Range(contents[h]) /\ contents'[h] = contents[h],
         \A c \in Cells \ RingCells(head, q) : next'[c] = next[c] /\ prev'[c] = prev[c],
         \A i \in 0 .. Len(contents'[head]) :
           /\ next'[At(contents'[head], head, i)] = At(contents'[head], head, i + 1)
           /\ prev'[At(contents'[head], head, i + 1)] = At(contents'[head], head, i)
  PROVE  Linked'
<1> SUFFICES ASSUME NEW h \in Heads, NEW i \in 0 .. Len(contents'[h])
             PROVE  /\ next'[At(contents'[h], h, i)] = At(contents'[h], h, i + 1)
                    /\ prev'[At(contents'[h], h, i + 1)] = At(contents'[h], h, i)
  BY DEF Linked, At
<1>1. CASE h = head
  BY <1>1
<1>2. CASE h # head
  BY <1>2, OtherRings
<1> QED BY <1>1, <1>2

(* Places 0 .. n of a ring hold different cells, and n + 1 is 0 again.     *)
LEMMA PlacesDistinct ==
  ASSUME IInv, NEW h \in Heads
  PROVE  /\ \A i, j \in 0 .. Len(contents[h]) :
              i # j => At(contents[h], h, i) # At(contents[h], h, j)
         /\ At(contents[h], h, Len(contents[h]) + 1) = At(contents[h], h, 0)
         /\ At(contents[h], h, 0) = h
<1>1. contents[h] \in Seq(Nodes)
  BY DEF IInv, TypeOK
<1>2. \A i, j \in 0 .. Len(contents[h]) :
        i # j => At(contents[h], h, i) # At(contents[h], h, j)
  BY CellsDistinct DEF IInv
<1> QED BY <1>1, <1>2, AtProperties

LEMMA InsertTailKeepsIInv ==
  ASSUME IInv, NEW head \in Heads, NEW q \in Nodes \ Members, queue_insert_tail(head, q)
  PROVE  IInv'
<1> DEFINE s == contents[head]
           t == contents'[head]
           n == Len(s)
<1>1. /\ s \in Seq(Nodes) /\ n \in Nat /\ IsInjective(s)
      /\ \A h \in Heads : q \notin Range(contents[h])
      /\ prev[head] = At(s, head, n) /\ head = At(s, head, 0)
      /\ \A i \in 0 .. n + 1 : At(s, head, i) # q
  BY AtProperties, HeadLinks, RingAssumption DEF IInv, TypeOK, Disjoint, Members
<1>2. prev[head] \in Cells /\ head \in Cells /\ q \in Cells /\ prev[head] # q /\ head # q
  BY <1>1, AtProperties DEF Cells
<1>3. /\ contents' = [contents EXCEPT ![head] = Append(s, q)]
      /\ t = Append(s, q)
      /\ \A h \in Heads \ {head} : contents'[h] = contents[h]
  BY DEF queue_insert_tail, IInv, TypeOK
<1>4. Lists(t, Nodes, Range(s) \cup {q})
  BY <1>1, <1>3, InsertTailProperties
<1>5. contents' \in [Heads -> Seq(Nodes)] /\ Disjoint'
  <2>1. contents' \in [Heads -> Seq(Nodes)]
    BY <1>1, <1>3, <1>4 DEF IInv, TypeOK, Lists
  <2> QED BY <1>1, <1>3, <1>4, <2>1, OneRingChanges DEF Lists
<1>6. /\ \A c \in Cells : next'[c] = IF c = prev[head] THEN q ELSE IF c = q THEN head ELSE next[c]
      /\ \A c \in Cells : prev'[c] = IF c = head THEN q ELSE IF c = q THEN prev[head] ELSE prev[c]
      /\ next' \in [Cells -> Cells] /\ prev' \in [Cells -> Cells]
  BY <1>2 DEF queue_insert_tail, IInv, TypeOK
<1>7. /\ Len(t) = n + 1
      /\ \A i \in 0 .. n : At(t, head, i) = At(s, head, i)
      /\ At(t, head, n + 1) = q
      /\ At(t, head, n + 2) = head
  <2>1. /\ Len(t) = n + 1 /\ DOMAIN t = 1 .. n + 1 /\ DOMAIN s = 1 .. n
        /\ \A i \in 1 .. n : t[i] = s[i]
        /\ t[n + 1] = q
    BY <1>1, <1>3, <1>4, AppendProperties DEF Lists
  <2> HIDE DEF s, t, n
  <2> QED BY <1>1, <2>1 DEF At
<1>8. ASSUME NEW i \in 0 .. n + 1
      PROVE  next'[At(t, head, i)] = At(t, head, i + 1) /\ prev'[At(t, head, i + 1)] = At(t, head, i)
  <2>1. CASE i < n
    <3>1. /\ At(t, head, i) = At(s, head, i) /\ At(t, head, i + 1) = At(s, head, i + 1)
          /\ At(s, head, i) \in Cells /\ At(s, head, i + 1) \in Cells
          /\ At(s, head, i) # q /\ At(s, head, i + 1) # q
      BY <2>1, <1>1, <1>7, AtProperties
    <3>2. At(s, head, i) # prev[head] /\ At(s, head, i + 1) # head
      <4>1. \A j, k \in 0 .. n : j # k => At(s, head, j) # At(s, head, k)
        BY PlacesDistinct
      <4> HIDE DEF s, t, n
      <4>2. i \in 0 .. n /\ i + 1 \in 0 .. n /\ n \in 0 .. n /\ 0 \in 0 .. n /\ i # n /\ i + 1 # 0
        BY <2>1, <1>1
      <4>3. At(s, head, i) # At(s, head, n) /\ At(s, head, i + 1) # At(s, head, 0)
        BY <4>1, <4>2
      <4> QED BY <1>1, <4>3
    <3>3. /\ next[At(s, head, i)] = At(s, head, i + 1)
          /\ prev[At(s, head, i + 1)] = At(s, head, i)
      BY <2>1, <1>1 DEF IInv, Linked
    <3> QED BY <1>6, <3>1, <3>2, <3>3
  <2>2. CASE i = n
    <3>1. At(t, head, i) = prev[head] /\ At(t, head, i + 1) = q
      BY <2>2, <1>1, <1>7
    <3> QED BY <1>2, <1>6, <3>1
  <2>3. CASE i = n + 1
    <3>1. At(t, head, i) = q /\ At(t, head, i + 1) = head
      BY <2>3, <1>1, <1>7
    <3> QED BY <1>2, <1>6, <3>1
  <2> QED BY <1>1, <2>1, <2>2, <2>3
<1>9. \A c \in Cells \ RingCells(head, q) : next'[c] = next[c] /\ prev'[c] = prev[c]
  BY <1>1, <1>6 DEF RingCells
<1>10. Linked'
  BY <1>1, <1>3, <1>7, <1>8, <1>9, RingsLinked
<1> QED BY <1>5, <1>6, <1>10 DEF IInv, TypeOK, Cells

LEMMA InsertHeadKeepsIInv ==
  ASSUME IInv, NEW head \in Heads, NEW q \in Nodes \ Members, queue_insert_head(head, q)
  PROVE  IInv'
<1> DEFINE s == contents[head]
           t == contents'[head]
           n == Len(s)
<1>1. /\ s \in Seq(Nodes) /\ n \in Nat /\ IsInjective(s)
      /\ \A h \in Heads : q \notin Range(contents[h])
      /\ next[head] = At(s, head, 1) /\ head = At(s, head, 0)
      /\ \A i \in 0 .. n + 1 : At(s, head, i) # q
  BY AtProperties, HeadLinks, RingAssumption DEF IInv, TypeOK, Disjoint, Members
<1>2. next[head] \in Cells /\ head \in Cells /\ q \in Cells /\ next[head] # q /\ head # q
  BY <1>1, AtProperties DEF Cells
<1>3. /\ contents' = [contents EXCEPT ![head] = <<q>> \o s]
      /\ t = <<q>> \o s
      /\ \A h \in Heads \ {head} : contents'[h] = contents[h]
  BY DEF queue_insert_head, IInv, TypeOK
<1>4. /\ Lists(t, Nodes, Range(s) \cup {q})
      /\ Len(t) = n + 1
      /\ t[1] = q
      /\ \A i \in 2 .. n + 1 : t[i] = s[i - 1]
  <2>1. /\ <<q>> \in Seq(Nodes) /\ Len(<<q>>) = 1 /\ <<q>>[1] = q
        /\ IsInjective(<<q>>) /\ Range(<<q>>) = {q}
    BY DEF IsInjective, Range
  <2>2. Lists(<<q>> \o s, Nodes, {q} \cup Range(s))
    BY <1>1, <2>1, ConcatLists
  <2>3. /\ Len(<<q>> \o s) = 1 + n
        /\ \A i \in 1 .. 1 + n : (<<q>> \o s)[i] = IF i <= 1 THEN <<q>>[i] ELSE s[i - 1]
    BY <1>1, <2>1, ConcatProperties
  <2> HIDE DEF s, t, n
  <2>4. t = <<q>> \o s
    BY <1>3 DEF s, t
  <2>5. Len(t) = n + 1 /\ t[1] = q /\ \A i \in 2 .. n + 1 : t[i] = s[i - 1]
    BY <1>1, <2>1, <2>3, <2>4
  <2> QED BY <2>2, <2>4, <2>5
<1>5. contents' \in [Heads -> Seq(Nodes)] /\ Disjoint'
  <2>1. contents' \in [Heads -> Seq(Nodes)]
    BY <1>1, <1>3, <1>4 DEF IInv, TypeOK, Lists
  <2> QED BY <1>1, <1>3, <1>4, <2>1, OneRingChanges DEF Lists
<1>6. /\ \A c \in Cells : next'[c] = IF c = head THEN q ELSE IF c = q THEN next[head] ELSE next[c]
      /\ \A c \in Cells : prev'[c] = IF c = next[head] THEN q ELSE IF c = q THEN head ELSE prev[c]
      /\ next' \in [Cells -> Cells] /\ prev' \in [Cells -> Cells]
  BY <1>2 DEF queue_insert_head, IInv, TypeOK
<1>7. /\ At(t, head, 0) = head
      /\ At(t, head, 1) = q
      /\ \A i \in 2 .. n + 2 : At(t, head, i) = At(s, head, i - 1)
  <2>1. DOMAIN t = 1 .. n + 1 /\ DOMAIN s = 1 .. n
    BY <1>1, <1>4, LenProperties DEF Lists
  <2> HIDE DEF s, t, n
  <2> QED BY <1>1, <1>4, <2>1 DEF At
<1>8. ASSUME NEW i \in 0 .. n + 1
      PROVE  next'[At(t, head, i)] = At(t, head, i + 1) /\ prev'[At(t, head, i + 1)] = At(t, head, i)
  <2>1. CASE i = 0
    <3>1. At(t, head, i) = head /\ At(t, head, i + 1) = q
      BY <2>1, <1>7
    <3> QED BY <1>2, <1>6, <3>1
  <2>2. CASE i = 1
    <3>1. At(t, head, i) = q /\ At(t, head, i + 1) = next[head]
      BY <2>2, <1>1, <1>7
    <3> QED BY <1>2, <1>6, <3>1
  <2>3. CASE i > 1
    <3>1. /\ At(t, head, i) = At(s, head, i - 1) /\ At(t, head, i + 1) = At(s, head, i)
          /\ At(s, head, i - 1) \in Cells /\ At(s, head, i) \in Cells
          /\ At(s, head, i - 1) # q /\ At(s, head, i) # q
      BY <2>3, <1>1, <1>7, AtProperties
    <3>2. At(s, head, i - 1) # head
      BY <2>3, <1>1, PlacesDistinct
    <3>3. At(s, head, i) # next[head]
      <4>1. CASE i <= n
        BY <4>1, <2>3, <1>1, PlacesDistinct
      <4>2. CASE i = n + 1
        <5>1. At(s, head, i) = At(s, head, 0)
          BY <4>2, PlacesDistinct
        <5> QED BY <5>1, <4>2, <2>3, <1>1, PlacesDistinct
      <4> QED BY <4>1, <4>2, <1>1
    <3>4. /\ next[At(s, head, i - 1)] = At(s, head, i)
          /\ prev[At(s, head, i)] = At(s, head, i - 1)
      <4>1. i - 1 \in 0 .. n /\ (i - 1) + 1 = i
        BY <2>3, <1>1
      <4> QED BY <4>1 DEF IInv, Linked
    <3> QED BY <1>6, <3>1, <3>2, <3>3, <3>4
  <2> QED BY <1>1, <2>1, <2>2, <2>3
<1>9. \A c \in Cells \ RingCells(head, q) : next'[c] = next[c] /\ prev'[c] = prev[c]
  <2>1. next[head] \in RingCells(head, q)
    <3>1. CASE n = 0
      BY <3>1, <1>1, PlacesDistinct DEF RingCells
    <3>2. CASE n # 0
      BY <3>2, <1>1 DEF RingCells
    <3> QED BY <3>1, <3>2
  <2>2. head \in RingCells(head, q) /\ q \in RingCells(head, q)
    BY <1>1 DEF RingCells
  <2> QED BY <1>6, <2>1, <2>2
<1>10. Linked'
  BY <1>1, <1>3, <1>4, <1>8, <1>9, RingsLinked
<1> QED BY <1>5, <1>6, <1>10 DEF IInv, TypeOK, Cells

LEMMA RemoveKeepsIInv ==
  ASSUME IInv, NEW q \in Members, queue_remove(q)
  PROVE  IInv'
<1>1. PICK head \in Heads : q \in Range(contents[head])
  BY DEF Members
<1> DEFINE s == contents[head]
           t == contents'[head]
           n == Len(s)
           k == Position(s, q)
<1>2. /\ s \in Seq(Nodes) /\ n \in Nat /\ IsInjective(s)
      /\ k \in 1 .. n /\ s[k] = q /\ At(s, head, k) = q /\ q \in Nodes
      /\ head = At(s, head, 0)
      /\ \A h \in Heads \ {head} : q \notin Range(contents[h])
  <2>1. s \in Seq(Nodes) /\ IsInjective(s)
    BY DEF IInv, TypeOK, Disjoint
  <2>2. k \in 1 .. n /\ s[k] = q
    BY <1>1, <2>1, PositionProperties
  <2>3. \A h \in Heads \ {head} : q \notin Range(contents[h])
    BY <1>1 DEF IInv, Disjoint
  <2> HIDE DEF k
  <2> QED BY <2>1, <2>2, <2>3, AtProperties
<1> HIDE DEF k
<1>3. /\ prev[q] = At(s, head, k - 1) /\ next[q] = At(s, head, k + 1)
      /\ prev[q] # q /\ next[q] # q
      /\ prev[q] \in Cells /\ next[q] \in Cells /\ q \in Cells
  <2>1. k - 1 \in 0 .. n /\ (k - 1) + 1 = k /\ k \in 0 .. n /\ 0 \in 0 .. n
    BY <1>2
  <2>2. prev[q] = At(s, head, k - 1) /\ next[q] = At(s, head, k + 1)
    BY <1>2, <2>1 DEF IInv, Linked
  <2>3. At(s, head, k - 1) # q
    BY <1>2, <2>1, PlacesDistinct
  <2>4. At(s, head, k + 1) # q
    <3>1. CASE k < n
      BY <3>1, <1>2, PlacesDistinct
    <3>2. CASE k = n
      BY <3>2, <1>2, <2>1, PlacesDistinct
    <3> QED BY <1>2, <3>1, <3>2
  <2> QED BY <1>2, <2>2, <2>3, <2>4, AtProperties DEF Cells
<1>4. /\ contents' = [h \in Heads |-> Without(contents[h], q)]
      /\ \A h \in Heads \ {head} : contents'[h] = contents[h]
      /\ t = RemoveAt(s, k)
      /\ Lists(t, Nodes, Range(s) \ {q})
  <2>1. \A h \in Heads \ {head} : contents'[h] = contents[h]
    BY <1>2 DEF queue_remove, Without
  <2>2. t = Without(s, q) /\ Without(s, q) = RemoveAt(s, k)
    BY <1>1 DEF queue_remove, Without, k
  <2>3. Lists(Without(s, q), Nodes, Range(s) \ {q})
    BY <1>2, WithoutProperties
  <2> QED BY <2>1, <2>2, <2>3 DEF queue_remove
<1>5. /\ Len(t) = n - 1
      /\ \A i \in 0 .. n : At(t, head, i) = IF i < k THEN At(s, head, i) ELSE At(s, head, i + 1)
  <2>1. /\ Len(t) = n - 1
        /\ \A j \in 1 .. n - 1 : t[j] = IF j < k THEN s[j] ELSE s[j + 1]
    <3> HIDE DEF s, t, n
    <3>1. /\ Len(RemoveAt(s, k)) = Len(s) - 1
          /\ \A j \in 1 .. Len(s) - 1 : RemoveAt(s, k)[j] = IF j < k THEN s[j] ELSE s[j + 1]
      BY <1>2, RemoveAtProperties DEF n
    <3> QED BY <1>4, <3>1 DEF n
  <2>2. DOMAIN t = 1 .. n - 1 /\ DOMAIN s = 1 .. n
    BY <1>2, <1>4, <2>1, LenProperties DEF Lists
  <2> HIDE DEF s, t, n
  <2> QED BY <1>2, <2>1, <2>2 DEF At
<1>6. contents' \in [Heads -> Seq(Nodes)] /\ Disjoint'
  <2>1. \A h \in Heads : contents'[h] \in Seq(Nodes)
    BY <1>4 DEF Lists, IInv, TypeOK
  <2>2. contents' \in [Heads -> Seq(Nodes)]
    BY <1>4, <2>1
  <2> QED BY <1>2, <1>4, <2>2, OneRingChanges DEF Lists
<1>7. /\ \A c \in Cells : next'[c] = IF c = q THEN q ELSE IF c = prev[q] THEN next[q] ELSE next[c]
      /\ \A c \in Cells : prev'[c] = IF c = q THEN q ELSE IF c = next[q] THEN prev[q] ELSE prev[c]
      /\ next' \in [Cells -> Cells] /\ prev' \in [Cells -> Cells]
  BY <1>3 DEF queue_remove, IInv, TypeOK
<1>8. ASSUME NEW i \in 0 .. n - 1
      PROVE  next'[At(t, head, i)] = At(t, head, i + 1) /\ prev'[At(t, head, i + 1)] = At(t, head, i)
  <2>1. CASE i < k - 1
    <3>1. At(t, head, i) = At(s, head, i) /\ At(t, head, i + 1) = At(s, head, i + 1)
      BY <2>1, <1>2, <1>5, SMTT(60)
    <3>2. /\ At(s, head, i) # q /\ At(s, head, i) # prev[q]
          /\ At(s, head, i + 1) # q
      BY <2>1, <1>2, <1>3, PlacesDistinct
    <3>3. At(s, head, i + 1) # next[q]
      <4>1. CASE k < n
        BY <4>1, <2>1, <1>2, <1>3, PlacesDistinct
      <4>2. CASE k = n
        BY <4>2, <2>1, <1>2, <1>3, PlacesDistinct
      <4> QED BY <1>2, <4>1, <4>2
    <3>4. /\ next[At(s, head, i)] = At(s, head, i + 1)
          /\ prev[At(s, head, i + 1)] = At(s, head, i)
      BY <1>2 DEF IInv, Linked
    <3>5. At(s, head, i) \in Cells /\ At(s, head, i + 1) \in Cells
      BY <1>2, AtProperties
    <3> QED BY <1>7, <3>1, <3>2, <3>3, <3>4, <3>5
  <2>2. CASE i = k - 1
    <3>1. At(t, head, i) = prev[q] /\ At(t, head, i + 1) = next[q]
      BY <2>2, <1>2, <1>3, <1>5
    <3> QED BY <1>3, <1>7, <3>1
  <2>3. CASE i >= k
    <3>1. At(t, head, i) = At(s, head, i + 1) /\ At(t, head, i + 1) = At(s, head, i + 2)
      <4>1. i + 1 \in 0 .. n /\ i \in 0 .. n /\ ~ (i < k) /\ ~ (i + 1 < k) /\ (i + 1) + 1 = i + 2
        BY <2>3, <1>2
      <4> QED BY <4>1, <1>5
    <3>2. At(s, head, i + 1) # q /\ At(s, head, i + 1) # prev[q]
      BY <2>3, <1>2, <1>3, PlacesDistinct
    <3>3. At(s, head, i + 2) # q /\ At(s, head, i + 2) # next[q]
      <4>1. CASE i + 2 <= n
        BY <4>1, <2>3, <1>2, <1>3, PlacesDistinct
      <4>2. CASE i + 2 = n + 1
        <5>1. At(s, head, i + 2) = At(s, head, 0)
          BY <4>2, PlacesDistinct
        <5> QED BY <5>1, <4>2, <2>3, <1>2, <1>3, PlacesDistinct
      <4> QED BY <1>2, <4>1, <4>2
    <3>4. /\ next[At(s, head, i + 1)] = At(s, head, i + 2)
          /\ prev[At(s, head, i + 2)] = At(s, head, i + 1)
      <4>1. i + 1 \in 0 .. n /\ (i + 1) + 1 = i + 2
        BY <1>2
      <4> QED BY <4>1 DEF IInv, Linked
    <3>5. At(s, head, i + 1) \in Cells /\ At(s, head, i + 2) \in Cells
      BY <1>2, AtProperties
    <3> QED BY <1>7, <3>1, <3>2, <3>3, <3>4, <3>5
  <2> QED BY <1>2, <2>1, <2>2, <2>3
<1>9. \A c \in Cells \ RingCells(head, q) : next'[c] = next[c] /\ prev'[c] = prev[c]
  <2>1. prev[q] \in RingCells(head, q)
    BY <1>2, <1>3 DEF RingCells
  <2>2. next[q] \in RingCells(head, q)
    <3>1. CASE k < n
      BY <3>1, <1>2, <1>3 DEF RingCells
    <3>2. CASE k = n
      BY <3>2, <1>2, <1>3, PlacesDistinct DEF RingCells
    <3> QED BY <1>2, <3>1, <3>2
  <2>3. q \in RingCells(head, q)
    BY DEF RingCells
  <2> QED BY <1>7, <2>1, <2>2, <2>3
<1>10. Linked'
  BY <1>2, <1>4, <1>5, <1>8, <1>9, RingsLinked
<1> QED BY <1>6, <1>7, <1>10 DEF IInv, TypeOK, Cells

-----------------------------------------------------------------------------
(* For any number of queues and nodes and any garbage in fresh nodes, the  *)
(* pointers of every ring spell out exactly its members in order after any *)
(* sequence of queue_insert_head, queue_insert_tail and queue_remove.      *)
THEOREM RingsAreQueues ==
  Spec => []Linked
<1>1. Init => IInv
  <2> SUFFICES ASSUME Init PROVE IInv
    OBVIOUS
  <2>1. \A h \in Heads : contents[h] = << >> /\ next[h] = h /\ prev[h] = h
    BY DEF Init, Cells
  <2>2. TypeOK
    BY DEF Init, TypeOK
  <2>3. Disjoint
    BY <2>1 DEF Disjoint, IsInjective, Range
  <2>4. Linked
    BY <2>1 DEF Linked, At
  <2> QED BY <2>2, <2>3, <2>4 DEF IInv
<1>2. IInv /\ [Next]_vars => IInv'
  <2> SUFFICES ASSUME IInv, [Next]_vars PROVE IInv'
    OBVIOUS
  <2>1. ASSUME NEW h \in Heads, NEW q \in Nodes \ Members, queue_insert_tail(h, q) PROVE IInv'
    BY <2>1, InsertTailKeepsIInv
  <2>2. ASSUME NEW h \in Heads, NEW q \in Nodes \ Members, queue_insert_head(h, q) PROVE IInv'
    BY <2>2, InsertHeadKeepsIInv
  <2>3. ASSUME NEW q \in Members, queue_remove(q) PROVE IInv'
    BY <2>3, RemoveKeepsIInv
  <2>4. CASE UNCHANGED vars
    BY <2>4 DEF vars, IInv, TypeOK, Disjoint, Linked, Cells
  <2> QED BY <2>1, <2>2, <2>3, <2>4 DEF Next
<1>3. IInv => Linked
  BY DEF IInv
<1> QED BY <1>1, <1>2, <1>3, PTL DEF Spec
=============================================================================
