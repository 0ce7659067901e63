----------------------------- MODULE KHeapProofs -----------------------------
(***************************************************************************)
(* The kernel heap's bookkeeping and its allocator's promise, for any      *)
(* pages, chunks and sizes.                                                *)
(*                                                                         *)
(* Next takes no step once something has gone wrong, so that each step     *)
(* begins with cause = {}.  The proofs speak of the headers in memory: a   *)
(* block begins where a header says FREE or USED.                          *)
(***************************************************************************)
EXTENDS KHeap, BasicLemmas

Addr == 0 .. Top
LastAddr == (NPages + 1) * Page - 1
Flags == {"data", "0", "FREE", "USED"}
Header == [used : Flags, size : Addr, is_head : BOOLEAN, prev : Addr, next : Addr \cup {WILD}]
Memory == [Addr -> Header]

Extent(b, a) == a .. a + b[a].size - 1
Free(b) == {a \in Addr : b[a].used = "FREE"}
Used(b) == {a \in Addr : b[a].used = "USED"}
Starts(b) == Free(b) \cup Used(b)

(* Links lead to headers, stale ones too; the first word is never null.    *)
Typed(b) ==
  /\ b \in Memory
  /\ b[0].used = "data" /\ b[0].next = WILD
  /\ \A a \in 1 .. Top : b[a].next # WILD /\ (b[a].next # 0 => b[b[a].next].used # "data")

(* The blocks tile the heap.                                               *)
Tile(b, arena) ==
  /\ \A a \in Starts(b) : b[a].size > 0 /\ Extent(b, a) \subseteq arena
  /\ \A x \in arena : \E a \in Starts(b) : x \in Extent(b, a)
  /\ \A a, c \in Starts(b) : a < c => a + b[a].size <= c

(* q is the list of blocks from first on.                                  *)
Chain(b, first, q) ==
  /\ q \in Seq(1 .. Top)
  /\ first = IF q = << >> THEN 0 ELSE q[1]
  /\ \A i \in 1 .. Len(q) : b[q[i]].next = IF i = Len(q) THEN 0 ELSE q[i + 1]

(* `prev' undoes `next'.                                                   *)
BackLinks(b, q) ==
  \A i \in 1 .. Len(q) : b[q[i]].prev = IF i = 1 THEN 0 ELSE q[i - 1]

Listed(b, first, q) == Chain(b, first, q) /\ Range(q) = Free(b) /\ BackLinks(b, q)

(* Heads of chunks are where pages begin; another block has one before it. *)
Heads(b, arena) ==
  /\ \A a \in 1 .. Top : b[a].is_head => a \in arena /\ \E p \in Pages : a = p * Page
  /\ \A a \in Starts(b) : ~b[a].is_head => a - 1 \in arena

(* Nothing is stored outside the heap.                                     *)
Blank(b, arena) == \A a \in 1 .. Top : a \notin arena => b[a] = NoHeader

(* The blocks in use, at their places.                                     *)
InUse(b, l) ==
  /\ \A c \in l : c.at \in Used(b) /\ c.size \in Nat /\ c.size <= b[c.at].size
  /\ \A a \in Used(b) : \E c \in l : c.at = a
  /\ \A c, d \in l : c.at = d.at => c = d

NoPairs(b) == \A a \in Free(b) : a + b[a].size \notin Free(b)

Tidy ==
  /\ Typed(blk) /\ Tile(blk, AddressesOf(heap)) /\ Blank(blk, AddressesOf(heap))
  /\ Heads(blk, AddressesOf(heap)) /\ InUse(blk, live) /\ NoPairs(blk)
  /\ \E q : Listed(blk, free_list, q)

IInv == HeapTypeOK /\ (cause = {} => Tidy)
-----------------------------------------------------------------------------
(* Addresses and the pages they lie in.                                    *)

LEMMA ConstantFacts ==
  /\ Page \in Nat \ {0} /\ NPages \in Nat \ {0} /\ ChunkPages \in Nat \ {0} /\ Fuel \in Nat \ {0}
  /\ ChunkPages <= NPages
  /\ Chunk \in Nat \ {0} /\ LastAddr \in Nat /\ Top \in Nat
  /\ Top = LastAddr + 1 + Chunk /\ LastAddr + 1 < Fuel /\ 2 * Fuel > 3 * (LastAddr + 1) + 10
  /\ Page <= Chunk /\ Page <= LastAddr /\ WILD = Top + 1
<1>1. /\ Page \in Nat \ {0} /\ NPages \in Nat \ {0} /\ ChunkPages \in Nat \ {0} /\ Fuel \in Nat \ {0}
      /\ ChunkPages <= NPages /\ 2 * Fuel > 3 * ((NPages + 1) * Page) + 10
  BY HeapAssumption
<1>2. ChunkPages * Page \in Nat /\ (NPages + 1) * Page \in Nat
  BY <1>1
<1>3. ChunkPages * Page >= 1 * Page /\ (NPages + 1) * Page >= 2 * Page
  BY <1>1
<1> QED BY <1>1, <1>2, <1>3 DEF Chunk, LastAddr, Top, WILD

(* An address lies in the page that is its quotient.                       *)
LEMMA PageOf ==
  ASSUME NEW ps \in SUBSET Nat, NEW x \in Nat
  PROVE  /\ x \div Page \in Nat
         /\ x \in AddressesOf(ps) <=> x \div Page \in ps
<1>0. Page \in Nat \ {0}
  BY ConstantFacts
<1>1. PICK q \in Nat, r \in 0 .. Page - 1 : q = x \div Page /\ x = q * Page + r
  BY <1>0, Division
<1>2. ASSUME NEW p \in ps, x \in p * Page .. p * Page + Page - 1 PROVE p = q
  <2>1. p \in Nat /\ p * Page \in Nat
    BY <1>0
  <2>2. PICK t \in 0 .. Page - 1 : x = p * Page + t
    <3>1. x - p * Page \in 0 .. Page - 1
      BY <1>0, <1>2, <2>1
    <3>2. x = p * Page + (x - p * Page)
      BY <2>1
    <3> QED BY <3>1, <3>2
  <2>3. (p * Page + t) \div Page = p
    BY <1>0, <2>1, Quotient
  <2> QED BY <1>1, <2>2, <2>3
<1>3. q * Page \in Nat /\ x \in q * Page .. q * Page + Page - 1
  BY <1>0, <1>1
<1>4. x \in AddressesOf(ps) <=> \E p \in ps : x \in p * Page .. p * Page + Page - 1
  BY DEF AddressesOf
<1> QED BY <1>1, <1>2, <1>3, <1>4

(* Pages hold addresses from the first page on.                            *)
LEMMA ArenaIn ==
  ASSUME NEW ps \in SUBSET Pages
  PROVE  AddressesOf(ps) \subseteq 1 .. LastAddr
<1> SUFFICES ASSUME NEW p \in ps, NEW x \in p * Page .. p * Page + Page - 1
             PROVE  x \in 1 .. LastAddr
  BY DEF AddressesOf
<1>0. Page \in Nat \ {0} /\ NPages \in Nat \ {0} /\ (NPages + 1) * Page \in Nat
  BY ConstantFacts
<1>1. p \in Nat /\ 1 <= p /\ p <= NPages
  BY <1>0 DEF Pages
<1>2. p * Page \in Nat /\ p * Page >= 1 * Page
  BY <1>0, <1>1
<1>3. (p + 1) * Page <= (NPages + 1) * Page
  BY <1>0, <1>1
<1>4. (p + 1) * Page = p * Page + Page
  BY <1>0, <1>1
<1> QED BY <1>0, <1>2, <1>3, <1>4 DEF LastAddr

(* A run of pages is a run of addresses.                                   *)
LEMMA RunOfPages ==
  ASSUME NEW p \in Nat
  PROVE  /\ p * Page \in Nat
         /\ AddressesOf(p .. p + ChunkPages - 1) = p * Page .. p * Page + Chunk - 1
<1>0. Page \in Nat \ {0} /\ ChunkPages \in Nat \ {0} /\ Chunk \in Nat /\ p * Page \in Nat
  BY ConstantFacts
<1>1. p .. p + ChunkPages - 1 \in SUBSET Nat
  BY <1>0
<1>2. ASSUME NEW x \in Nat
      PROVE  x \div Page \in p .. p + ChunkPages - 1 <=> x \in p * Page .. p * Page + Chunk - 1
  <2>1. PICK q \in Nat, r \in 0 .. Page - 1 : q = x \div Page /\ x = q * Page + r
    BY <1>0, Division
  <2>2. q * Page \in Nat
    BY <1>0
  <2>3. (p + ChunkPages) * Page = p * Page + Chunk
    BY <1>0 DEF Chunk
  <2>4. CASE q < p
    <3>1. (q + 1) * Page <= p * Page
      BY <1>0, <2>4
    <3>2. (q + 1) * Page = q * Page + Page
      BY <1>0
    <3> QED BY <1>0, <2>1, <2>2, <2>4, <3>1, <3>2
  <2>5. CASE q >= p + ChunkPages
    <3>1. q * Page >= (p + ChunkPages) * Page
      BY <1>0, <2>5
    <3> QED BY <1>0, <2>1, <2>2, <2>3, <2>5, <3>1
  <2>6. CASE q >= p /\ q < p + ChunkPages
    <3>1. q * Page >= p * Page
      BY <1>0, <2>6
    <3>2. (q + 1) * Page <= (p + ChunkPages) * Page
      BY <1>0, <2>6
    <3>3. (q + 1) * Page = q * Page + Page
      BY <1>0
    <3> QED BY <1>0, <2>1, <2>2, <2>3, <2>6, <3>1, <3>2, <3>3
  <2> QED BY <1>0, <2>1, <2>4, <2>5, <2>6
<1>3. AddressesOf(p .. p + ChunkPages - 1) \subseteq Nat
  <2> SUFFICES ASSUME NEW q \in p .. p + ChunkPages - 1, NEW x \in q * Page .. q * Page + Page - 1
               PROVE  x \in Nat
    BY DEF AddressesOf
  <2>1. q * Page \in Nat
    BY <1>0
  <2> QED BY <1>0, <2>1
<1>4. \A x \in Nat : x \in AddressesOf(p .. p + ChunkPages - 1) <=> x \in p * Page .. p * Page + Chunk - 1
  BY <1>1, <1>2, PageOf
<1>5. p * Page .. p * Page + Chunk - 1 \subseteq Nat
  BY <1>0
<1> QED BY <1>0, <1>3, <1>4, <1>5

-----------------------------------------------------------------------------
(* The list of free blocks.                                                *)

(* One link of the walk that ListOf takes.                                 *)
Link(b, first, k, l) ==
  LET a == IF l = << >> THEN first ELSE b[l[k - 1]].next
  IN  IF Len(l) < k - 1 \/ a = 0 THEN l ELSE Append(l, a)

LEMMA ListOfLoop ==
  ASSUME NEW b, NEW first
  PROVE  \E f : /\ f[0] = << >>
                /\ \A k \in 1 .. Fuel : f[k] = Link(b, first, k, f[k - 1])
                /\ ListOf(b, first) = f[Fuel]
<1> DEFINE Is(f, i) == f = [k \in 0 .. i |-> IF k = 0 THEN << >> ELSE Link(b, first, k, f[k - 1])]
           T == {i \in Nat : \E f : Is(f, i)}
<1>0. Fuel \in Nat
  BY ConstantFacts
<1>1. 0 \in T
  <2>1. Is([k \in 0 .. 0 |-> << >>], 0)
    OBVIOUS
  <2> QED BY <2>1, Zenon
<1>2. ASSUME NEW i \in Nat, i \in T PROVE i + 1 \in T
  <2>1. PICK f : Is(f, i)
    BY <1>2
  <2>2. Is([k \in 0 .. i + 1 |-> IF k <= i THEN f[k] ELSE Link(b, first, i + 1, f[i])], i + 1)
    BY <2>1
  <2>3. i + 1 \in Nat
    OBVIOUS
  <2> HIDE DEF Is
  <2> QED BY <2>2, <2>3
<1>3. \E f : Is(f, Fuel)
  <2> HIDE DEF Is
  <2> QED BY <1>0, <1>1, <1>2, Induction
<1>4. PICK f : Is(f, Fuel) /\ ListOf(b, first) = f[Fuel]
  BY <1>3, Zenon DEF ListOf, Link
<1>5. f[0] = << >> /\ \A k \in 1 .. Fuel : f[k] = Link(b, first, k, f[k - 1])
  BY <1>0, <1>4
<1> QED BY <1>4, <1>5, Zenon

(* What ListOf returns: the list, or as much of it as Fuel allows.         *)
LEMMA ListOfIs ==
  ASSUME NEW b \in Memory, NEW first \in Addr, \A a \in 1 .. Top : b[a].next # WILD,
         NEW q, q = ListOf(b, first)
  PROVE  /\ q \in Seq(1 .. Top) /\ Len(q) <= Fuel
         /\ q # << >> => q[1] = first
         /\ \A i \in 1 .. Len(q) - 1 : b[q[i]].next = q[i + 1]
         /\ Len(q) < Fuel => Chain(b, first, q)
<1> DEFINE Part(l) == /\ l \in Seq(1 .. Top)
                      /\ l # << >> => l[1] = first
                      /\ \A i \in 1 .. Len(l) - 1 : b[l[i]].next = l[i + 1]
           Ended(l) == IF l = << >> THEN first = 0 ELSE b[l[Len(l)]].next = 0
           I == [k \in 0 .. Fuel |-> {l \in Seq(1 .. Top) : Part(l) /\ (Len(l) = k \/ (Len(l) < k /\ Ended(l)))}]
<1>0. Fuel \in Nat /\ Top \in Nat
  BY ConstantFacts
<1>1. PICK f : /\ f[0] = << >>
               /\ \A k \in 1 .. Fuel : f[k] = Link(b, first, k, f[k - 1])
               /\ q = f[Fuel]
  BY ListOfLoop
<1>2. f[0] \in I[0]
  <2>1. << >> \in Seq(1 .. Top) /\ Len(<< >>) = 0
    OBVIOUS
  <2> QED BY <1>0, <1>1, <2>1
<1>3. ASSUME NEW k \in 1 .. Fuel, f[k - 1] \in I[k - 1] PROVE f[k] \in I[k]
  <2>0. k \in 0 .. Fuel /\ k - 1 \in 0 .. Fuel
    BY <1>0
  <2> DEFINE l == f[k - 1]
             a == IF l = << >> THEN first ELSE b[l[k - 1]].next
  <2>1. l \in Seq(1 .. Top) /\ Part(l) /\ (Len(l) = k - 1 \/ (Len(l) < k - 1 /\ Ended(l)))
    BY <1>3, <2>0
  <2>2. f[k] = IF Len(l) < k - 1 \/ a = 0 THEN l ELSE Append(l, a)
    BY <1>1 DEF Link
  <2> SUFFICES f[k] \in Seq(1 .. Top) /\ Part(f[k]) /\ (Len(f[k]) = k \/ (Len(f[k]) < k /\ Ended(f[k])))
    BY <2>0
  <2> HIDE DEF l
  <2>3. Len(l) \in Nat
    BY <2>1
  <2>4. CASE Len(l) < k - 1
    <3>1. f[k] = l
      BY <2>2, <2>4
    <3> QED BY <2>1, <2>3, <2>4, <3>1
  <2>5. CASE Len(l) = k - 1 /\ a = 0
    <3>1. f[k] = l
      BY <2>2, <2>5
    <3>2. Ended(l)
      BY <2>5
    <3> QED BY <2>1, <2>3, <2>5, <3>1, <3>2
  <2>6. CASE Len(l) = k - 1 /\ a # 0
    <3>1. a \in 1 .. Top
      <4>1. CASE l = << >>
        BY <1>0, <2>6, <4>1 DEF Addr
      <4>2. CASE l # << >>
        <5>1. k - 1 \in 1 .. Len(l)
          BY <2>1, <2>3, <2>6, <4>2
        <5>2. l[k - 1] \in 1 .. Top
          BY <2>1, <5>1, ElementOfSeq
        <5>3. b[l[k - 1]] \in Header /\ b[l[k - 1]].next # WILD
          BY <1>0, <5>2 DEF Memory, Addr
        <5>4. b[l[k - 1]].next \in Addr
          BY <5>3 DEF Header
        <5> QED BY <1>0, <2>6, <4>2, <5>4 DEF Addr
      <4> QED BY <4>1, <4>2
    <3> HIDE DEF a
    <3>2. f[k] = Append(l, a)
      BY <2>2, <2>3, <2>6
    <3>3. /\ f[k] \in Seq(1 .. Top) /\ Len(f[k]) = Len(l) + 1
          /\ \A i \in 1 .. Len(l) : f[k][i] = l[i]
          /\ f[k][Len(l) + 1] = a
      BY <2>1, <3>1, <3>2, AppendProperties
    <3>4. f[k] # << >> => f[k][1] = first
      <4>1. CASE l = << >>
        BY <3>3, <4>1 DEF a
      <4>2. CASE l # << >>
        <5>1. Len(l) > 0
          BY <2>1, <4>2
        <5>2. f[k][1] = l[1] /\ l[1] = first
          BY <2>1, <2>3, <3>3, <4>2, <5>1
        <5> QED BY <5>2
      <4> QED BY <4>1, <4>2
    <3>5. ASSUME NEW i \in 1 .. Len(f[k]) - 1 PROVE b[f[k][i]].next = f[k][i + 1]
      <4>0. i \in 1 .. Len(l)
        BY <2>3, <3>3
      <4>1. CASE i < Len(l)
        <5>1. i \in 1 .. Len(l) - 1 /\ i + 1 \in 1 .. Len(l)
          BY <2>3, <4>0, <4>1
        <5>2. b[l[i]].next = l[i + 1] /\ f[k][i] = l[i] /\ f[k][i + 1] = l[i + 1]
          BY <2>1, <3>3, <4>0, <5>1
        <5> QED BY <5>2
      <4>2. CASE i = Len(l)
        <5>1. l # << >> /\ i = k - 1
          BY <2>6, <4>0, <4>2
        <5>2. a = b[l[i]].next /\ f[k][i] = l[i] /\ f[k][i + 1] = a
          BY <3>3, <4>0, <4>2, <5>1 DEF a
        <5> QED BY <5>2
      <4> QED BY <2>3, <4>0, <4>1, <4>2
    <3> QED BY <2>3, <2>6, <3>3, <3>4, <3>5
  <2> QED BY <2>1, <2>3, <2>4, <2>5, <2>6
<1>4. q \in I[Fuel]
  <2>1. \A k \in 0 .. Fuel : f[k] \in I[k]
    <3> HIDE DEF I
    <3> QED BY <1>0, <1>2, <1>3, Rounds
  <2> HIDE DEF I
  <2> QED BY <1>0, <1>1, <2>1
<1>5. q \in Seq(1 .. Top) /\ Part(q) /\ (Len(q) = Fuel \/ (Len(q) < Fuel /\ Ended(q)))
  BY <1>0, <1>4
<1>6. Len(q) \in Nat
  BY <1>5
<1>7. ASSUME Len(q) < Fuel PROVE Chain(b, first, q)
  <2>1. Ended(q)
    BY <1>0, <1>5, <1>6, <1>7
  <2>2. first = IF q = << >> THEN 0 ELSE q[1]
    BY <1>5, <2>1
  <2>3. ASSUME NEW i \in 1 .. Len(q) PROVE b[q[i]].next = IF i = Len(q) THEN 0 ELSE q[i + 1]
    <3>1. q # << >>
      BY <1>5
    <3>2. CASE i = Len(q)
      BY <2>1, <3>1, <3>2
    <3>3. CASE i # Len(q)
      <4>1. i \in 1 .. Len(q) - 1
        BY <1>6, <3>3
      <4> QED BY <1>5, <3>3, <4>1
    <3> QED BY <3>2, <3>3
  <2> QED BY <1>5, <2>2, <2>3 DEF Chain
<1> QED BY <1>0, <1>5, <1>6, <1>7

(* No block is on a list twice.                                            *)
LEMMA ChainInjective ==
  ASSUME NEW b, NEW first, NEW q, Chain(b, first, q)
  PROVE  \A i, j \in 1 .. Len(q) : q[i] = q[j] => i = j
<1>0. q \in Seq(1 .. Top) /\ Len(q) \in Nat /\ Top \in Nat
  BY ConstantFacts DEF Chain
<1>1. \A i \in 1 .. Len(q) : q[i] \in 1 .. Top
  BY <1>0
<1>2. \A i \in 1 .. Len(q) : b[q[i]].next = IF i = Len(q) THEN 0 ELSE q[i + 1]
  BY DEF Chain
<1>3. ASSUME NEW i \in 1 .. Len(q), NEW j \in 1 .. Len(q), i < j, q[i] = q[j] PROVE FALSE
  <2> DEFINE T == {k \in Nat : j + k <= Len(q) => q[i + k] = q[j + k]}
  <2>1. 0 \in T
    BY <1>0, <1>3
  <2>2. ASSUME NEW k \in Nat, k \in T PROVE k + 1 \in T
    <3> SUFFICES ASSUME j + (k + 1) <= Len(q) PROVE q[i + (k + 1)] = q[j + (k + 1)]
      OBVIOUS
    <3>1. q[i + k] = q[j + k] /\ i + k \in 1 .. Len(q) /\ j + k \in 1 .. Len(q)
      BY <1>0, <1>3, <2>2
    <3>2. b[q[i + k]].next = q[i + k + 1] /\ b[q[j + k]].next = q[j + k + 1]
      <4>1. i + k # Len(q) /\ j + k # Len(q)
        BY <1>0, <1>3, <2>2
      <4> QED BY <1>2, <3>1, <4>1, Zenon
    <3>3. (i + k) + 1 = i + (k + 1) /\ (j + k) + 1 = j + (k + 1)
      BY <1>0, <2>2
    <3> QED BY <3>1, <3>2, <3>3
  <2>3. Len(q) - j \in T
    <3>1. Len(q) - j \in Nat
      BY <1>0
    <3>2. Nat \subseteq T
      <4> HIDE DEF T
      <4> QED BY <2>1, <2>2, Induction
    <3> HIDE DEF T
    <3> QED BY <3>1, <3>2
  <2> DEFINE n == i + (Len(q) - j)
  <2>4. q[n] = q[Len(q)] /\ n \in 1 .. Len(q) - 1
    BY <1>0, <1>3, <2>3
  <2> HIDE DEF n
  <2>5. b[q[n]].next = q[n + 1] /\ b[q[Len(q)]].next = 0 /\ q[n + 1] \in 1 .. Top
    <3>1. /\ n \in 1 .. Len(q) /\ n # Len(q) /\ n + 1 \in 1 .. Len(q)
          /\ Len(q) \in 1 .. Len(q)
      BY <1>0, <2>4
    <3> HIDE DEF Chain
    <3> QED BY <1>1, <1>2, <3>1, Zenon
  <2> QED BY <1>0, <2>4, <2>5
<1> QED BY <1>0, <1>3

(* A list of blocks in the heap is shorter than Fuel.                      *)
LEMMA ShortList ==
  ASSUME NEW b, NEW first, NEW q, Chain(b, first, q), Range(q) \subseteq 1 .. LastAddr
  PROVE  Len(q) < Fuel
<1>0. q \in Seq(1 .. Top) /\ Len(q) \in Nat /\ DOMAIN q = 1 .. Len(q)
  BY DEF Chain
<1>1. \A i, j \in 1 .. Len(q) : q[i] = q[j] => i = j
  BY ChainInjective
<1>2. \A i \in 1 .. Len(q) : q[i] \in 1 .. LastAddr
  BY <1>0 DEF Range
<1>3. LastAddr \in Nat /\ Fuel \in Nat /\ LastAddr < Fuel
  BY ConstantFacts
<1>4. [i \in 1 .. Len(q) |-> q[i]] \in Injection(1 .. Len(q), 1 .. LastAddr)
  BY <1>1, <1>2 DEF Injection, IsInjective
<1>5. IsFiniteSet(1 .. LastAddr) /\ Cardinality(1 .. LastAddr) = LastAddr /\ Cardinality(1 .. Len(q)) = Len(q)
  <2>1. \A n \in Nat : IsFiniteSet(1 .. n) /\ Cardinality(1 .. n) = IF 1 > n THEN 0 ELSE n - 1 + 1
    BY FS_Interval
  <2>2. \A n \in Nat : Cardinality(1 .. n) = n
    BY <2>1
  <2> QED BY <1>0, <1>3, <2>1, <2>2
<1>6. Cardinality(1 .. Len(q)) <= Cardinality(1 .. LastAddr)
  BY <1>4, <1>5, FS_Injection
<1> QED BY <1>0, <1>3, <1>5, <1>6

(* There is one list from a block on.                                      *)
LEMMA ChainUnique ==
  ASSUME NEW b \in Memory, NEW first \in Addr, \A a \in 1 .. Top : b[a].next # WILD,
         NEW q, Chain(b, first, q), Len(q) < Fuel
  PROVE  ListOf(b, first) = q
<1> DEFINE p == ListOf(b, first)
<1>1. /\ p \in Seq(1 .. Top) /\ Len(p) <= Fuel
      /\ p # << >> => p[1] = first
      /\ \A i \in 1 .. Len(p) - 1 : b[p[i]].next = p[i + 1]
      /\ Len(p) < Fuel => Chain(b, first, p)
  BY ListOfIs
<1> HIDE DEF p
<1>2. q \in Seq(1 .. Top) /\ Len(q) \in Nat /\ Len(p) \in Nat /\ Top \in Nat /\ Fuel \in Nat
  <2>1. q \in Seq(1 .. Top) /\ p \in Seq(1 .. Top)
    BY <1>1 DEF Chain
  <2> QED BY <2>1, ConstantFacts, LenProperties
<1>3. /\ first = IF q = << >> THEN 0 ELSE q[1]
      /\ \A i \in 1 .. Len(q) : b[q[i]].next = IF i = Len(q) THEN 0 ELSE q[i + 1]
  BY DEF Chain
<1>4. (\A i \in 1 .. Len(q) : q[i] \in 1 .. Top) /\ (\A i \in 1 .. Len(p) : p[i] \in 1 .. Top)
  <2>1. q \in Seq(1 .. Top) /\ p \in Seq(1 .. Top)
    BY <1>1, <1>2
  <2> QED BY <2>1, ElementOfSeq
<1> DEFINE T == {k \in Nat : k + 1 <= Len(p) => k + 1 <= Len(q) /\ p[k + 1] = q[k + 1]}
<1>5. 0 \in T
  <2> SUFFICES ASSUME 1 <= Len(p) PROVE 1 <= Len(q) /\ p[1] = q[1]
    OBVIOUS
  <2>1. p # << >> /\ p[1] \in 1 .. Top
    BY <1>1, <1>2, <1>4
  <2>2. q # << >>
    BY <1>1, <1>2, <1>3, <2>1
  <2>3. Len(q) > 0
    BY <1>2, <2>2
  <2> QED BY <1>1, <1>2, <1>3, <2>1, <2>2, <2>3
<1>6. ASSUME NEW k \in Nat, k \in T PROVE k + 1 \in T
  <2> SUFFICES ASSUME k + 2 <= Len(p) PROVE k + 2 <= Len(q) /\ p[k + 2] = q[k + 2]
    OBVIOUS
  <2>1. k + 1 <= Len(q) /\ p[k + 1] = q[k + 1]
    BY <1>2, <1>6
  <2>2. b[p[k + 1]].next = p[k + 2] /\ p[k + 2] \in 1 .. Top
    <3>1. k + 1 \in 1 .. Len(p) - 1 /\ k + 2 \in 1 .. Len(p) /\ (k + 1) + 1 = k + 2
      BY <1>2
    <3> QED BY <1>1, <1>4, <3>1
  <2>3. b[q[k + 1]].next = IF k + 1 = Len(q) THEN 0 ELSE q[k + 2]
    <3>1. k + 1 \in 1 .. Len(q) /\ (k + 1) + 1 = k + 2
      BY <1>2, <2>1
    <3> QED BY <1>3, <3>1
  <2>4. k + 1 # Len(q)
    BY <1>2, <2>1, <2>2, <2>3
  <2> QED BY <1>2, <2>1, <2>2, <2>3, <2>4
<1>7. Nat \subseteq T
  <2> HIDE DEF T
  <2> QED BY <1>5, <1>6, Induction
<1>8. \A i \in 1 .. Len(p) : i <= Len(q) /\ p[i] = q[i]
  <2> SUFFICES ASSUME NEW i \in 1 .. Len(p) PROVE i <= Len(q) /\ p[i] = q[i]
    OBVIOUS
  <2>0. i - 1 \in Nat /\ (i - 1) + 1 = i
    BY <1>2
  <2>1. i - 1 \in T
    <3> HIDE DEF T
    <3> QED BY <1>7, <2>0
  <2> QED BY <1>2, <2>0, <2>1
<1>9. Len(p) <= Len(q)
  <2>1. CASE Len(p) = 0
    BY <1>2, <2>1
  <2>2. CASE Len(p) # 0
    <3>1. Len(p) \in 1 .. Len(p)
      BY <1>2, <2>2
    <3> QED BY <1>8, <3>1
  <2> QED BY <2>1, <2>2
<1>10. Chain(b, first, p)
  BY <1>1, <1>2, <1>9
<1>11. Len(q) <= Len(p)
  <2> SUFFICES ASSUME Len(p) < Len(q) PROVE FALSE
    BY <1>2
  <2>1. CASE Len(p) = 0
    <3>1. p = << >> /\ q # << >> /\ q[1] \in 1 .. Top
      BY <1>1, <1>2, <1>4, <2>1
    <3> QED BY <1>2, <1>3, <1>10, <3>1 DEF Chain
  <2>2. CASE Len(p) # 0
    <3>1. Len(p) \in 1 .. Len(p) /\ Len(p) \in 1 .. Len(q) /\ Len(p) + 1 \in 1 .. Len(q)
      BY <1>2, <2>2
    <3>2. b[p[Len(p)]].next = 0
      BY <1>10, <3>1 DEF Chain
    <3>3. b[q[Len(p)]].next = q[Len(p) + 1] /\ q[Len(p) + 1] \in 1 .. Top
      BY <1>2, <1>3, <1>4, <3>1
    <3> QED BY <1>2, <1>8, <3>1, <3>2, <3>3
  <2> QED BY <2>1, <2>2
<1>12. Len(p) = Len(q) /\ \A i \in 1 .. Len(p) : p[i] = q[i]
  BY <1>2, <1>8, <1>9, <1>11
<1>13. p = q
  BY <1>1, <1>2, <1>12, SeqEqual
<1> QED BY <1>13 DEF p

(* One step of the walk of kmalloc.                                        *)
Seek(n, w) ==
  IF w.cur = 0 \/ blk[w.cur].size >= n THEN w ELSE [cur |-> blk[w.cur].next, prev |-> w.cur]

LEMMA SearchLoop ==
  ASSUME NEW n
  PROVE  \E f : /\ f[0] = [cur |-> free_list, prev |-> free_list]
                /\ \A k \in 1 .. Fuel : f[k] = Seek(n, f[k - 1])
                /\ Search(n) = f[Fuel]
<1> DEFINE start == [cur |-> free_list, prev |-> free_list]
           Is(f, i) == f = [k \in 0 .. i |-> IF k = 0 THEN start ELSE Seek(n, f[k - 1])]
           T == {i \in Nat : \E f : Is(f, i)}
<1>0. Fuel \in Nat
  BY ConstantFacts
<1>1. 0 \in T
  <2>1. Is([k \in 0 .. 0 |-> start], 0)
    OBVIOUS
  <2> QED BY <2>1, Zenon
<1>2. ASSUME NEW i \in Nat, i \in T PROVE i + 1 \in T
  <2>1. PICK f : Is(f, i)
    BY <1>2
  <2>2. Is([k \in 0 .. i + 1 |-> IF k <= i THEN f[k] ELSE Seek(n, f[i])], i + 1)
    <3> HIDE DEF start
    <3> QED BY <2>1
  <2>3. i + 1 \in Nat
    OBVIOUS
  <2> HIDE DEF Is
  <2> QED BY <2>2, <2>3
<1>3. \E f : Is(f, Fuel)
  <2> HIDE DEF Is
  <2> QED BY <1>0, <1>1, <1>2, Induction
<1>4. PICK f : Is(f, Fuel) /\ Search(n) = f[Fuel]
  BY <1>3, Zenon DEF Search, Seek
<1>5. f[0] = start /\ \A k \in 1 .. Fuel : f[k] = Seek(n, f[k - 1])
  <2> HIDE DEF start
  <2> QED BY <1>0, <1>4
<1> QED BY <1>4, <1>5, Zenon

(* The walk finds a block that is large enough, or comes to the end of the *)
(* list behind its last block.                                             *)
LEMMA SearchIs ==
  ASSUME NEW n \in Nat, NEW q, Chain(blk, free_list, q), Len(q) < Fuel,
         NEW w, w = Search(n)
  PROVE  \/ w.cur # 0 /\ \E i \in 1 .. Len(q) : w.cur = q[i] /\ blk[q[i]].size >= n
         \/ w.cur = 0 /\ w.prev = IF q = << >> THEN 0 ELSE q[Len(q)]
<1> DEFINE Found(x) == \E i \in 1 .. Len(q) : x.cur = q[i] /\ blk[q[i]].size >= n
           At(x, k) == k + 1 \in 1 .. Len(q) /\ x.cur = q[k + 1]
           End(x) == x.cur = 0 /\ x.prev = IF q = << >> THEN 0 ELSE q[Len(q)]
           I == [k \in 0 .. Fuel |-> {x \in [cur : Addr, prev : Addr] : Found(x) \/ At(x, k) \/ End(x)}]
<1>0. /\ Fuel \in Nat /\ Top \in Nat /\ q \in Seq(1 .. Top) /\ Len(q) \in Nat
      /\ \A i \in 1 .. Len(q) : q[i] \in 1 .. Top /\ q[i] \in Addr /\ q[i] # 0
      /\ 0 \in Addr
  <2>1. q \in Seq(1 .. Top) /\ Top \in Nat /\ Fuel \in Nat
    BY ConstantFacts DEF Chain
  <2> QED BY <2>1 DEF Addr
<1>1. /\ free_list = IF q = << >> THEN 0 ELSE q[1]
      /\ \A i \in 1 .. Len(q) : blk[q[i]].next = IF i = Len(q) THEN 0 ELSE q[i + 1]
  BY DEF Chain
<1>2. PICK f : /\ f[0] = [cur |-> free_list, prev |-> free_list]
               /\ \A k \in 1 .. Fuel : f[k] = Seek(n, f[k - 1])
               /\ Search(n) = f[Fuel]
  BY SearchLoop
<1>3. f[0] \in I[0]
  <2>1. CASE q = << >>
    BY <1>0, <1>1, <1>2, <2>1
  <2>2. CASE q # << >>
    <3>1. 0 + 1 \in 1 .. Len(q)
      BY <1>0, <2>2
    <3> QED BY <1>0, <1>1, <1>2, <2>2, <3>1
  <2> QED BY <2>1, <2>2
<1>4. ASSUME NEW k \in 1 .. Fuel, f[k - 1] \in I[k - 1] PROVE f[k] \in I[k]
  <2>0. k \in 0 .. Fuel /\ k - 1 \in 0 .. Fuel
    BY <1>0
  <2>1. PICK x \in [cur : Addr, prev : Addr] : x = f[k - 1] /\ (Found(x) \/ At(x, k - 1) \/ End(x))
    BY <1>4, <2>0
  <2>2. f[k] = Seek(n, x)
    BY <1>2, <2>1
  <2> SUFFICES Seek(n, x) \in [cur : Addr, prev : Addr]
               /\ (Found(Seek(n, x)) \/ At(Seek(n, x), k) \/ End(Seek(n, x)))
    BY <2>0, <2>2
  <2>3. CASE x.cur = 0 \/ blk[x.cur].size >= n
    <3>1. Seek(n, x) = x
      BY <2>3 DEF Seek
    <3>2. Found(x) \/ End(x)
      <4>1. CASE At(x, k - 1)
        <5>1. k \in 1 .. Len(q) /\ x.cur = q[k]
          BY <1>0, <4>1
        <5> QED BY <1>0, <2>3, <5>1
      <4> QED BY <2>1, <4>1
    <3> QED BY <2>1, <3>1, <3>2
  <2>4. CASE ~(x.cur = 0 \/ blk[x.cur].size >= n)
    <3>1. k \in 1 .. Len(q) /\ x.cur = q[k]
      BY <1>0, <2>1, <2>4
    <3>2. Seek(n, x) = [cur |-> blk[q[k]].next, prev |-> q[k]]
      BY <2>4, <3>1 DEF Seek
    <3>3. CASE k = Len(q)
      <4>1. blk[q[k]].next = 0 /\ q # << >>
        BY <1>0, <1>1, <3>1, <3>3
      <4> QED BY <1>0, <3>1, <3>2, <3>3, <4>1
    <3>4. CASE k # Len(q)
      <4>1. blk[q[k]].next = q[k + 1] /\ k + 1 \in 1 .. Len(q)
        <5>1. k + 1 \in 1 .. Len(q)
          BY <1>0, <3>1, <3>4
        <5> QED BY <1>1, <3>1, <3>4, <5>1
      <4> QED BY <1>0, <3>1, <3>2, <4>1
    <3> QED BY <3>3, <3>4
  <2> QED BY <2>3, <2>4
<1>5. Search(n) \in I[Fuel]
  <2>1. \A k \in 0 .. Fuel : f[k] \in I[k]
    <3> HIDE DEF I
    <3> QED BY <1>0, <1>3, <1>4, Rounds
  <2> HIDE DEF I
  <2> QED BY <1>0, <1>2, <2>1
<1>6. Found(w) \/ At(w, Fuel) \/ End(w)
  BY <1>0, <1>5
<1> QED BY <1>0, <1>6

-----------------------------------------------------------------------------
(* Blocks that tile an arena.                                              *)

LEMMA TileFacts ==
  ASSUME NEW b \in Memory, NEW arena \in SUBSET (1 .. LastAddr), Tile(b, arena), NEW a \in Starts(b)
  PROVE  /\ a \in arena /\ a \in 1 .. LastAddr /\ a \in Addr /\ a # 0
         /\ b[a].size \in Nat \ {0}
         /\ a + b[a].size - 1 \in arena
         /\ a + b[a].size \in 1 .. Top /\ a + b[a].size \in Addr
         /\ a + b[a].size \in arena => a + b[a].size \in Starts(b)
<1>0. Top \in Nat /\ LastAddr \in Nat /\ LastAddr < Top
  BY ConstantFacts
<1>1. a \in Nat /\ a \in Addr /\ b[a].size \in Nat
  BY <1>0 DEF Starts, Free, Used, Addr, Memory, Header
<1>2. b[a].size > 0 /\ Extent(b, a) \subseteq arena
  BY DEF Tile
<1>3. a \in Extent(b, a) /\ a + b[a].size - 1 \in Extent(b, a)
  BY <1>1, <1>2 DEF Extent
<1>4. a \in arena /\ a + b[a].size - 1 \in arena
  BY <1>2, <1>3
<1>5. a \in 1 .. LastAddr /\ a + b[a].size - 1 \in 1 .. LastAddr
  BY <1>4
<1>6. a + b[a].size \in 1 .. Top
  BY <1>0, <1>1, <1>2, <1>5
<1>7. ASSUME a + b[a].size \in arena PROVE a + b[a].size \in Starts(b)
  <2>1. PICK c \in Starts(b) : a + b[a].size \in Extent(b, c)
    BY <1>7 DEF Tile
  <2>2. c \in Nat /\ b[c].size \in Nat
    BY <1>0 DEF Starts, Free, Used, Addr, Memory, Header
  <2>3. c <= a + b[a].size /\ a + b[a].size <= c + b[c].size - 1
    BY <1>1, <2>1, <2>2 DEF Extent
  <2>4. (c < a => c + b[c].size <= a) /\ (a < c => a + b[a].size <= c)
    BY DEF Tile
  <2>5. c = a + b[a].size
    BY <1>1, <1>2, <2>2, <2>3, <2>4
  <2> QED BY <2>5
<1> QED BY <1>0, <1>1, <1>2, <1>4, <1>5, <1>6, <1>7 DEF Addr

(* What the list of the free blocks is known to be.                        *)
LEMMA ListFacts ==
  ASSUME NEW b, Typed(b), NEW arena \in SUBSET (1 .. LastAddr), Tile(b, arena),
         NEW first, NEW q, Listed(b, first, q)
  PROVE  /\ ListOf(b, first) = q /\ Len(q) < Fuel /\ Len(q) \in Nat /\ q \in Seq(1 .. Top)
         /\ first \in Addr
         /\ \A i, j \in 1 .. Len(q) : q[i] = q[j] => i = j
         /\ \A i \in 1 .. Len(q) : q[i] \in Free(b)
         /\ \A a \in Free(b) : \E i \in 1 .. Len(q) : q[i] = a
<1>1. Chain(b, first, q) /\ Range(q) = Free(b) /\ b \in Memory
  BY DEF Listed, Typed
<1>2. q \in Seq(1 .. Top) /\ Len(q) \in Nat /\ DOMAIN q = 1 .. Len(q) /\ Top \in Nat
  BY <1>1, ConstantFacts DEF Chain
<1>3. Free(b) \subseteq 1 .. LastAddr
  <2> SUFFICES ASSUME NEW a \in Free(b) PROVE a \in 1 .. LastAddr
    OBVIOUS
  <2>1. a \in Starts(b)
    BY DEF Starts
  <2> QED BY <1>1, <2>1, TileFacts
<1>4. Len(q) < Fuel
  BY <1>1, <1>3, ShortList
<1>5. \A i, j \in 1 .. Len(q) : q[i] = q[j] => i = j
  BY <1>1, ChainInjective
<1>6. \A i \in 1 .. Len(q) : q[i] \in 1 .. Top
  BY <1>2
<1>7. first \in Addr
  <2>1. first = IF q = << >> THEN 0 ELSE q[1]
    BY <1>1 DEF Chain
  <2>2. q # << >> => 1 \in 1 .. Len(q)
    BY <1>2
  <2> QED BY <1>2, <1>6, <2>1, <2>2 DEF Addr
<1>8. ListOf(b, first) = q
  <2>1. \A a \in 1 .. Top : b[a].next # WILD
    BY DEF Typed
  <2> QED BY <1>1, <1>4, <1>7, <2>1, ChainUnique
<1>9. \A i \in 1 .. Len(q) : q[i] \in Free(b)
  BY <1>1, <1>2 DEF Range
<1>10. \A a \in Free(b) : \E i \in 1 .. Len(q) : q[i] = a
  BY <1>1, <1>2 DEF Range
<1> QED BY <1>2, <1>4, <1>5, <1>7, <1>8, <1>9, <1>10

(* The bookkeeping is in order as long as the invariant holds.             *)
LEMMA InvariantImplies ==
  ASSUME IInv PROVE HeapInv
<1>1. HeapTypeOK
  BY DEF IInv
<1> SUFFICES ASSUME cause = {} PROVE Tiled /\ FreeListInv /\ Apart
  BY <1>1 DEF HeapInv, Tiled, FreeListInv, Apart
<1>2. Tidy
  BY DEF IInv
<1> DEFINE arena == AddressesOf(heap)
<1>3. arena \in SUBSET (1 .. LastAddr)
  BY <1>1, ArenaIn DEF HeapTypeOK
<1>4. Typed(blk) /\ Tile(blk, arena) /\ InUse(blk, live) /\ NoPairs(blk) /\ blk \in Memory
  BY <1>2 DEF Tidy, Typed
<1>5. PICK q : Listed(blk, free_list, q)
  BY <1>2 DEF Tidy
<1>6. /\ ListOf(blk, free_list) = q /\ Len(q) < Fuel /\ Range(q) = Free(blk)
      /\ \A i \in 1 .. Len(q) : q[i] \in Free(blk)
  BY <1>3, <1>4, <1>5, ListFacts DEF Listed
<1>7. FreeBlocks = Free(blk)
  BY <1>6 DEF FreeBlocks
<1>8. {b.at : b \in live} = Used(blk)
  BY <1>4 DEF InUse
<1> HIDE DEF arena
<1>9. FreeListInv
  <2>1. \A i \in 1 .. Len(q) : /\ blk[q[i]].used = "FREE"
                              /\ blk[q[i]].prev = IF i = 1 THEN 0 ELSE q[i - 1]
    BY <1>5, <1>6 DEF Listed, BackLinks, Free
  <2> QED BY <1>6, <2>1 DEF FreeListInv
<1>10. Tiled
  <2> DEFINE starts == {b.at : b \in live} \cup FreeBlocks
  <2>1. starts = Starts(blk)
    BY <1>7, <1>8 DEF Starts
  <2> HIDE DEF starts
  <2>2. \A b \in live : blk[b.at].used = "USED" /\ blk[b.at].size >= b.size
    <3> SUFFICES ASSUME NEW b \in live PROVE blk[b.at].used = "USED" /\ blk[b.at].size >= b.size
      OBVIOUS
    <3>1. b.at \in Used(blk) /\ b.size \in Nat /\ b.size <= blk[b.at].size
      BY <1>4 DEF InUse
    <3>2. blk[b.at].size \in Nat
      BY <1>3, <1>4, <3>1, TileFacts DEF Starts
    <3> QED BY <3>1, <3>2 DEF Used
  <2>3. UNION {Extent(blk, a) : a \in starts} = arena
    BY <1>4, <2>1 DEF Tile
  <2>4. \A a, c \in starts : a # c => Extent(blk, a) \cap Extent(blk, c) = {}
    <3> SUFFICES ASSUME NEW a \in Starts(blk), NEW c \in Starts(blk), a # c,
                        NEW x \in Extent(blk, a), x \in Extent(blk, c)
                 PROVE  FALSE
      BY <2>1
    <3>1. a \in Nat /\ c \in Nat /\ blk[a].size \in Nat /\ blk[c].size \in Nat
      <4>1. \A d \in Starts(blk) : d \in 1 .. LastAddr /\ blk[d].size \in Nat
        BY <1>3, <1>4, TileFacts
      <4> QED BY <4>1
    <3>2. (c < a => c + blk[c].size <= a) /\ (a < c => a + blk[a].size <= c)
      BY <1>4 DEF Tile
    <3>3. a <= x /\ x <= a + blk[a].size - 1 /\ c <= x /\ x <= c + blk[c].size - 1 /\ x \in Int
      BY <3>1 DEF Extent
    <3> QED BY <3>1, <3>2, <3>3
  <2> QED BY <2>2, <2>3, <2>4 DEF Tiled, Extent, arena, starts
<1>11. Apart
  BY <1>4, <1>7 DEF Apart, NoPairs
<1> QED BY <1>9, <1>10, <1>11

-----------------------------------------------------------------------------
(* Two neighbours joined.                                                  *)

LEMMA JoinIs ==
  ASSUME NEW b \in Memory, NEW cur \in 1 .. Top, NEW nb \in 1 .. Top, cur # nb,
         b[nb].next \in Addr, b[cur].size + b[nb].size \in Addr,
         NEW j, j = join(b, cur, nb)
  PROVE  /\ j \in Memory
         /\ \A a \in Addr :
              /\ j[a].used = IF a = nb THEN "0" ELSE b[a].used
              /\ j[a].size = IF a = cur THEN b[cur].size + b[nb].size ELSE b[a].size
              /\ j[a].is_head = b[a].is_head
              /\ j[a].prev = IF a = b[nb].next THEN cur ELSE b[a].prev
              /\ j[a].next = IF a = cur THEN b[nb].next ELSE b[a].next
<1>0. cur \in Addr /\ nb \in Addr /\ 0 \in Addr /\ Top \in Nat
  BY ConstantFacts DEF Addr
<1> DEFINE j1 == [b EXCEPT ![cur].size = @ + b[nb].size, ![cur].next = b[nb].next]
           j2 == [j1 EXCEPT ![b[nb].next].prev = cur]
           j3 == [j2 EXCEPT ![nb].used = "0"]
<1>1. j = j3
  BY DEF join
<1>2. /\ j1 \in Memory
      /\ \A a \in Addr :
              /\ j1[a].used = b[a].used
              /\ j1[a].size = IF a = cur THEN b[cur].size + b[nb].size ELSE b[a].size
              /\ j1[a].is_head = b[a].is_head
              /\ j1[a].prev = b[a].prev
              /\ j1[a].next = IF a = cur THEN b[nb].next ELSE b[a].next
  <2> DEFINE h == [b[cur] EXCEPT !.size = @ + b[nb].size, !.next = b[nb].next]
  <2>1. b[cur] \in Header
    BY <1>0 DEF Memory
  <2>2. /\ h \in Header /\ h.used = b[cur].used /\ h.size = b[cur].size + b[nb].size
        /\ h.is_head = b[cur].is_head /\ h.prev = b[cur].prev /\ h.next = b[nb].next
    BY <2>1 DEF Header
  <2>3. j1 = [b EXCEPT ![cur] = h]
    BY <1>0 DEF Memory
  <2> HIDE DEF h, j1
  <2>4. j1 \in Memory /\ \A a \in Addr : j1[a] = IF a = cur THEN h ELSE b[a]
    <3>1. cur \in Addr /\ h \in Header /\ b \in Memory
      BY <1>0, <2>2
    <3> QED BY <2>3, <3>1 DEF Memory
  <2> QED BY <2>2, <2>4
<1> HIDE DEF j1
<1>3. /\ j2 \in Memory
      /\ \A a \in Addr :
              /\ j2[a].used = j1[a].used /\ j2[a].size = j1[a].size
              /\ j2[a].is_head = j1[a].is_head
              /\ j2[a].prev = IF a = b[nb].next THEN cur ELSE j1[a].prev
              /\ j2[a].next = j1[a].next
  <2> DEFINE x == b[nb].next
             h == [j1[x] EXCEPT !.prev = cur]
  <2>1. x \in Addr /\ j1[x] \in Header
    BY <1>2 DEF Memory
  <2> HIDE DEF x
  <2>2. /\ h \in Header /\ h.used = j1[x].used /\ h.size = j1[x].size
        /\ h.is_head = j1[x].is_head /\ h.prev = cur /\ h.next = j1[x].next
    BY <1>0, <2>1 DEF Header
  <2>3. j2 = [j1 EXCEPT ![x] = h]
    BY <1>2, <2>1 DEF Memory, x
  <2> HIDE DEF h, j2
  <2>4. j2 \in Memory /\ \A a \in Addr : j2[a] = IF a = x THEN h ELSE j1[a]
    <3>1. x \in Addr /\ h \in Header /\ j1 \in Memory
      BY <1>2, <2>1, <2>2
    <3> QED BY <2>3, <3>1 DEF Memory
  <2> QED BY <2>2, <2>4 DEF x
<1> HIDE DEF j2
<1>4. /\ j3 \in Memory
      /\ \A a \in Addr :
              /\ j3[a].used = IF a = nb THEN "0" ELSE j2[a].used
              /\ j3[a].size = j2[a].size
              /\ j3[a].is_head = j2[a].is_head /\ j3[a].prev = j2[a].prev
              /\ j3[a].next = j2[a].next
  <2> DEFINE h == [j2[nb] EXCEPT !.used = "0"]
  <2>1. j2[nb] \in Header
    BY <1>0, <1>3 DEF Memory
  <2>2. /\ h \in Header /\ h.used = "0" /\ h.size = j2[nb].size
        /\ h.is_head = j2[nb].is_head /\ h.prev = j2[nb].prev /\ h.next = j2[nb].next
    BY <1>0, <2>1 DEF Header, Flags
  <2>3. j3 = [j2 EXCEPT ![nb] = h]
    BY <1>0, <1>3 DEF Memory
  <2> HIDE DEF h, j3
  <2>4. j3 \in Memory /\ \A a \in Addr : j3[a] = IF a = nb THEN h ELSE j2[a]
    <3>1. nb \in Addr /\ h \in Header /\ j2 \in Memory
      BY <1>0, <1>3, <2>2
    <3> QED BY <2>3, <3>1 DEF Memory
  <2> QED BY <2>2, <2>4
<1> HIDE DEF j3
<1> QED BY <1>1, <1>2, <1>3, <1>4

LEMMA JoinTile ==
  ASSUME NEW b, Typed(b), NEW arena \in SUBSET (1 .. LastAddr), Tile(b, arena),
         NEW cur \in Starts(b), NEW nb, nb = cur + b[cur].size, b[nb].used = "FREE",
         NEW j, j = join(b, cur, nb)
  PROVE  /\ Typed(j) /\ Tile(j, arena)
         /\ cur \in 1 .. Top /\ nb \in Free(b) /\ cur < nb
         /\ Free(j) = Free(b) \ {nb} /\ Used(j) = Used(b)
         /\ b[nb].next \in Addr
         /\ \A a \in Addr :
              /\ j[a].used = IF a = nb THEN "0" ELSE b[a].used
              /\ j[a].size = IF a = cur THEN b[cur].size + b[nb].size ELSE b[a].size
              /\ j[a].is_head = b[a].is_head
              /\ j[a].prev = IF a = b[nb].next THEN cur ELSE b[a].prev
              /\ j[a].next = IF a = cur THEN b[nb].next ELSE b[a].next
<1>0. Top \in Nat /\ LastAddr \in Nat /\ LastAddr < Top /\ b \in Memory /\ 0 \in Addr
  BY ConstantFacts DEF Typed, Addr
<1>1. /\ cur \in 1 .. LastAddr /\ b[cur].size \in Nat \ {0} /\ nb \in 1 .. Top /\ nb \in Addr
  BY <1>0, TileFacts
<1>2. nb \in Free(b) /\ nb \in Starts(b)
  BY <1>1 DEF Free, Starts
<1>3. nb \in 1 .. LastAddr /\ b[nb].size \in Nat \ {0} /\ nb + b[nb].size \in 1 .. Top
  BY <1>0, <1>2, TileFacts
<1>4. b[nb].next \in Addr
  BY <1>0, <1>1, <1>3 DEF Typed, Memory, Header, Addr
<1>5. b[cur].size + b[nb].size \in Addr /\ cur < nb /\ cur \in 1 .. Top /\ cur # nb
  BY <1>0, <1>1, <1>3 DEF Addr
<1>6. /\ j \in Memory
      /\ \A a \in Addr :
              /\ j[a].used = IF a = nb THEN "0" ELSE b[a].used
              /\ j[a].size = IF a = cur THEN b[cur].size + b[nb].size ELSE b[a].size
              /\ j[a].is_head = b[a].is_head
              /\ j[a].prev = IF a = b[nb].next THEN cur ELSE b[a].prev
              /\ j[a].next = IF a = cur THEN b[nb].next ELSE b[a].next
  BY <1>0, <1>1, <1>4, <1>5, JoinIs
<1>7. Free(j) = Free(b) \ {nb} /\ Used(j) = Used(b)
  BY <1>2, <1>6 DEF Free, Used
<1>8. Typed(j)
  <2>1. j[0].used = "data" /\ j[0].next = WILD
    BY <1>0, <1>1, <1>6 DEF Typed
  <2>2. ASSUME NEW a \in 1 .. Top PROVE j[a].next # WILD /\ (j[a].next # 0 => j[j[a].next].used # "data")
    <3>0. a \in Addr
      BY <1>0 DEF Addr
    <3>1. PICK c \in 1 .. Top : j[a].next = b[c].next
      BY <1>1, <1>6, <3>0
    <3>2. b[c].next # WILD /\ (b[c].next # 0 => b[b[c].next].used # "data")
      BY DEF Typed
    <3>3. b[c].next \in Addr
      BY <1>0, <3>2 DEF Memory, Header, Addr
    <3>4. \A x \in Addr : b[x].used # "data" => j[x].used # "data"
      BY <1>6
    <3> QED BY <3>1, <3>2, <3>3, <3>4
  <2> QED BY <1>6, <2>1, <2>2 DEF Typed
<1>9. Tile(j, arena)
  <2>1. Starts(j) = Starts(b) \ {nb}
    <3>1. nb \notin Used(b)
      BY <1>2 DEF Free, Used
    <3> QED BY <1>7, <3>1 DEF Starts
  <2>2. \A a \in Starts(b) : a \in Addr /\ a \in 1 .. LastAddr /\ b[a].size \in Nat \ {0} /\ Extent(b, a) \subseteq arena
    BY <1>0, TileFacts DEF Tile
  <2>3. Extent(j, cur) = Extent(b, cur) \cup Extent(b, nb)
    <3>1. j[cur].size = b[cur].size + b[nb].size
      BY <1>6, <2>2
    <3> QED BY <1>1, <1>3, <3>1 DEF Extent
  <2>4. \A a \in Starts(j) \ {cur} : Extent(j, a) = Extent(b, a) /\ j[a].size = b[a].size
    BY <1>6, <2>1, <2>2 DEF Extent
  <2>5. \A a \in Starts(j) : j[a].size > 0 /\ Extent(j, a) \subseteq arena
    <3>1. j[cur].size > 0 /\ Extent(j, cur) \subseteq arena
      BY <1>1, <1>2, <1>3, <1>6, <2>2, <2>3
    <3> QED BY <2>1, <2>2, <2>4, <3>1
  <2>6. \A x \in arena : \E a \in Starts(j) : x \in Extent(j, a)
    <3> SUFFICES ASSUME NEW x \in arena PROVE \E a \in Starts(j) : x \in Extent(j, a)
      OBVIOUS
    <3>1. PICK a \in Starts(b) : x \in Extent(b, a)
      BY DEF Tile
    <3>2. cur \in Starts(j)
      BY <1>5, <2>1
    <3>3. CASE a \in {cur, nb}
      BY <2>3, <3>1, <3>2, <3>3
    <3>4. CASE a \notin {cur, nb}
      BY <2>1, <2>4, <3>1, <3>4
    <3> QED BY <3>3, <3>4
  <2>7. \A a, c \in Starts(j) : a < c => a + j[a].size <= c
    <3> SUFFICES ASSUME NEW a \in Starts(j), NEW c \in Starts(j), a < c PROVE a + j[a].size <= c
      OBVIOUS
    <3>1. a \in Starts(b) /\ c \in Starts(b) /\ c # nb /\ a + b[a].size <= c
      BY <2>1 DEF Tile
    <3>2. CASE a # cur
      BY <2>4, <3>1, <3>2
    <3>3. CASE a = cur
      <4>1. nb < c
        BY <1>1, <2>2, <3>1, <3>3
      <4>2. nb + b[nb].size <= c
        BY <1>2, <3>1, <4>1 DEF Tile
      <4>3. j[a].size = b[cur].size + b[nb].size
        BY <1>6, <2>2, <3>1, <3>3
      <4> QED BY <1>1, <1>3, <2>2, <3>1, <3>3, <4>2, <4>3
    <3> QED BY <3>2, <3>3
  <2> QED BY <2>5, <2>6, <2>7 DEF Tile
<1> QED BY <1>2, <1>4, <1>5, <1>6, <1>7, <1>8, <1>9

-----------------------------------------------------------------------------
(* kfree's walk.  p is what memory holds when it begins.                   *)

States == [blk : Memory, cur : Addr, at : {"block", "nb", "skip", "done"}]
Area(p) == UNION {Extent(p, a) : a \in Free(p)}

(* What holds of memory throughout, whatever goes wrong: the blocks tile   *)
(* the heap, those in use are in use and no smaller, and what was free     *)
(* stays within what was free.                                             *)
Kept(p, arena, b) ==
  /\ Typed(b) /\ Tile(b, arena) /\ Blank(b, arena)
  /\ \A a \in Addr : b[a].is_head = p[a].is_head
  /\ Used(b) = Used(p) /\ Free(b) \subseteq Free(p)
  /\ \A a \in Used(p) : b[a].size >= p[a].size
  /\ \A a \in Free(p) : b[a].next \in Free(p) \cup {0} /\ Extent(b, a) \subseteq Area(p)

(* Where the walk is: at a block, or at what was one.                      *)
Place(s) ==
  /\ s.at = "block" => s.cur = 0 \/ s.cur \in Starts(s.blk)
  /\ s.at = "nb" => s.cur \in Starts(s.blk)
  /\ s.at = "skip" => s.cur = 0 \/ s.blk[s.cur].used # "data"

Walk(p, arena, s) == s \in States /\ Kept(p, arena, s.blk) /\ Place(s)

(* What a step does to memory.                                             *)
Right(s) == s.cur + s.blk[s.cur].size
Joins(s, t) == s.at = "nb" /\ s.blk[Right(s)].used = "FREE" /\ t.blk = join(s.blk, s.cur, Right(s))
Clear(b, x) == [b EXCEPT ![x].next = 0, ![x].prev = 0]
Clears(s, t) == s.cur # 0 /\ s.blk[s.cur].used = "0" /\ t.blk = Clear(s.blk, s.cur)

LEMMA MergedLoop ==
  ASSUME NEW p, NEW first
  PROVE  \E f : /\ f[0] = [blk |-> p, cur |-> first, at |-> "block"]
                /\ \A k \in 1 .. Fuel : f[k] = merge_step(f[k - 1])
                /\ Merged(p, first) = f[Fuel]
<1> DEFINE start == [blk |-> p, cur |-> first, at |-> "block"]
           Is(f, i) == f = [k \in 0 .. i |-> IF k = 0 THEN start ELSE merge_step(f[k - 1])]
           T == {i \in Nat : \E f : Is(f, i)}
<1>0. Fuel \in Nat
  BY ConstantFacts
<1>1. 0 \in T
  <2>1. Is([k \in 0 .. 0 |-> start], 0)
    OBVIOUS
  <2> QED BY <2>1, Zenon
<1>2. ASSUME NEW i \in Nat, i \in T PROVE i + 1 \in T
  <2>1. PICK f : Is(f, i)
    BY <1>2
  <2>2. Is([k \in 0 .. i + 1 |-> IF k <= i THEN f[k] ELSE merge_step(f[i])], i + 1)
    <3> HIDE DEF start
    <3> QED BY <2>1
  <2>3. i + 1 \in Nat
    OBVIOUS
  <2> HIDE DEF Is
  <2> QED BY <2>2, <2>3
<1>3. \E f : Is(f, Fuel)
  <2> HIDE DEF Is
  <2> QED BY <1>0, <1>1, <1>2, Induction
<1>4. PICK f : Is(f, Fuel) /\ Merged(p, first) = f[Fuel]
  BY <1>3, Zenon DEF Merged
<1>5. f[0] = start /\ \A k \in 1 .. Fuel : f[k] = merge_step(f[k - 1])
  <2> HIDE DEF start
  <2> QED BY <1>0, <1>4
<1> QED BY <1>4, <1>5, Zenon

(* The step, in words.                                                     *)
LEMMA StepIs ==
  ASSUME NEW s \in States, NEW t, t = merge_step(s)
  PROVE  /\ s.at = "block" => t = [s EXCEPT !.at = IF s.cur = 0 THEN "done" ELSE "nb"]
         /\ s.at = "nb" /\ s.blk[Right(s)].used # "FREE" =>
              t = [s EXCEPT !.cur = s.blk[s.cur].next, !.at = "skip"]
         /\ s.at = "nb" /\ s.blk[Right(s)].used = "FREE" =>
              LET j == join(s.blk, s.cur, Right(s))
                  end == s.cur + j[s.cur].size
              IN  t = IF j[end].is_head THEN [blk |-> j, cur |-> end, at |-> "block"]
                      ELSE [blk |-> j, cur |-> s.cur, at |-> "nb"]
         /\ s.at = "skip" /\ (s.cur = 0 \/ s.blk[s.cur].used # "0") => t = [s EXCEPT !.at = "block"]
         /\ s.at = "skip" /\ s.cur # 0 /\ s.blk[s.cur].used = "0" =>
              t = [blk |-> Clear(s.blk, s.cur), cur |-> s.blk[s.cur].next, at |-> "skip"]
         /\ s.at = "done" => t = s
<1>1. ASSUME s.at = "block" PROVE t = [s EXCEPT !.at = IF s.cur = 0 THEN "done" ELSE "nb"]
  BY <1>1 DEF merge_step
<1>2. ASSUME s.at = "nb" /\ s.blk[Right(s)].used # "FREE"
      PROVE  t = [s EXCEPT !.cur = s.blk[s.cur].next, !.at = "skip"]
  BY <1>2 DEF merge_step, Right
<1>3. ASSUME s.at = "nb" /\ s.blk[Right(s)].used = "FREE"
      PROVE  LET j == join(s.blk, s.cur, Right(s))
                 end == s.cur + j[s.cur].size
             IN  t = IF j[end].is_head THEN [blk |-> j, cur |-> end, at |-> "block"]
                     ELSE [blk |-> j, cur |-> s.cur, at |-> "nb"]
  BY <1>3 DEF merge_step, Right
<1>4. ASSUME s.at = "skip" /\ (s.cur = 0 \/ s.blk[s.cur].used # "0") PROVE t = [s EXCEPT !.at = "block"]
  BY <1>4 DEF merge_step
<1>5. ASSUME s.at = "skip" /\ s.cur # 0 /\ s.blk[s.cur].used = "0"
      PROVE  t = [blk |-> Clear(s.blk, s.cur), cur |-> s.blk[s.cur].next, at |-> "skip"]
  BY <1>5 DEF merge_step, Clear
<1>6. ASSUME s.at = "done" PROVE t = s
  BY <1>6 DEF merge_step
<1> QED BY <1>1, <1>2, <1>3, <1>4, <1>5, <1>6

(* A header whose links are cleared.                                       *)
LEMMA ClearIs ==
  ASSUME NEW b \in Memory, NEW x \in 1 .. Top,
         NEW c, c = Clear(b, x)
  PROVE  /\ c \in Memory
         /\ \A a \in Addr :
              /\ c[a].used = b[a].used /\ c[a].size = b[a].size /\ c[a].is_head = b[a].is_head
              /\ c[a].prev = IF a = x THEN 0 ELSE b[a].prev
              /\ c[a].next = IF a = x THEN 0 ELSE b[a].next
<1> DEFINE h == [b[x] EXCEPT !.next = 0, !.prev = 0]
<1>0. x \in Addr /\ 0 \in Addr
  BY ConstantFacts DEF Addr
<1>1. b[x] \in Header
  BY <1>0 DEF Memory
<1>2. /\ h \in Header /\ h.used = b[x].used /\ h.size = b[x].size
      /\ h.is_head = b[x].is_head /\ h.prev = 0 /\ h.next = 0
  BY <1>0, <1>1 DEF Header
<1>3. c = [b EXCEPT ![x] = h]
  BY <1>0 DEF Memory, Clear
<1> HIDE DEF h
<1>4. c \in Memory /\ \A a \in Addr : c[a] = IF a = x THEN h ELSE b[a]
  <2>1. h \in Header
    BY <1>2
  <2> QED BY <1>0, <1>3, <2>1 DEF Memory
<1>5. ASSUME NEW a \in Addr
      PROVE  /\ c[a].used = b[a].used /\ c[a].size = b[a].size /\ c[a].is_head = b[a].is_head
             /\ c[a].prev = IF a = x THEN 0 ELSE b[a].prev
             /\ c[a].next = IF a = x THEN 0 ELSE b[a].next
  <2>1. CASE a = x
    <3>1. c[a] = h
      BY <1>4, <2>1
    <3>2. /\ c[a].used = b[a].used /\ c[a].size = b[a].size /\ c[a].is_head = b[a].is_head
          /\ c[a].prev = 0 /\ c[a].next = 0
      BY <1>2, <2>1, <3>1
    <3> QED BY <2>1, <3>2
  <2>2. CASE a # x
    <3>1. c[a] = b[a]
      BY <1>4, <2>2
    <3> QED BY <2>2, <3>1
  <2> QED BY <2>1, <2>2
<1> QED BY <1>4, <1>5

LEMMA JoinKeeps ==
  ASSUME NEW p \in Memory, NEW arena \in SUBSET (1 .. LastAddr), NEW b, Kept(p, arena, b),
         NEW cur \in Starts(b), NEW nb, nb = cur + b[cur].size, b[nb].used = "FREE",
         NEW j, j = join(b, cur, nb)
  PROVE  Kept(p, arena, j) /\ Free(j) = Free(b) \ {nb} /\ cur \in Starts(j)
<1>1. Typed(b) /\ Tile(b, arena) /\ Blank(b, arena) /\ b \in Memory /\ 0 \in Addr
  BY ConstantFacts DEF Kept, Typed, Addr
<1>2. /\ Typed(j) /\ Tile(j, arena)
      /\ cur \in 1 .. Top /\ nb \in Free(b) /\ cur < nb
      /\ Free(j) = Free(b) \ {nb} /\ Used(j) = Used(b)
      /\ b[nb].next \in Addr
      /\ \A a \in Addr :
              /\ j[a].used = IF a = nb THEN "0" ELSE b[a].used
              /\ j[a].size = IF a = cur THEN b[cur].size + b[nb].size ELSE b[a].size
              /\ j[a].is_head = b[a].is_head
              /\ j[a].prev = IF a = b[nb].next THEN cur ELSE b[a].prev
              /\ j[a].next = IF a = cur THEN b[nb].next ELSE b[a].next
  BY <1>1, JoinTile
<1>3. nb \in Starts(b) /\ nb \in Addr
  BY <1>2 DEF Starts, Free
<1>4. /\ cur \in arena /\ cur \in 1 .. LastAddr /\ cur \in Addr /\ b[cur].size \in Nat \ {0}
      /\ nb \in arena /\ nb \in 1 .. LastAddr /\ b[nb].size \in Nat \ {0}
  BY <1>1, <1>3, TileFacts
<1>5. Blank(j, arena)
  <2> SUFFICES ASSUME NEW a \in 1 .. Top, a \notin arena PROVE j[a] = NoHeader
    BY DEF Blank
  <2>1. a \in Addr /\ b[a] = NoHeader /\ j \in Memory
    BY <1>1, <1>2, ConstantFacts DEF Blank, Addr, Typed
  <2>2. a # b[nb].next
    <3> SUFFICES ASSUME a = b[nb].next PROVE FALSE
      OBVIOUS
    <3>1. nb \in 1 .. Top
      BY <1>4, ConstantFacts
    <3>2. b[a].used # "data"
      BY <1>1, <2>1, <3>1 DEF Typed
    <3> QED BY <2>1, <3>2 DEF NoHeader
  <2>3. a # cur /\ a # nb
    BY <1>4
  <2>4. j[a] \in Header /\ b[a] \in Header
    BY <1>1, <2>1 DEF Memory
  <2>5. /\ j[a].used = b[a].used /\ j[a].size = b[a].size /\ j[a].is_head = b[a].is_head
        /\ j[a].prev = b[a].prev /\ j[a].next = b[a].next
    BY <1>2, <2>1, <2>2, <2>3
  <2> QED BY <2>1, <2>4, <2>5 DEF Header
<1>6. \A a \in Addr : j[a].is_head = p[a].is_head
  BY <1>2 DEF Kept
<1>7. Used(j) = Used(p) /\ Free(j) \subseteq Free(p)
  BY <1>2 DEF Kept
<1>8. ASSUME NEW a \in Used(p) PROVE j[a].size >= p[a].size
  <2>1. b[a].size >= p[a].size /\ a \in Addr
    BY DEF Kept, Used
  <2>2. CASE a = cur
    <3>1. j[cur].size = b[cur].size + b[nb].size
      BY <1>2, <1>4
    <3>2. p[a].size \in Nat /\ a \in Addr
      BY <2>1, ConstantFacts DEF Memory, Header, Addr
    <3> QED BY <1>4, <2>1, <2>2, <3>1, <3>2
  <2>3. CASE a # cur
    <3>1. j[a].size = b[a].size
      BY <1>2, <2>1, <2>3
    <3> QED BY <2>1, <3>1
  <2> QED BY <2>2, <2>3
<1>9. ASSUME NEW a \in Free(p)
      PROVE  j[a].next \in Free(p) \cup {0} /\ Extent(j, a) \subseteq Area(p)
  <2>1. a \in Addr
    BY DEF Free
  <2>2. b[a].next \in Free(p) \cup {0} /\ Extent(b, a) \subseteq Area(p)
    BY DEF Kept
  <2>3. b[nb].next \in Free(p) \cup {0} /\ Extent(b, nb) \subseteq Area(p)
    BY <1>2 DEF Kept
  <2>4. CASE a = cur
    <3>1. j[a].next = b[nb].next /\ j[a].size = b[cur].size + b[nb].size
      BY <1>2, <2>1, <2>4
    <3>2. Extent(j, a) = Extent(b, cur) \cup Extent(b, nb)
      BY <1>4, <2>4, <3>1 DEF Extent
    <3> QED BY <2>2, <2>3, <2>4, <3>1, <3>2
  <2>5. CASE a # cur
    <3>1. j[a].next = b[a].next /\ j[a].size = b[a].size
      BY <1>2, <2>1, <2>5
    <3>2. Extent(j, a) = Extent(b, a)
      BY <3>1 DEF Extent
    <3> QED BY <2>2, <3>1, <3>2
  <2> QED BY <2>4, <2>5
<1>10. cur \in Starts(j)
  <2>1. cur # nb
    BY <1>2, <1>4
  <2> QED BY <1>2, <2>1 DEF Starts
<1> QED BY <1>2, <1>5, <1>6, <1>7, <1>8, <1>9, <1>10 DEF Kept

LEMMA ClearKeeps ==
  ASSUME NEW p \in Memory, NEW arena \in SUBSET (1 .. LastAddr), NEW b, Kept(p, arena, b),
         NEW x \in 1 .. Top, b[x].used = "0",
         NEW c, c = Clear(b, x)
  PROVE  Kept(p, arena, c) /\ Free(c) = Free(b)
<1>1. Typed(b) /\ Tile(b, arena) /\ Blank(b, arena) /\ b \in Memory /\ 0 \in Addr /\ Top \in Nat /\ x \in Addr
  BY ConstantFacts DEF Kept, Typed, Addr
<1>2. /\ c \in Memory
      /\ \A a \in Addr :
              /\ c[a].used = b[a].used /\ c[a].size = b[a].size /\ c[a].is_head = b[a].is_head
              /\ c[a].prev = IF a = x THEN 0 ELSE b[a].prev
              /\ c[a].next = IF a = x THEN 0 ELSE b[a].next
  BY <1>1, ClearIs
<1>3. Free(c) = Free(b) /\ Used(c) = Used(b) /\ Starts(c) = Starts(b)
  BY <1>2 DEF Free, Used, Starts
<1>4. \A a \in Addr : Extent(c, a) = Extent(b, a)
  BY <1>2 DEF Extent
<1>5. Starts(b) \subseteq Addr
  BY DEF Starts, Free, Used
<1>6. Typed(c)
  <2>1. c[0].used = "data" /\ c[0].next = WILD
    BY <1>1, <1>2 DEF Typed
  <2>2. ASSUME NEW a \in 1 .. Top PROVE c[a].next # WILD /\ (c[a].next # 0 => c[c[a].next].used # "data")
    <3>0. a \in Addr
      BY <1>1 DEF Addr
    <3>1. b[a].next # WILD /\ (b[a].next # 0 => b[b[a].next].used # "data")
      BY <1>1 DEF Typed
    <3>2. b[a].next \in Addr
      BY <1>1, <3>0, <3>1 DEF Memory, Header
    <3>3. CASE a = x
      <4>1. c[a].next = 0
        BY <1>2, <3>0, <3>3
      <4>2. WILD # 0
        BY ConstantFacts
      <4> QED BY <4>1, <4>2
    <3>4. CASE a # x
      BY <1>2, <3>0, <3>1, <3>2, <3>4
    <3> QED BY <3>3, <3>4
  <2> QED BY <1>2, <2>1, <2>2 DEF Typed
<1>7. Tile(c, arena)
  BY <1>1, <1>2, <1>3, <1>4, <1>5 DEF Tile
<1>8. Blank(c, arena)
  <2> SUFFICES ASSUME NEW a \in 1 .. Top, a \notin arena PROVE c[a] = NoHeader
    BY DEF Blank
  <2>1. b[a] = NoHeader
    BY <1>1 DEF Blank
  <2>2. a # x
    BY <2>1 DEF NoHeader
  <2>3. a \in Addr /\ b[a] \in Header /\ c[a] \in Header
    BY <1>1, <1>2 DEF Memory, Addr
  <2>4. /\ c[a].used = b[a].used /\ c[a].size = b[a].size /\ c[a].is_head = b[a].is_head
        /\ c[a].prev = b[a].prev /\ c[a].next = b[a].next
    BY <1>2, <2>2, <2>3
  <2> QED BY <2>1, <2>3, <2>4 DEF Header
<1>9. \A a \in Addr : c[a].is_head = p[a].is_head
  BY <1>2 DEF Kept
<1>10. \A a \in Used(p) : c[a].size >= p[a].size
  BY <1>2 DEF Kept, Used
<1>11. ASSUME NEW a \in Free(p)
       PROVE  c[a].next \in Free(p) \cup {0} /\ Extent(c, a) \subseteq Area(p)
  <2>1. a \in Addr
    BY DEF Free
  <2>2. b[a].next \in Free(p) \cup {0} /\ Extent(b, a) \subseteq Area(p)
    BY DEF Kept
  <2>3. c[a].next = IF a = x THEN 0 ELSE b[a].next
    BY <1>2, <2>1
  <2> QED BY <1>4, <2>1, <2>2, <2>3
<1>12. Used(c) = Used(p) /\ Free(c) \subseteq Free(p)
  BY <1>3 DEF Kept
<1> QED BY <1>3, <1>6, <1>7, <1>8, <1>9, <1>10, <1>11, <1>12 DEF Kept

(* Every step of the walk keeps it, and changes memory in one of two ways. *)
LEMMA StepWalk ==
  ASSUME NEW p \in Memory, NEW arena \in SUBSET (1 .. LastAddr), NEW s, Walk(p, arena, s),
         NEW t, t = merge_step(s)
  PROVE  Walk(p, arena, t) /\ (t.blk = s.blk \/ Joins(s, t) \/ Clears(s, t))
<1> DEFINE b == s.blk
           j == join(b, s.cur, Right(s))
           end == s.cur + j[s.cur].size
           c == Clear(b, s.cur)
<1>0. /\ s \in States /\ b \in Memory /\ s.cur \in Addr /\ Kept(p, arena, b) /\ Place(s)
      /\ Typed(b) /\ Tile(b, arena) /\ Top \in Nat /\ LastAddr \in Nat /\ LastAddr < Top
      /\ s.at \in {"block", "nb", "skip", "done"}
  BY ConstantFacts DEF Walk, Kept, States, Typed
<1>1. CASE s.at = "block"
  <2>1. t = [s EXCEPT !.at = IF s.cur = 0 THEN "done" ELSE "nb"]
    BY <1>0, <1>1, StepIs
  <2>2. t.blk = b /\ t.cur = s.cur /\ t.at = IF s.cur = 0 THEN "done" ELSE "nb"
    BY <1>0, <2>1 DEF States
  <2>3. t \in States
    BY <1>0, <2>1 DEF States
  <2>4. Place(t)
    BY <1>0, <1>1, <2>2 DEF Place
  <2> QED BY <1>0, <2>2, <2>3, <2>4 DEF Walk
<1>2. CASE s.at = "nb" /\ b[Right(s)].used # "FREE"
  <2>1. t = [s EXCEPT !.cur = b[s.cur].next, !.at = "skip"]
    BY <1>0, <1>2, StepIs
  <2>2. t.blk = b /\ t.cur = b[s.cur].next /\ t.at = "skip"
    BY <1>0, <2>1 DEF States
  <2>3. s.cur \in Starts(b)
    BY <1>0, <1>2 DEF Place
  <2>4. s.cur \in 1 .. LastAddr
    BY <1>0, <2>3, TileFacts
  <2>5. t.cur # WILD /\ (t.cur = 0 \/ b[t.cur].used # "data")
    BY <1>0, <2>2, <2>4 DEF Typed
  <2>6. t.cur \in Addr
    BY <1>0, <2>2, <2>5 DEF Memory, Header
  <2>7. t \in States
    BY <1>0, <2>1, <2>2, <2>6 DEF States
  <2>8. Place(t)
    BY <2>2, <2>5 DEF Place
  <2> QED BY <1>0, <2>2, <2>7, <2>8 DEF Walk
<1>3. CASE s.at = "nb" /\ b[Right(s)].used = "FREE"
  <2>1. t = IF j[end].is_head THEN [blk |-> j, cur |-> end, at |-> "block"]
            ELSE [blk |-> j, cur |-> s.cur, at |-> "nb"]
    BY <1>0, <1>3, StepIs
  <2>2. s.cur \in Starts(b)
    BY <1>0, <1>3 DEF Place
  <2> HIDE DEF j
  <2>3. Kept(p, arena, j) /\ s.cur \in Starts(j)
    BY <1>0, <1>3, <2>2, JoinKeeps DEF j, Right
  <2>4. Typed(j) /\ Tile(j, arena) /\ Blank(j, arena) /\ j \in Memory
    BY <2>3 DEF Kept, Typed
  <2>5. end \in Addr /\ end \in 1 .. Top /\ (end \in arena => end \in Starts(j))
    BY <2>3, <2>4, TileFacts
  <2> HIDE DEF end
  <2>6. t.blk = j
    BY <2>1
  <2>7. t \in States
    BY <1>0, <2>1, <2>4, <2>5 DEF States
  <2>8. Place(t)
    <3>1. CASE j[end].is_head
      <4>1. end \in arena
        BY <2>4, <2>5, <3>1 DEF Blank, NoHeader
      <4> QED BY <2>1, <2>5, <3>1, <4>1 DEF Place
    <3>2. CASE ~j[end].is_head
      BY <2>1, <2>3, <3>2 DEF Place
    <3> QED BY <3>1, <3>2
  <2>9. Joins(s, t)
    BY <1>3, <2>6 DEF Joins, j
  <2> QED BY <2>3, <2>6, <2>7, <2>8, <2>9 DEF Walk
<1>4. CASE s.at = "skip" /\ (s.cur = 0 \/ b[s.cur].used # "0")
  <2>1. t = [s EXCEPT !.at = "block"]
    BY <1>0, <1>4, StepIs
  <2>2. t.blk = b /\ t.cur = s.cur /\ t.at = "block"
    BY <1>0, <2>1 DEF States
  <2>3. t \in States
    BY <1>0, <2>1 DEF States
  <2>4. s.cur = 0 \/ s.cur \in Starts(b)
    <3>1. b[s.cur].used \in Flags
      BY <1>0 DEF Memory, Header
    <3> QED BY <1>0, <1>4, <3>1 DEF Place, Starts, Free, Used, Flags
  <2>5. Place(t)
    BY <2>2, <2>4 DEF Place
  <2> QED BY <1>0, <2>2, <2>3, <2>5 DEF Walk
<1>5. CASE s.at = "skip" /\ s.cur # 0 /\ b[s.cur].used = "0"
  <2>1. t = [blk |-> c, cur |-> b[s.cur].next, at |-> "skip"]
    BY <1>0, <1>5, StepIs
  <2> HIDE DEF c
  <2>2. s.cur \in 1 .. Top
    BY <1>0, <1>5 DEF Addr
  <2>3. Kept(p, arena, c)
    BY <1>0, <1>5, <2>2, ClearKeeps DEF c
  <2>4. \A a \in Addr : c[a].used = b[a].used
    BY <1>0, <2>2, ClearIs DEF c
  <2>5. t.cur # WILD /\ (t.cur = 0 \/ b[t.cur].used # "data")
    BY <1>0, <2>1, <2>2 DEF Typed
  <2>6. t.cur \in Addr
    BY <1>0, <2>1, <2>5 DEF Memory, Header
  <2>7. t.blk = c /\ t.at = "skip"
    BY <2>1
  <2>8. t \in States
    <3>1. c \in Memory
      BY <2>3 DEF Kept, Typed
    <3> QED BY <2>1, <2>6, <3>1 DEF States
  <2>9. Place(t)
    BY <2>4, <2>5, <2>6, <2>7 DEF Place
  <2>10. Clears(s, t)
    BY <1>5, <2>7 DEF Clears, c
  <2> QED BY <2>3, <2>7, <2>8, <2>9, <2>10 DEF Walk
<1>6. CASE s.at = "done"
  <2>1. t = s
    BY <1>0, <1>6, StepIs
  <2> QED BY <2>1
<1> QED BY <1>0, <1>1, <1>2, <1>3, <1>4, <1>5, <1>6

-----------------------------------------------------------------------------
(* What kfree puts on the list, and where its walk can lead.               *)

Freed(b, first, x) ==
  [b EXCEPT ![first].prev = x, ![x].next = first, ![x].prev = 0, ![x].used = "FREE"]

LEMMA FreedIs ==
  ASSUME NEW b \in Memory, NEW first \in Addr, NEW x \in 1 .. Top, first # x,
         NEW p, p = Freed(b, first, x)
  PROVE  /\ p \in Memory
         /\ \A a \in Addr :
              /\ p[a].used = IF a = x THEN "FREE" ELSE b[a].used
              /\ p[a].size = b[a].size /\ p[a].is_head = b[a].is_head
              /\ p[a].prev = IF a = x THEN 0 ELSE IF a = first THEN x ELSE b[a].prev
              /\ p[a].next = IF a = x THEN first ELSE b[a].next
<1> DEFINE h == [b[first] EXCEPT !.prev = x]
           g == [b[x] EXCEPT !.next = first, !.prev = 0, !.used = "FREE"]
<1>0. x \in Addr /\ 0 \in Addr
  BY ConstantFacts DEF Addr
<1>1. b[x] \in Header /\ b[first] \in Header
  BY <1>0 DEF Memory
<1>2. /\ h \in Header /\ h.used = b[first].used /\ h.size = b[first].size
      /\ h.is_head = b[first].is_head /\ h.prev = x /\ h.next = b[first].next
  BY <1>0, <1>1 DEF Header
<1>3. /\ g \in Header /\ g.used = "FREE" /\ g.size = b[x].size
      /\ g.is_head = b[x].is_head /\ g.prev = 0 /\ g.next = first
  BY <1>0, <1>1 DEF Header, Flags
<1>4. p = [[b EXCEPT ![first] = h] EXCEPT ![x] = g]
  BY <1>0 DEF Memory, Freed
<1> HIDE DEF h, g
<1>5. p \in Memory /\ \A a \in Addr : p[a] = IF a = x THEN g ELSE IF a = first THEN h ELSE b[a]
  <2>1. h \in Header /\ g \in Header
    BY <1>2, <1>3
  <2> QED BY <1>0, <1>4, <2>1 DEF Memory
<1>6. ASSUME NEW a \in Addr
      PROVE  /\ p[a].used = IF a = x THEN "FREE" ELSE b[a].used
             /\ p[a].size = b[a].size /\ p[a].is_head = b[a].is_head
             /\ p[a].prev = IF a = x THEN 0 ELSE IF a = first THEN x ELSE b[a].prev
             /\ p[a].next = IF a = x THEN first ELSE b[a].next
  <2>1. CASE a = x
    <3>1. p[a] = g
      BY <1>5, <2>1
    <3> QED BY <1>3, <2>1, <3>1
  <2>2. CASE a = first
    <3>1. p[a] = h /\ a # x
      BY <1>5, <2>2
    <3> QED BY <1>2, <2>2, <3>1
  <2>3. CASE a # x /\ a # first
    <3>1. p[a] = b[a]
      BY <1>5, <2>3
    <3> QED BY <2>3, <3>1
  <2> QED BY <2>1, <2>2, <2>3
<1> QED BY <1>5, <1>6

(* The headers when the walk begins.                                       *)
LEMMA FreedFacts ==
  ASSUME NEW b, Typed(b), NEW arena \in SUBSET (1 .. LastAddr), Tile(b, arena), Blank(b, arena),
         NEW first, NEW q, Listed(b, first, q), NEW x \in Used(b),
         NEW p, p = Freed(b, first, x)
  PROVE  /\ Kept(p, arena, p) /\ p \in Memory
         /\ Free(p) = Free(b) \cup {x} /\ Used(p) = Used(b) \ {x}
         /\ x \in arena /\ x \in 1 .. Top /\ x \in Addr /\ x \notin Free(b) /\ first # x
         /\ \A a \in Addr :
              /\ p[a].used = IF a = x THEN "FREE" ELSE b[a].used
              /\ p[a].size = b[a].size /\ p[a].is_head = b[a].is_head
              /\ p[a].prev = IF a = x THEN 0 ELSE IF a = first THEN x ELSE b[a].prev
              /\ p[a].next = IF a = x THEN first ELSE b[a].next
<1>0. b \in Memory /\ Top \in Nat /\ LastAddr \in Nat /\ LastAddr < Top /\ 0 \in Addr
  BY ConstantFacts DEF Typed, Addr
<1>1. x \in Starts(b) /\ b[x].used = "USED" /\ x \notin Free(b)
  BY DEF Starts, Used, Free
<1>2. x \in arena /\ x \in 1 .. LastAddr /\ x \in Addr /\ x \in 1 .. Top /\ x # 0
  BY <1>0, <1>1, TileFacts
<1>3. /\ first \in Addr /\ Len(q) \in Nat /\ q \in Seq(1 .. Top)
      /\ \A i \in 1 .. Len(q) : q[i] \in Free(b)
      /\ \A a \in Free(b) : \E i \in 1 .. Len(q) : q[i] = a
  BY ListFacts
<1>4. first \in Free(b) \cup {0}
  <2>1. first = IF q = << >> THEN 0 ELSE q[1]
    BY DEF Listed, Chain
  <2>2. q # << >> => 1 \in 1 .. Len(q)
    BY <1>3
  <2> QED BY <1>3, <2>1, <2>2
<1>5. first # x
  BY <1>1, <1>2, <1>4
<1>6. /\ p \in Memory
      /\ \A a \in Addr :
              /\ p[a].used = IF a = x THEN "FREE" ELSE b[a].used
              /\ p[a].size = b[a].size /\ p[a].is_head = b[a].is_head
              /\ p[a].prev = IF a = x THEN 0 ELSE IF a = first THEN x ELSE b[a].prev
              /\ p[a].next = IF a = x THEN first ELSE b[a].next
  <2>1. b \in Memory /\ first \in Addr /\ x \in 1 .. Top /\ first # x
    BY <1>0, <1>2, <1>3, <1>5
  <2> QED BY <2>1, FreedIs
<1>7. Free(p) = Free(b) \cup {x} /\ Used(p) = Used(b) \ {x} /\ Starts(p) = Starts(b)
  <2>1. \A a \in Addr : p[a].used = IF a = x THEN "FREE" ELSE b[a].used
    BY <1>6, Zenon
  <2> QED BY <1>1, <1>2, <2>1 DEF Free, Used, Starts
<1>8. Typed(p)
  <2>1. p[0].used = "data" /\ p[0].next = WILD
    BY <1>0, <1>2, <1>6 DEF Typed
  <2>2. ASSUME NEW a \in 1 .. Top PROVE p[a].next # WILD /\ (p[a].next # 0 => p[p[a].next].used # "data")
    <3>0. a \in Addr
      BY <1>0 DEF Addr
    <3>1. b[a].next # WILD /\ (b[a].next # 0 => b[b[a].next].used # "data")
      BY DEF Typed
    <3>2. b[a].next \in Addr
      BY <1>0, <3>0, <3>1 DEF Memory, Header
    <3>3. \A y \in Addr : b[y].used # "data" => p[y].used # "data"
      BY <1>6
    <3>4. CASE a = x
      <4>1. p[a].next = first
        BY <1>6, <3>0, <3>4
      <4>2. first # WILD
        BY <1>0, <1>3, ConstantFacts DEF Addr
      <4>3. first # 0 => b[first].used # "data"
        BY <1>4 DEF Free
      <4> QED BY <1>3, <3>3, <4>1, <4>2, <4>3
    <3>5. CASE a # x
      <4>1. p[a].next = b[a].next
        BY <1>6, <3>0, <3>5
      <4> QED BY <3>1, <3>2, <3>3, <4>1
    <3> QED BY <3>4, <3>5
  <2> QED BY <1>6, <2>1, <2>2 DEF Typed
<1>9. Tile(p, arena)
  <2>1. Starts(b) \subseteq Addr
    BY DEF Starts, Free, Used
  <2>2. \A a \in Addr : Extent(p, a) = Extent(b, a) /\ p[a].size = b[a].size
    BY <1>6 DEF Extent
  <2> QED BY <1>7, <2>1, <2>2 DEF Tile
<1>10. Blank(p, arena)
  <2> SUFFICES ASSUME NEW a \in 1 .. Top, a \notin arena PROVE p[a] = NoHeader
    BY DEF Blank
  <2>1. b[a] = NoHeader /\ a \in Addr
    BY <1>0 DEF Blank, Addr
  <2>2. a # x /\ a # first
    BY <1>2, <1>4, <2>1 DEF NoHeader, Free
  <2>3. b[a] \in Header /\ p[a] \in Header
    BY <1>0, <1>6, <2>1 DEF Memory
  <2>4. /\ p[a].used = b[a].used /\ p[a].size = b[a].size /\ p[a].is_head = b[a].is_head
        /\ p[a].prev = b[a].prev /\ p[a].next = b[a].next
    BY <1>6, <2>1, <2>2
  <2> QED BY <2>1, <2>3, <2>4 DEF Header
<1>11. ASSUME NEW a \in Free(p)
       PROVE  p[a].next \in Free(p) \cup {0} /\ Extent(p, a) \subseteq Area(p)
  <2>1. Extent(p, a) \subseteq Area(p)
    BY DEF Area
  <2>2. a \in Addr
    BY DEF Free
  <2>3. CASE a = x
    BY <1>4, <1>6, <1>7, <2>1, <2>2, <2>3
  <2>4. CASE a # x
    <3>1. PICK i \in 1 .. Len(q) : q[i] = a
      BY <1>3, <1>7, <2>4
    <3>2. p[a].next = IF i = Len(q) THEN 0 ELSE q[i + 1]
      BY <1>6, <2>2, <2>4, <3>1 DEF Listed, Chain
    <3>3. i # Len(q) => i + 1 \in 1 .. Len(q)
      BY <1>3, <3>1
    <3> QED BY <1>3, <1>7, <2>1, <3>2, <3>3
  <2> QED BY <2>3, <2>4
<1>12. \A a \in Used(p) : p[a].size >= p[a].size
  <2> SUFFICES ASSUME NEW a \in Used(p) PROVE p[a].size >= p[a].size
    OBVIOUS
  <2>1. p[a].size \in Nat
    BY <1>0, <1>6 DEF Used, Memory, Header, Addr
  <2> QED BY <2>1
<1>13. Kept(p, arena, p)
  BY <1>8, <1>9, <1>10, <1>11, <1>12 DEF Kept
<1> QED BY <1>1, <1>2, <1>5, <1>6, <1>7, <1>13

-----------------------------------------------------------------------------
(* How far the walk has come.  p is memory when it begins, at the block x  *)
(* that is freed; Once(p, x) the same when x is merged with a free block   *)
(* behind it.                                                              *)

Once(p, x) == IF p[x + p[x].size].used = "FREE" THEN join(p, x, x + p[x].size) ELSE p

(* The only neighbours left are x and a block before it.                   *)
OnlyPair(b, x) == \A a \in Free(b) : a + b[a].size \in Free(b) => a + b[a].size = x

(* The same, but for the links of headers merged away.                     *)
Alike(b, c) ==
  \A a \in Addr : /\ c[a].used = b[a].used /\ c[a].size = b[a].size
                  /\ b[a].used # "0" => c[a].next = b[a].next /\ c[a].prev = b[a].prev

(* x is being looked at; or done with; or merged into a block before it,   *)
(* which links to what x links to; or a block in use has grown.            *)
AtFirst(p, x, s) == s.at \in {"block", "nb"} /\ s.cur = x /\ s.blk = p
MergedRight(p, x, s) == Alike(Once(p, x), s.blk)
MergedLeft(x, s) ==
  /\ NoPairs(s.blk) /\ s.blk[x].used = "0"
  /\ \E l \in Free(s.blk) : s.blk[x].next \in {s.blk[l].next, 0}
Swallowed(p, s) == \E a \in Used(p) : s.blk[a].size > p[a].size

Phase(p, x, s) ==
  AtFirst(p, x, s) \/ MergedRight(p, x, s) \/ MergedLeft(x, s) \/ Swallowed(p, s)

LEMMA StepPhase ==
  ASSUME NEW p \in Memory, NEW arena \in SUBSET (1 .. LastAddr), NEW x \in Free(p),
         OnlyPair(Once(p, x), x),
         NEW s, Walk(p, arena, s), Phase(p, x, s), NEW t, t = merge_step(s)
  PROVE  Phase(p, x, t)
<1> DEFINE b == s.blk
           X == Once(p, x)
           nb == Right(s)
<1>0. /\ s \in States /\ b \in Memory /\ s.cur \in Addr /\ Kept(p, arena, b) /\ Place(s)
      /\ Typed(b) /\ Tile(b, arena) /\ Walk(p, arena, t) /\ Kept(p, arena, t.blk)
      /\ t.blk \in Memory /\ x \in Addr
  <2>1. Walk(p, arena, t)
    BY StepWalk
  <2>2. x \in Addr
    BY DEF Free
  <2> QED BY <2>1, <2>2 DEF Walk, Kept, States, Typed
<1>1. t.blk = b \/ Joins(s, t) \/ Clears(s, t)
  BY StepWalk
<1>2. CASE AtFirst(p, x, s)
  <2>1. CASE s.at = "block"
    <3>1. s.cur = x /\ b = p /\ x # 0
      <4>1. s.cur = x /\ b = p
        BY <1>2 DEF AtFirst
      <4>2. x \in Starts(b)
        BY <4>1 DEF Starts
      <4> QED BY <1>0, <4>1, <4>2, TileFacts
    <3>2. t = [s EXCEPT !.at = "nb"]
      BY <1>0, <2>1, <3>1, StepIs
    <3>3. t.at = "nb" /\ t.cur = x /\ t.blk = p
      BY <1>0, <3>1, <3>2 DEF States
    <3> QED BY <3>3 DEF Phase, AtFirst
  <2>2. CASE s.at = "nb"
    <3>1. s.cur = x /\ b = p /\ nb = x + p[x].size
      BY <1>2 DEF AtFirst, Right
    <3>2. t.blk = X
      <4>1. CASE b[nb].used = "FREE"
        <5>1. LET j == join(b, s.cur, nb)
                  end == s.cur + j[s.cur].size
              IN  t = IF j[end].is_head THEN [blk |-> j, cur |-> end, at |-> "block"]
                      ELSE [blk |-> j, cur |-> s.cur, at |-> "nb"]
          BY <1>0, <2>2, <4>1, StepIs
        <5>2. t.blk = join(b, s.cur, nb)
          BY <5>1
        <5> QED BY <3>1, <4>1, <5>2 DEF Once
      <4>2. CASE b[nb].used # "FREE"
        <5>1. t = [s EXCEPT !.cur = b[s.cur].next, !.at = "skip"]
          BY <1>0, <2>2, <4>2, StepIs
        <5>2. t.blk = b
          BY <1>0, <5>1 DEF States
        <5> QED BY <3>1, <4>2, <5>2 DEF Once
      <4> QED BY <4>1, <4>2
    <3> QED BY <3>2 DEF Phase, MergedRight, Alike
  <2> QED BY <1>2, <2>1, <2>2 DEF AtFirst
<1>3. CASE t.blk = b /\ ~AtFirst(p, x, s)
  BY <1>3 DEF Phase, MergedRight, MergedLeft, Swallowed
<1>4. CASE Joins(s, t) /\ ~AtFirst(p, x, s)
  <2>1. s.at = "nb" /\ b[nb].used = "FREE" /\ t.blk = join(b, s.cur, nb) /\ nb = s.cur + b[s.cur].size
    BY <1>4 DEF Joins, Right
  <2>2. s.cur \in Starts(b)
    BY <1>0, <2>1 DEF Place
  <2> DEFINE j == t.blk
  <2> HIDE DEF b, nb, j, X
  <2>3. /\ nb \in Free(b) /\ s.cur < nb
        /\ Free(j) = Free(b) \ {nb} /\ Used(j) = Used(b)
        /\ \A a \in Addr :
              /\ j[a].used = IF a = nb THEN "0" ELSE b[a].used
              /\ j[a].size = IF a = s.cur THEN b[s.cur].size + b[nb].size ELSE b[a].size
              /\ j[a].next = IF a = s.cur THEN b[nb].next ELSE b[a].next
    <3>1. t.blk = join(b, s.cur, nb) /\ b[nb].used = "FREE" /\ nb = s.cur + b[s.cur].size
      BY <2>1
    <3>2. Typed(b) /\ Tile(b, arena)
      BY <1>0 DEF b
    <3> QED BY <2>2, <3>1, <3>2, JoinTile DEF j
  <2>4. s.cur \in Addr /\ nb \in Addr /\ b[s.cur].size \in Nat \ {0} /\ b[nb].size \in Nat \ {0}
    <3>1. nb \in Starts(b) /\ b \in Memory /\ Tile(b, arena)
      BY <1>0, <2>3 DEF Starts, b
    <3> QED BY <2>2, <3>1, TileFacts
  <2>5. CASE s.cur \in Used(b)
    <3>1. s.cur \in Used(p) /\ b[s.cur].size >= p[s.cur].size
      BY <1>0, <2>5 DEF Kept, b
    <3>2. j[s.cur].size = b[s.cur].size + b[nb].size
      BY <2>3, <2>4
    <3>3. p[s.cur].size \in Nat
      <4>1. p[s.cur].size \in Addr
        BY <2>4 DEF Memory, Header
      <4> QED BY <4>1, ConstantFacts DEF Addr
    <3>4. j[s.cur].size > p[s.cur].size
      BY <2>4, <3>1, <3>2, <3>3
    <3> QED BY <3>1, <3>4 DEF Phase, Swallowed, j
  <2>6. CASE s.cur \in Free(b)
    <3>1. CASE MergedRight(p, x, s)
      <4>1. \A a \in Addr : /\ b[a].used = X[a].used /\ b[a].size = X[a].size
        BY <3>1 DEF MergedRight, Alike, X, b
      <4>2. Free(X) = Free(b)
        BY <4>1 DEF Free
      <4>3. \A a \in Free(b) : a \in Addr /\ X[a].size = b[a].size
        BY <4>1 DEF Free
      <4>4. OnlyPair(X, x)
        BY DEF X
      <4>5. \A a \in Free(b) : a + b[a].size \in Free(b) => a + b[a].size = x
        BY <4>2, <4>3, <4>4 DEF OnlyPair
      <4>6. nb = x
        BY <2>1, <2>3, <2>6, <4>5 DEF b
      <4>7. NoPairs(j)
        <5> SUFFICES ASSUME NEW a \in Free(j), a + j[a].size \in Free(j) PROVE FALSE
          BY DEF NoPairs
        <5>1. a \in Free(b) /\ a \in Addr /\ x \notin Free(j) /\ a + j[a].size \in Free(b)
          BY <2>3, <4>3, <4>6
        <5>2. CASE a = s.cur
          <6>1. j[a].size = b[s.cur].size + b[nb].size
            BY <2>3, <2>4, <5>2
          <6>2. a + j[a].size = x + b[x].size
            BY <2>1, <2>4, <4>6, <5>2, <6>1, ConstantFacts DEF Addr, b
          <6>3. x + b[x].size = x
            BY <2>3, <4>5, <4>6, <5>1, <6>2
          <6> QED BY <2>4, <4>6, <6>3, ConstantFacts DEF Addr
        <5>3. CASE a # s.cur
          <6>1. j[a].size = b[a].size
            BY <2>3, <5>1, <5>3
          <6> QED BY <4>5, <5>1, <6>1
        <5> QED BY <5>2, <5>3
      <4>8. j[x].used = "0" /\ j[x].next = b[x].next /\ j[s.cur].next = b[x].next /\ s.cur \in Free(j)
        BY <2>3, <2>4, <2>6, <4>6, ConstantFacts DEF Addr
      <4> QED BY <4>7, <4>8 DEF Phase, MergedLeft, j
    <3>2. CASE MergedLeft(x, s)
      <4>1. NoPairs(b)
        BY <3>2 DEF MergedLeft, b
      <4> QED BY <2>1, <2>3, <2>6, <4>1 DEF NoPairs, b
    <3>3. CASE Swallowed(p, s)
      <4>1. PICK a \in Used(p) : b[a].size > p[a].size
        BY <3>3 DEF Swallowed, b
      <4>2. a \in Used(b) /\ a # s.cur /\ a \in Addr
        BY <1>0, <2>6 DEF Kept, Used, Free, b
      <4>3. j[a].size = b[a].size
        BY <2>3, <4>2
      <4> QED BY <4>1, <4>3 DEF Phase, Swallowed, j
    <3> QED BY <1>4, <3>1, <3>2, <3>3 DEF Phase
  <2> QED BY <2>2, <2>5, <2>6 DEF Starts
<1>5. CASE Clears(s, t) /\ ~AtFirst(p, x, s)
  <2>1. s.cur # 0 /\ b[s.cur].used = "0" /\ t.blk = Clear(b, s.cur)
    BY <1>5 DEF Clears
  <2> DEFINE c == t.blk
  <2>2. s.cur \in 1 .. Top
    BY <1>0, <2>1, ConstantFacts DEF Addr
  <2> HIDE DEF b, c, X
  <2>3. \A a \in Addr :
              /\ c[a].used = b[a].used /\ c[a].size = b[a].size
              /\ c[a].prev = IF a = s.cur THEN 0 ELSE b[a].prev
              /\ c[a].next = IF a = s.cur THEN 0 ELSE b[a].next
    <3>1. b \in Memory /\ c = Clear(b, s.cur)
      BY <1>0, <2>1 DEF b, c
    <3> QED BY <2>2, <3>1, ClearIs
  <2>4. CASE MergedRight(p, x, s)
    <3>1. Alike(X, b)
      BY <2>4 DEF MergedRight, X, b
    <3>2. Alike(X, c)
      <4> SUFFICES ASSUME NEW a \in Addr
                   PROVE  /\ c[a].used = X[a].used /\ c[a].size = X[a].size
                          /\ X[a].used # "0" => c[a].next = X[a].next /\ c[a].prev = X[a].prev
        BY DEF Alike
      <4>1. /\ b[a].used = X[a].used /\ b[a].size = X[a].size
            /\ X[a].used # "0" => b[a].next = X[a].next /\ b[a].prev = X[a].prev
        BY <3>1 DEF Alike
      <4>2. CASE a = s.cur
        BY <2>1, <2>3, <4>1, <4>2
      <4>3. CASE a # s.cur
        BY <2>3, <4>1, <4>3
      <4> QED BY <4>2, <4>3
    <3> QED BY <3>2 DEF Phase, MergedRight, X, c
  <2>5. CASE MergedLeft(x, s)
    <3>1. PICK l \in Free(b) : b[x].next \in {b[l].next, 0}
      BY <2>5 DEF MergedLeft, b
    <3>2. NoPairs(b) /\ b[x].used = "0"
      BY <2>5 DEF MergedLeft, b
    <3>3. Free(c) = Free(b)
      BY <2>3 DEF Free
    <3>4. NoPairs(c)
      <4>1. \A a \in Free(b) : c[a].size = b[a].size
        BY <2>3 DEF Free
      <4> QED BY <3>2, <3>3, <4>1 DEF NoPairs
    <3>5. c[x].used = "0"
      BY <1>0, <2>3, <3>2
    <3>6. c[l].next = b[l].next
      <4>1. l \in Addr /\ l # s.cur
        BY <2>1, <3>1 DEF Free
      <4> QED BY <2>3, <4>1
    <3>7. c[x].next \in {c[l].next, 0}
      <4>1. c[x].next = IF x = s.cur THEN 0 ELSE b[x].next
        BY <1>0, <2>3
      <4> QED BY <3>1, <3>6, <4>1
    <3> QED BY <3>1, <3>3, <3>4, <3>5, <3>7 DEF Phase, MergedLeft, c
  <2>6. CASE Swallowed(p, s)
    <3>1. PICK a \in Used(p) : b[a].size > p[a].size
      BY <2>6 DEF Swallowed, b
    <3>2. c[a].size = b[a].size
      BY <2>3 DEF Used
    <3> QED BY <3>1, <3>2 DEF Phase, Swallowed, c
  <2> QED BY <1>5, <2>4, <2>5, <2>6 DEF Phase
<1> QED BY <1>1, <1>2, <1>3, <1>4, <1>5

(* What is known when the walk is over, or given up.                       *)
LEMMA MergedIs ==
  ASSUME NEW p \in Memory, NEW arena \in SUBSET (1 .. LastAddr), NEW x \in Free(p),
         Kept(p, arena, p), OnlyPair(Once(p, x), x), NEW m, m = Merged(p, x)
  PROVE  Walk(p, arena, m) /\ Phase(p, x, m)
<1> DEFINE S == {s \in States : Walk(p, arena, s) /\ Phase(p, x, s)}
           start == [blk |-> p, cur |-> x, at |-> "block"]
<1>0. Fuel \in Nat
  BY ConstantFacts
<1>1. PICK f : f[0] = start /\ (\A k \in 1 .. Fuel : f[k] = merge_step(f[k - 1])) /\ m = f[Fuel]
  BY MergedLoop
<1>2. f[0] \in S
  <2>1. x \in Addr /\ x \in Starts(p)
    BY DEF Free, Starts
  <2>2. start \in States
    BY <2>1 DEF States
  <2>3. Walk(p, arena, start)
    <3>1. Place(start)
      BY <2>1 DEF Place
    <3> QED BY <2>2, <3>1 DEF Walk
  <2>4. Phase(p, x, start)
    BY DEF Phase, AtFirst
  <2> QED BY <1>1, <2>2, <2>3, <2>4
<1>3. ASSUME NEW k \in 1 .. Fuel, f[k - 1] \in S PROVE f[k] \in S
  <2>1. f[k] = merge_step(f[k - 1]) /\ Walk(p, arena, f[k - 1]) /\ Phase(p, x, f[k - 1])
    BY <1>1, <1>3
  <2>2. Walk(p, arena, f[k])
    BY <2>1, StepWalk
  <2>3. Phase(p, x, f[k])
    BY <2>1, StepPhase
  <2>4. f[k] \in States
    BY <2>2 DEF Walk
  <2> QED BY <2>2, <2>3, <2>4
<1>4. f[Fuel] \in S
  <2> HIDE DEF S
  <2> QED BY <1>0, <1>2, <1>3, RoundsIn
<1> QED BY <1>1, <1>4

-----------------------------------------------------------------------------
(* The list kfree leaves.                                                  *)

(* The block behind x is the i-th on the list, or in use and i is 0.       *)
LEMMA OnceFacts ==
  ASSUME NEW b, Typed(b), NEW arena \in SUBSET (1 .. LastAddr), Tile(b, arena), Blank(b, arena),
         NEW first, NEW q, Listed(b, first, q), NEW x \in Used(b), NoPairs(b),
         NEW p, p = Freed(b, first, x), NEW X, X = Once(p, x)
  PROVE  /\ OnlyPair(X, x)
         /\ \E i \in 0 .. Len(q) :
              /\ Free(X) = {x} \cup (Free(b) \ (IF i = 0 THEN {} ELSE {q[i]}))
              /\ X[x].prev = 0 /\ X[x].next = IF i = Len(q) THEN 0 ELSE q[i + 1]
              /\ \A k \in 1 .. Len(q) : k # i => X[q[k]].next = IF k = Len(q) THEN 0 ELSE q[k + 1]
              /\ \A k \in i + 1 .. Len(q) : X[q[k]].prev = IF k = i + 1 THEN x ELSE q[k - 1]
<1> DEFINE r == x + p[x].size
<1>1. /\ Kept(p, arena, p) /\ p \in Memory
      /\ Free(p) = Free(b) \cup {x} /\ Used(p) = Used(b) \ {x}
      /\ x \in arena /\ x \in 1 .. Top /\ x \in Addr /\ x \notin Free(b) /\ first # x
      /\ \A a \in Addr :
              /\ p[a].used = IF a = x THEN "FREE" ELSE b[a].used
              /\ p[a].size = b[a].size /\ p[a].is_head = b[a].is_head
              /\ p[a].prev = IF a = x THEN 0 ELSE IF a = first THEN x ELSE b[a].prev
              /\ p[a].next = IF a = x THEN first ELSE b[a].next
  BY FreedFacts
<1>2. /\ Len(q) \in Nat /\ q \in Seq(1 .. Top)
      /\ \A i, j \in 1 .. Len(q) : q[i] = q[j] => i = j
      /\ \A i \in 1 .. Len(q) : q[i] \in Free(b)
      /\ \A a \in Free(b) : \E i \in 1 .. Len(q) : q[i] = a
  BY ListFacts
<1>3. /\ first = IF Len(q) = 0 THEN 0 ELSE q[1]
      /\ \A i \in 1 .. Len(q) : b[q[i]].next = IF i = Len(q) THEN 0 ELSE q[i + 1]
      /\ \A i \in 1 .. Len(q) : b[q[i]].prev = IF i = 1 THEN 0 ELSE q[i - 1]
  <2>1. q = << >> <=> Len(q) = 0
    BY <1>2
  <2> QED BY <2>1 DEF Listed, Chain, BackLinks
<1>4. Typed(p) /\ Tile(p, arena) /\ x \in Starts(p) /\ x \in Free(p)
  BY <1>1 DEF Kept, Starts
<1>5. p[x].size \in Nat \ {0} /\ r \in Addr /\ x \in Nat /\ r \in 1 .. Top /\ r # x
  <2>1. p[x].size \in Nat \ {0} /\ x + p[x].size \in Addr /\ x \in 1 .. LastAddr /\ x + p[x].size \in 1 .. Top
    BY <1>1, <1>4, TileFacts
  <2> QED BY <2>1, ConstantFacts
<1>6. \A a \in Free(b) : a \in Addr /\ a # x /\ p[a].size = b[a].size
  BY <1>1 DEF Free
<1>7. \A k \in 1 .. Len(q) : q[k] \in Addr /\ q[k] # x /\ q[k] # 0
  <2>1. \A k \in 1 .. Len(q) : q[k] \in 1 .. Top
    BY <1>2, ElementOfSeq
  <2> QED BY <1>2, <1>6, <2>1
<1>8. \A k \in 1 .. Len(q) : /\ p[q[k]].next = IF k = Len(q) THEN 0 ELSE q[k + 1]
                             /\ p[q[k]].prev = IF k = 1 THEN x ELSE q[k - 1]
  <2> SUFFICES ASSUME NEW k \in 1 .. Len(q)
               PROVE  /\ p[q[k]].next = IF k = Len(q) THEN 0 ELSE q[k + 1]
                      /\ p[q[k]].prev = IF k = 1 THEN x ELSE q[k - 1]
    OBVIOUS
  <2>1. p[q[k]].next = b[q[k]].next
    BY <1>1, <1>7
  <2>2. q[k] = first <=> k = 1
    <3>1. 1 \in 1 .. Len(q) /\ first = q[1]
      BY <1>2, <1>3
    <3> QED BY <1>2, <3>1
  <2>3. p[q[k]].prev = IF k = 1 THEN x ELSE b[q[k]].prev
    BY <1>1, <1>7, <2>2
  <2> QED BY <1>3, <2>1, <2>3
<1>9. p[x].prev = 0 /\ p[x].next = IF Len(q) = 0 THEN 0 ELSE q[1]
  BY <1>1, <1>3
<1> HIDE DEF r
<1>10. CASE p[r].used # "FREE"
  <2>1. X = p
    BY <1>10 DEF Once, r
  <2>2. OnlyPair(X, x)
    <3> SUFFICES ASSUME NEW a \in Free(p), a + p[a].size \in Free(p) PROVE a + p[a].size = x
      BY <2>1 DEF OnlyPair
    <3>1. CASE a = x
      BY <1>10, <3>1 DEF Free, r
    <3>2. CASE a # x
      <4>1. a \in Free(b)
        BY <1>1, <3>2
      <4>2. a + p[a].size \notin Free(b)
        BY <1>6, <4>1 DEF NoPairs
      <4> QED BY <1>1, <4>2
    <3> QED BY <3>1, <3>2
  <2>3. 0 \in 0 .. Len(q) /\ 0 + 1 = 1 /\ \A k \in 1 .. Len(q) : k # 0
    BY <1>2
  <2>4. X[x].prev = 0 /\ X[x].next = IF 0 = Len(q) THEN 0 ELSE q[0 + 1]
    BY <1>9, <2>1
  <2>5. Free(X) = {x} \cup (Free(b) \ (IF 0 = 0 THEN {} ELSE {q[0]}))
    BY <1>1, <2>1
  <2> QED BY <1>8, <2>1, <2>2, <2>3, <2>4, <2>5
<1>11. CASE p[r].used = "FREE"
  <2>1. X = join(p, x, r)
    BY <1>11 DEF Once, r
  <2>2. /\ r \in Free(p) /\ x < r
        /\ Free(X) = Free(p) \ {r}
        /\ p[r].next \in Addr
        /\ \A a \in Addr :
              /\ X[a].used = IF a = r THEN "0" ELSE p[a].used
              /\ X[a].size = IF a = x THEN p[x].size + p[r].size ELSE p[a].size
              /\ X[a].is_head = p[a].is_head
              /\ X[a].prev = IF a = p[r].next THEN x ELSE p[a].prev
              /\ X[a].next = IF a = x THEN p[r].next ELSE p[a].next
    <3>1. r = x + p[x].size
      BY DEF r
    <3> QED BY <1>4, <1>11, <2>1, <3>1, JoinTile
  <2>3. r \in Free(b)
    BY <1>1, <1>5, <2>2
  <2>4. PICK i \in 1 .. Len(q) : q[i] = r
    BY <1>2, <2>3
  <2>5. p[r].next = IF i = Len(q) THEN 0 ELSE q[i + 1]
    BY <1>8, <2>4
  <2>6. OnlyPair(X, x)
    <3> SUFFICES ASSUME NEW a \in Free(X), a + X[a].size \in Free(X) PROVE a + X[a].size = x
      BY DEF OnlyPair
    <3>1. a \in Free(p) /\ a \in Addr /\ a + X[a].size \in Free(p)
      BY <2>2 DEF Free
    <3>2. r \in Starts(p) /\ p[r].size \in Nat \ {0} /\ r \in Nat
      <4>1. r \in Starts(p)
        BY <2>2 DEF Starts
      <4> QED BY <1>1, <1>4, <1>5, <4>1, TileFacts
    <3>3. CASE a = x
      <4>1. X[a].size = p[x].size + p[r].size
        BY <1>1, <2>2, <3>3
      <4>2. a + X[a].size = r + p[r].size
        BY <1>5, <3>2, <3>3, <4>1 DEF r
      <4>3. r + p[r].size \notin Free(b)
        BY <1>6, <2>3 DEF NoPairs
      <4>4. r + p[r].size # x
        BY <1>5, <2>2, <3>2
      <4> QED BY <1>1, <3>1, <4>2, <4>3, <4>4
    <3>4. CASE a # x
      <4>1. a \in Free(b) /\ X[a].size = p[a].size
        BY <1>1, <2>2, <3>1, <3>4
      <4>2. a + p[a].size \notin Free(b)
        BY <1>6, <4>1 DEF NoPairs
      <4> QED BY <1>1, <3>1, <4>1, <4>2
    <3> QED BY <3>3, <3>4
  <2>7. i \in 0 .. Len(q) /\ i # 0
    BY <1>2
  <2>8. Free(X) = {x} \cup (Free(b) \ (IF i = 0 THEN {} ELSE {q[i]}))
    BY <1>1, <1>5, <2>2, <2>4, <2>7
  <2>9. X[x].prev = 0 /\ X[x].next = IF i = Len(q) THEN 0 ELSE q[i + 1]
    <3>1. x # p[r].next
      <4>1. i # Len(q) => i + 1 \in 1 .. Len(q)
        BY <1>2
      <4>2. x # 0
        BY <1>1
      <4> QED BY <1>7, <2>5, <4>1, <4>2
    <3> QED BY <1>1, <1>9, <2>2, <2>5, <3>1
  <2>10. ASSUME NEW k \in 1 .. Len(q), k # i
         PROVE  X[q[k]].next = IF k = Len(q) THEN 0 ELSE q[k + 1]
    <3>1. X[q[k]].next = p[q[k]].next
      BY <1>7, <2>2
    <3> QED BY <1>8, <3>1
  <2>11. ASSUME NEW k \in i + 1 .. Len(q)
         PROVE  X[q[k]].prev = IF k = i + 1 THEN x ELSE q[k - 1]
    <3>1. k \in 1 .. Len(q) /\ k # 1 /\ i + 1 \in 1 .. Len(q) /\ i # Len(q)
      BY <1>2
    <3>2. q[k] = p[r].next <=> k = i + 1
      BY <1>2, <2>5, <3>1
    <3>3. X[q[k]].prev = IF k = i + 1 THEN x ELSE p[q[k]].prev
      BY <1>7, <2>2, <3>1, <3>2
    <3> QED BY <1>8, <3>1, <3>3
  <2> QED BY <2>6, <2>7, <2>8, <2>9, <2>10, <2>11
<1> QED BY <1>10, <1>11

(* When nothing got lost, the list is x and what was on it before, but for *)
(* its first block when that was merged.                                   *)
LEMMA FreedList ==
  ASSUME NEW b, Typed(b), NEW arena \in SUBSET (1 .. LastAddr), Tile(b, arena), Blank(b, arena),
         NEW first, NEW q, Listed(b, first, q), NEW x \in Used(b), NoPairs(b),
         NEW p, p = Freed(b, first, x), NEW X, X = Once(p, x),
         NEW m, Typed(m), Alike(X, m),
         \A a \in Free(b) : m[a].used = "FREE" => a \in Range(ListOf(m, x))
  PROVE  Listed(m, x, ListOf(m, x))
<1> DEFINE n == Len(q)
<1>1. /\ x \in 1 .. Top /\ x \in Addr /\ x \notin Free(b) /\ x \in 1 .. LastAddr /\ b \in Memory
  <2>1. x \in Starts(b) /\ b \in Memory
    BY DEF Starts, Typed
  <2>2. x \in 1 .. LastAddr
    BY <2>1, TileFacts
  <2> QED BY <2>1, <2>2, FreedFacts
<1>2. /\ Len(q) \in Nat /\ q \in Seq(1 .. Top)
      /\ \A i, j \in 1 .. Len(q) : q[i] = q[j] => i = j
      /\ \A i \in 1 .. Len(q) : q[i] \in Free(b)
      /\ \A a \in Free(b) : \E i \in 1 .. Len(q) : q[i] = a
  BY ListFacts
<1>3. PICK i \in 0 .. Len(q) :
              /\ Free(X) = {x} \cup (Free(b) \ (IF i = 0 THEN {} ELSE {q[i]}))
              /\ X[x].prev = 0 /\ X[x].next = IF i = Len(q) THEN 0 ELSE q[i + 1]
              /\ \A k \in 1 .. Len(q) : k # i => X[q[k]].next = IF k = Len(q) THEN 0 ELSE q[k + 1]
              /\ \A k \in i + 1 .. Len(q) : X[q[k]].prev = IF k = i + 1 THEN x ELSE q[k - 1]
  BY OnceFacts
<1>4. n \in Nat /\ i \in Nat /\ i <= n
  BY <1>2
<1>5. Free(b) \subseteq 1 .. LastAddr
  <2> SUFFICES ASSUME NEW a \in Free(b) PROVE a \in 1 .. LastAddr
    OBVIOUS
  <2>1. a \in Starts(b)
    BY DEF Starts
  <2> QED BY <1>1, <2>1, TileFacts
<1>6. \A a \in Free(X) : m[a].used = "FREE" /\ m[a].next = X[a].next /\ m[a].prev = X[a].prev
  <2> SUFFICES ASSUME NEW a \in Free(X)
               PROVE  m[a].used = "FREE" /\ m[a].next = X[a].next /\ m[a].prev = X[a].prev
    OBVIOUS
  <2>1. a \in Addr /\ X[a].used = "FREE"
    BY DEF Free
  <2> QED BY <2>1 DEF Alike
<1>7. Free(m) = Free(X)
  BY DEF Free, Alike
<1> DEFINE w == [k \in 1 .. n + 1 - i |-> IF k = 1 THEN x ELSE q[k + i - 1]]
<1>8. n + 1 - i \in Nat \ {0}
  BY <1>4
<1>9. \A k \in 1 .. n + 1 - i : k # 1 => k + i - 1 \in i + 1 .. n /\ k + i - 1 \in 1 .. n /\ k + i - 1 # i
  BY <1>4
<1>10. \A k \in 1 .. n + 1 - i : w[k] = IF k = 1 THEN x ELSE q[k + i - 1]
  OBVIOUS
<1>11. \A k \in 1 .. n + 1 - i : w[k] \in Free(X)
  <2> SUFFICES ASSUME NEW k \in 1 .. n + 1 - i PROVE w[k] \in Free(X)
    OBVIOUS
  <2>1. CASE k = 1
    BY <1>3, <1>10, <2>1
  <2>2. CASE k # 1
    <3>1. w[k] = q[k + i - 1] /\ k + i - 1 \in 1 .. n /\ k + i - 1 # i
      BY <1>9, <1>10, <2>2
    <3>2. i # 0 => q[k + i - 1] # q[i]
      <4>1. i # 0 => i \in 1 .. n
        BY <1>4
      <4> QED BY <1>2, <3>1, <4>1
    <3> HIDE DEF w
    <3> QED BY <1>2, <1>3, <3>1, <3>2
  <2> QED BY <2>1, <2>2
<1>12. Free(X) \subseteq 1 .. LastAddr
  BY <1>1, <1>3, <1>5
<1>13. w \in Seq(1 .. Top) /\ Len(w) = n + 1 - i /\ w # << >> /\ DOMAIN w = 1 .. n + 1 - i
  <2>1. \A k \in 1 .. n + 1 - i : w[k] \in 1 .. Top
    <3>1. 1 .. LastAddr \subseteq 1 .. Top
      BY ConstantFacts
    <3> HIDE DEF w
    <3> QED BY <1>11, <1>12, <3>1
  <2>2. w = [k \in 1 .. n + 1 - i |-> w[k]]
    OBVIOUS
  <2> HIDE DEF w
  <2>3. w \in [1 .. n + 1 - i -> 1 .. Top] /\ DOMAIN w = 1 .. n + 1 - i
    BY <2>1, <2>2
  <2>4. w \in Seq(1 .. Top)
    BY <1>8, <2>3, SeqDef
  <2>5. Len(w) = n + 1 - i
    BY <1>8, <2>3, <2>4, LenProperties
  <2>6. w # << >>
    BY <1>8, <2>5
  <2> QED BY <2>3, <2>4, <2>5, <2>6
<1> HIDE DEF w
<1>14. Chain(m, x, w)
  <2>1. x = IF w = << >> THEN 0 ELSE w[1]
    BY <1>8, <1>10, <1>13
  <2>2. ASSUME NEW k \in 1 .. Len(w) PROVE m[w[k]].next = IF k = Len(w) THEN 0 ELSE w[k + 1]
    <3>1. k \in 1 .. n + 1 - i
      BY <1>13
    <3>2. m[w[k]].next = X[w[k]].next
      BY <1>6, <1>11, <3>1
    <3>3. k # n + 1 - i => k + 1 \in 1 .. n + 1 - i /\ k + 1 # 1
      BY <1>4, <3>1
    <3>4. k # n + 1 - i => w[k + 1] = q[k + i]
      <4>1. (k + 1) + i - 1 = k + i
        BY <1>4
      <4> QED BY <1>10, <3>3, <4>1
    <3>5. CASE k = 1
      BY <1>3, <1>4, <1>10, <1>13, <3>1, <3>2, <3>4, <3>5
    <3>6. CASE k # 1
      <4>1. w[k] = q[k + i - 1] /\ k + i - 1 \in 1 .. n /\ k + i - 1 # i
        BY <1>9, <1>10, <3>1, <3>6
      <4>2. X[w[k]].next = IF k + i - 1 = n THEN 0 ELSE q[(k + i - 1) + 1]
        BY <1>3, <4>1
      <4>3. (k + i - 1) + 1 = k + i /\ (k + i - 1 = n <=> k = n + 1 - i)
        BY <1>4, <3>1
      <4> QED BY <1>13, <3>2, <3>4, <4>2, <4>3
    <3> QED BY <3>5, <3>6
  <2> QED BY <1>13, <2>1, <2>2 DEF Chain
<1>15. ListOf(m, x) = w
  <2>1. Range(w) \subseteq 1 .. LastAddr
    BY <1>11, <1>12, <1>13 DEF Range
  <2>2. Len(w) < Fuel
    BY <1>14, <2>1, ShortList
  <2>3. m \in Memory /\ \A a \in 1 .. Top : m[a].next # WILD
    BY DEF Typed
  <2> QED BY <1>1, <1>14, <2>2, <2>3, ChainUnique
<1>16. i <= 1
  <2> SUFFICES ASSUME i > 1 PROVE FALSE
    BY <1>4
  <2>1. 1 \in 1 .. n /\ i \in 1 .. n /\ i # 1
    BY <1>4
  <2>2. q[1] \in Free(b) /\ q[1] # q[i] /\ q[1] # x
    BY <1>1, <1>2, <2>1
  <2>3. q[1] \in Free(X)
    BY <1>3, <2>2
  <2>4. q[1] \in Range(w)
    BY <1>6, <1>15, <2>2, <2>3
  <2>5. PICK k \in 1 .. n + 1 - i : w[k] = q[1]
    BY <1>13, <2>4 DEF Range
  <2>6. k # 1
    BY <1>8, <1>10, <2>2, <2>5
  <2>7. q[k + i - 1] = q[1] /\ k + i - 1 \in 1 .. n
    BY <1>9, <1>10, <2>5, <2>6
  <2>8. k + i - 1 = 1
    BY <1>2, <2>1, <2>7
  <2> QED BY <1>4, <2>5, <2>8
<1>17. Range(w) = Free(m)
  <2>1. Range(w) \subseteq Free(m)
    BY <1>7, <1>11, <1>13 DEF Range
  <2>2. ASSUME NEW a \in Free(m) PROVE a \in Range(w)
    <3>1. a = x \/ (a \in Free(b) /\ (i # 0 => a # q[i]))
      BY <1>3, <1>7
    <3>2. CASE a = x
      <4>1. 1 \in 1 .. n + 1 - i
        BY <1>8
      <4> QED BY <1>10, <1>13, <3>2, <4>1 DEF Range
    <3>3. CASE a \in Free(b) /\ (i # 0 => a # q[i])
      <4>1. PICK k \in 1 .. n : q[k] = a
        BY <1>2, <3>3
      <4>2. k # i
        BY <1>4, <3>3, <4>1
      <4>3. k + 1 - i \in 1 .. n + 1 - i /\ k + 1 - i # 1 /\ (k + 1 - i) + i - 1 = k
        BY <1>4, <1>16, <4>1, <4>2
      <4>4. w[k + 1 - i] = q[k]
        BY <1>10, <4>3
      <4> QED BY <1>13, <4>1, <4>3, <4>4 DEF Range
    <3> QED BY <3>1, <3>2, <3>3
  <2> QED BY <2>1, <2>2
<1>18. BackLinks(m, w)
  <2> SUFFICES ASSUME NEW k \in 1 .. Len(w) PROVE m[w[k]].prev = IF k = 1 THEN 0 ELSE w[k - 1]
    BY DEF BackLinks
  <2>1. k \in 1 .. n + 1 - i
    BY <1>13
  <2>2. m[w[k]].prev = X[w[k]].prev
    BY <1>6, <1>11, <2>1
  <2>3. CASE k = 1
    BY <1>3, <1>10, <2>1, <2>2, <2>3
  <2>4. CASE k # 1
    <3>1. w[k] = q[k + i - 1] /\ k + i - 1 \in i + 1 .. n
      BY <1>9, <1>10, <2>1, <2>4
    <3>2. X[w[k]].prev = IF k + i - 1 = i + 1 THEN x ELSE q[(k + i - 1) - 1]
      BY <1>3, <3>1
    <3>3. k - 1 \in 1 .. n + 1 - i
      BY <1>4, <2>1, <2>4
    <3>4. w[k - 1] = IF k - 1 = 1 THEN x ELSE q[(k - 1) + i - 1]
      BY <1>10, <3>3
    <3>5. (k + i - 1 = i + 1 <=> k - 1 = 1) /\ (k + i - 1) - 1 = (k - 1) + i - 1
      BY <1>4, <2>1
    <3> QED BY <2>2, <2>4, <3>2, <3>4, <3>5
  <2> QED BY <2>3, <2>4
<1> QED BY <1>14, <1>15, <1>17, <1>18 DEF Listed

-----------------------------------------------------------------------------
(* kfree keeps the invariant.                                              *)

LEMMA Arena ==
  ASSUME IInv
  PROVE  AddressesOf(heap) \in SUBSET (1 .. LastAddr)
BY ArenaIn DEF IInv, HeapTypeOK

(* What kfree merges, whatever comes of it.                                *)
LEMMA FreeMerges ==
  ASSUME IInv, cause = {}, NEW c \in live,
         NEW p, p = Freed(blk, free_list, c.at), NEW m, m = Merged(p, c.at)
  PROVE  /\ c.at \in Used(blk) /\ c.at \in 1 .. Top /\ p \in Memory
         /\ Walk(p, AddressesOf(heap), m) /\ Phase(p, c.at, m)
         /\ Free(p) = Free(blk) \cup {c.at} /\ Used(p) = Used(blk) \ {c.at}
         /\ \A a \in Addr : p[a].size = blk[a].size /\ p[a].is_head = blk[a].is_head
<1> DEFINE arena == AddressesOf(heap)
           x == c.at
<1>1. arena \in SUBSET (1 .. LastAddr)
  BY Arena
<1>2. /\ Typed(blk) /\ Tile(blk, arena) /\ Blank(blk, arena) /\ NoPairs(blk) /\ InUse(blk, live)
      /\ \E q : Listed(blk, free_list, q)
  BY DEF IInv, Tidy
<1>3. x \in Used(blk)
  BY <1>2 DEF InUse
<1>4. PICK q : Listed(blk, free_list, q)
  BY <1>2
<1> HIDE DEF arena, x
<1>5. p = Freed(blk, free_list, x) /\ m = Merged(p, x)
  BY DEF x
<1>6. /\ Kept(p, arena, p) /\ p \in Memory
      /\ Free(p) = Free(blk) \cup {x} /\ Used(p) = Used(blk) \ {x} /\ x \in 1 .. Top
      /\ \A a \in Addr : p[a].size = blk[a].size /\ p[a].is_head = blk[a].is_head
  BY <1>1, <1>2, <1>3, <1>4, <1>5, FreedFacts
<1>7. OnlyPair(Once(p, x), x)
  <2> DEFINE X == Once(p, x)
  <2>1. X = Once(p, x)
    OBVIOUS
  <2> HIDE DEF X
  <2>2. OnlyPair(X, x)
    BY <1>1, <1>2, <1>3, <1>4, <1>5, <2>1, OnceFacts
  <2> QED BY <2>1, <2>2
<1>8. x \in Free(p)
  BY <1>6
<1>9. Walk(p, arena, m) /\ Phase(p, x, m)
  BY <1>1, <1>5, <1>6, <1>7, <1>8, MergedIs
<1> QED BY <1>3, <1>6, <1>9 DEF arena, x

(* What kfree does, m being where its walk ends and whole what is given back. *)
FreeEffect(c, m, list, whole) ==
  /\ c \in live /\ live' = live \ {c} /\ free_list' = c.at /\ other' = other
  /\ \/ /\ m.at # "done" \/ Len(list) = Fuel
        /\ blk' = blk /\ heap' = heap /\ cause' = cause \cup {"hang"}
     \/ /\ m.at = "done" /\ Len(list) # Fuel
        /\ blk' = [a \in DOMAIN blk |-> IF a \in whole THEN [m.blk[a] EXCEPT !.size = 0]
                                        ELSE m.blk[a]]
        /\ heap' = heap \ UNION {a \div Page .. a \div Page + ChunkPages - 1 : a \in whole}
        /\ "hang" \notin cause' \ cause
        /\ whole # {} => "stale" \in cause'
        /\ (\E a \in whole : ~blk[a].is_head) => "misfreed" \in cause'
        /\ {a \in FreeBlocks : m.blk[a].used = "FREE" /\ a \notin Range(list)} # {}
             => "lost" \in cause'
        /\ {d \in live \ {c} : m.blk[d.at].size # blk[d.at].size} # {} => "swallowed" \in cause'
        /\ {a \in Range(list) : a + m.blk[a].size \in Range(list)} # {} => "unmerged" \in cause'
  /\ cause' \subseteq cause \cup {"hang", "lost", "stale", "swallowed", "misfreed", "unmerged"}
  /\ "misfreed" \in cause' => "misfreed" \in cause \/ \E a \in whole : ~blk[a].is_head

(* The handler, in terms of these.                                         *)
LEMMA FreeDoes ==
  ASSUME NEW c, kfree(c), NEW p, p = Freed(blk, free_list, c.at), NEW m, m = Merged(p, c.at),
         NEW list, list = ListOf(m.blk, c.at),
         NEW whole, whole = {a \in Range(list) : m.blk[a].size = Chunk}
  PROVE  FreeEffect(c, m, list, whole)
<1> DEFINE hangs == m.at # "done" \/ Len(list) = Fuel
           gone == {a \in FreeBlocks : m.blk[a].used = "FREE" /\ a \notin Range(list)}
           grown == {d \in live \ {c} : m.blk[d.at].size # blk[d.at].size}
           missed == {a \in Range(list) : a + m.blk[a].size \in Range(list)}
           inside == \E a \in whole : ~blk[a].is_head
<1>1. p = [blk EXCEPT ![free_list].prev = c.at,
                      ![c.at].next = free_list, ![c.at].prev = 0, ![c.at].used = "FREE"]
  BY DEF Freed
<1>2. c \in live /\ live' = live \ {c} /\ free_list' = c.at /\ other' = other
  BY DEF kfree
<1>3. IF hangs THEN UNCHANGED <<blk, heap>>
      ELSE /\ blk' = [a \in DOMAIN blk |-> IF a \in whole THEN [m.blk[a] EXCEPT !.size = 0]
                                            ELSE m.blk[a]]
           /\ heap' = heap \ UNION {a \div Page .. a \div Page + ChunkPages - 1 : a \in whole}
  BY <1>1, ZenonT(60) DEF kfree
<1>4. cause' = cause \cup (IF hangs THEN {"hang"} ELSE {})
                    \cup (IF ~hangs /\ gone # {} THEN {"lost"} ELSE {})
                    \cup (IF ~hangs /\ whole # {} THEN {"stale"} ELSE {})
                    \cup (IF ~hangs /\ grown # {} THEN {"swallowed"} ELSE {})
                    \cup (IF ~hangs /\ missed # {} THEN {"unmerged"} ELSE {})
                    \cup (IF ~hangs /\ inside THEN {"misfreed"} ELSE {})
  <2> DEFINE put0 == [blk EXCEPT ![free_list].prev = c.at,
                                 ![c.at].next = free_list, ![c.at].prev = 0, ![c.at].used = "FREE"]
             m0 == Merged(put0, c.at)
             list0 == ListOf(m0.blk, c.at)
             hangs0 == m0.at # "done" \/ Len(list0) = Fuel
             whole0 == {a \in Range(list0) : m0.blk[a].size = Chunk}
             gone0 == {a \in FreeBlocks : m0.blk[a].used = "FREE" /\ a \notin Range(list0)}
             grown0 == {d \in live \ {c} : m0.blk[d.at].size # blk[d.at].size}
             missed0 == {a \in Range(list0) : a + m0.blk[a].size \in Range(list0)}
  <2>1. cause' = cause \cup (IF hangs0 THEN {"hang"} ELSE {})
                      \cup (IF ~hangs0 /\ gone0 # {} THEN {"lost"} ELSE {})
                      \cup (IF ~hangs0 /\ whole0 # {} THEN {"stale"} ELSE {})
                      \cup (IF ~hangs0 /\ grown0 # {} THEN {"swallowed"} ELSE {})
                      \cup (IF ~hangs0 /\ missed0 # {} THEN {"unmerged"} ELSE {})
                      \cup (IF ~hangs0 /\ (\E a \in whole0 : ~blk[a].is_head) THEN {"misfreed"} ELSE {})
    BY DEF kfree
  <2>2. put0 = p
    BY <1>1
  <2> HIDE DEF put0
  <2>3. m0 = m
    BY <2>2
  <2> HIDE DEF m0
  <2>4. list0 = list
    BY <2>3
  <2> HIDE DEF list0
  <2>5. whole0 = whole /\ gone0 = gone /\ grown0 = grown /\ missed0 = missed /\ (hangs0 <=> hangs)
    BY <2>3, <2>4
  <2> HIDE DEF whole0, gone0, grown0, missed0, hangs0, gone, grown, missed, hangs
  <2> QED BY <2>1, <2>5
<1> HIDE DEF hangs, gone, grown, missed, inside
<1>5. cause' \subseteq cause \cup {"hang", "lost", "stale", "swallowed", "misfreed", "unmerged"}
  BY <1>4
<1>6. "misfreed" \in cause' => "misfreed" \in cause \/ inside
  BY <1>4
<1>7. CASE hangs
  <2>1. cause' = cause \cup {"hang"}
    BY <1>4, <1>7
  <2> QED BY <1>2, <1>3, <1>5, <1>6, <1>7, <2>1 DEF inside, hangs, FreeEffect
<1>8. CASE ~hangs
  <2>1. /\ "hang" \notin cause' \ cause
        /\ whole # {} => "stale" \in cause'
        /\ inside => "misfreed" \in cause'
        /\ gone # {} => "lost" \in cause'
        /\ grown # {} => "swallowed" \in cause'
        /\ missed # {} => "unmerged" \in cause'
    BY <1>4, <1>8
  <2>2. m.at = "done" /\ Len(list) # Fuel
    BY <1>8 DEF hangs
  <2>3. /\ blk' = [a \in DOMAIN blk |-> IF a \in whole THEN [m.blk[a] EXCEPT !.size = 0]
                                         ELSE m.blk[a]]
        /\ heap' = heap \ UNION {a \div Page .. a \div Page + ChunkPages - 1 : a \in whole}
    BY <1>3, <1>8
  <2> QED BY <1>2, <1>5, <1>6, <2>1, <2>2, <2>3, Zenon DEF inside, gone, grown, missed, FreeEffect
<1> QED BY <1>7, <1>8

(* When nothing went wrong, x was merged with a free block behind it and   *)
(* with no other.                                                          *)
LEMMA CleanWalk ==
  ASSUME IInv, cause = {}, NEW c \in live,
         NEW p, p = Freed(blk, free_list, c.at), NEW m, m = Merged(p, c.at), m.at = "done",
         NEW list, list = ListOf(m.blk, c.at), Len(list) < Fuel,
         \A a \in FreeBlocks : m.blk[a].used = "FREE" => a \in Range(list),
         \A d \in live \ {c} : m.blk[d.at].size = blk[d.at].size
  PROVE  MergedRight(p, c.at, m)
<1> DEFINE x == c.at
           arena == AddressesOf(heap)
           b == m.blk
<1>1. /\ x \in Used(blk) /\ x \in 1 .. Top /\ p \in Memory
      /\ Walk(p, arena, m) /\ Phase(p, x, m)
      /\ Free(p) = Free(blk) \cup {x} /\ Used(p) = Used(blk) \ {x}
      /\ \A a \in Addr : p[a].size = blk[a].size /\ p[a].is_head = blk[a].is_head
  BY FreeMerges
<1>2. Typed(b) /\ Used(b) = Used(p) /\ Free(b) \subseteq Free(p) /\ b \in Memory
  BY <1>1 DEF Walk, Kept, Typed
<1>3. /\ Typed(blk) /\ Tile(blk, arena) /\ InUse(blk, live) /\ arena \in SUBSET (1 .. LastAddr)
      /\ \E q : Listed(blk, free_list, q)
  BY Arena DEF IInv, Tidy
<1>0. /\ list = ListOf(b, x) /\ Len(list) < Fuel /\ m.at = "done"
      /\ \A a \in FreeBlocks : b[a].used = "FREE" => a \in Range(list)
      /\ \A d \in live \ {c} : b[d.at].size = blk[d.at].size
  OBVIOUS
<1> HIDE DEF x, arena, b
<1>4. ~AtFirst(p, x, m)
  BY <1>0 DEF AtFirst
<1>5. ~Swallowed(p, m)
  <2> SUFFICES ASSUME NEW a \in Used(p), b[a].size > p[a].size PROVE FALSE
    BY DEF Swallowed, b
  <2>1. a \in Used(blk) /\ a # x /\ a \in Addr
    BY <1>1 DEF Used
  <2>2. PICK d \in live : d.at = a
    BY <1>3, <2>1 DEF InUse
  <2>3. b[a].size = blk[a].size
    BY <1>0, <2>1, <2>2 DEF x
  <2>4. p[a].size = blk[a].size /\ p[a].size \in Nat
    <3>1. p[a].size = blk[a].size /\ p[a] \in Header
      BY <1>1, <2>1 DEF Memory
    <3> QED BY <3>1, ConstantFacts DEF Header, Addr
  <2> QED BY <2>3, <2>4
<1>6. ~MergedLeft(x, m)
  <2> SUFFICES ASSUME b[x].used = "0", NEW l \in Free(b), b[x].next \in {b[l].next, 0} PROVE FALSE
    BY DEF MergedLeft, b
  <2>1. l \in Addr /\ b[l].used = "FREE" /\ l # x
    BY DEF Free
  <2>2. l \in Free(blk)
    BY <1>1, <1>2, <2>1
  <2>3. FreeBlocks = Free(blk)
    <3>1. PICK q : Listed(blk, free_list, q)
      BY <1>3
    <3>2. ListOf(blk, free_list) = q /\ Range(q) = Free(blk)
      BY <1>3, <3>1, ListFacts DEF Listed
    <3> QED BY <3>2 DEF FreeBlocks
  <2>4. l \in Range(list)
    BY <1>0, <2>1, <2>2, <2>3
  <2>5. list \in Seq(1 .. Top) /\ Chain(b, x, list)
    <3>1. x \in Addr /\ \A a \in 1 .. Top : b[a].next # WILD
      BY <1>1, <1>2, ConstantFacts DEF Typed, Addr
    <3> QED BY <1>0, <1>2, <3>1, ListOfIs
  <2>6. /\ Len(list) \in Nat /\ DOMAIN list = 1 .. Len(list)
        /\ \A k \in 1 .. Len(list) : list[k] \in 1 .. Top
    BY <2>5, LenProperties, ElementOfSeq
  <2>7. PICK k \in 1 .. Len(list) : list[k] = l
    BY <2>4, <2>6 DEF Range
  <2>8. /\ x = list[1] /\ k # 1 /\ 1 \in 1 .. Len(list) /\ 1 # Len(list) /\ 2 \in 1 .. Len(list)
    <3>0. Len(list) > 0
      BY <2>6, <2>7
    <3>1. 1 \in 1 .. Len(list) /\ list # << >>
      BY <2>6, <3>0
    <3>2. x = list[1]
      BY <2>5, <3>1 DEF Chain
    <3>3. k # 1
      BY <2>1, <2>7, <3>2
    <3> QED BY <2>6, <2>7, <3>1, <3>2, <3>3
  <2>9. b[x].next = list[2]
    <3>1. b[list[1]].next = IF 1 = Len(list) THEN 0 ELSE list[1 + 1]
      BY <2>5, <2>8 DEF Chain
    <3> QED BY <2>8, <3>1
  <2>10. b[l].next = IF k = Len(list) THEN 0 ELSE list[k + 1]
    BY <2>5, <2>7 DEF Chain
  <2>11. list[2] # 0
    BY <2>6, <2>8
  <2>12. k # Len(list) /\ list[k + 1] = list[2]
    BY <2>9, <2>10, <2>11
  <2>13. k + 1 \in 1 .. Len(list)
    BY <2>6, <2>12
  <2>14. k + 1 = 2
    <3>1. \A i, j \in 1 .. Len(list) : list[i] = list[j] => i = j
      BY <2>5, ChainInjective
    <3> QED BY <2>8, <2>12, <2>13, <3>1
  <2> QED BY <2>6, <2>7, <2>8, <2>14
<1> QED BY <1>1, <1>4, <1>5, <1>6 DEF Phase, x

LEMMA FreeKeeps ==
  ASSUME IInv, cause = {}, NEW c \in live, kfree(c)
  PROVE  IInv'
<1> DEFINE x == c.at
           arena == AddressesOf(heap)
           p == Freed(blk, free_list, c.at)
           m == Merged(p, c.at)
           b == m.blk
           list == ListOf(m.blk, c.at)
           whole == {a \in Range(list) : m.blk[a].size = Chunk}
<1>1. p = Freed(blk, free_list, c.at) /\ m = Merged(p, c.at) /\ list = ListOf(m.blk, c.at)
      /\ whole = {a \in Range(list) : m.blk[a].size = Chunk}
  OBVIOUS
<1> HIDE DEF p, m, list, whole
<1>2. /\ c \in live /\ live' = live \ {c} /\ free_list' = c.at /\ other' = other
      /\ \/ blk' = blk /\ heap' = heap /\ cause' = cause \cup {"hang"}
         \/ /\ m.at = "done" /\ Len(list) # Fuel
            /\ blk' = [a \in DOMAIN blk |-> IF a \in whole THEN [m.blk[a] EXCEPT !.size = 0]
                                            ELSE m.blk[a]]
            /\ heap' = heap \ UNION {a \div Page .. a \div Page + ChunkPages - 1 : a \in whole}
            /\ "hang" \notin cause' \ cause
            /\ whole # {} => "stale" \in cause'
            /\ (\E a \in whole : ~blk[a].is_head) => "misfreed" \in cause'
            /\ {a \in FreeBlocks : m.blk[a].used = "FREE" /\ a \notin Range(list)} # {}
                 => "lost" \in cause'
            /\ {d \in live \ {c} : m.blk[d.at].size # blk[d.at].size} # {} => "swallowed" \in cause'
            /\ {a \in Range(list) : a + m.blk[a].size \in Range(list)} # {} => "unmerged" \in cause'
      /\ cause' \subseteq cause \cup {"hang", "lost", "stale", "swallowed", "misfreed", "unmerged"}
      /\ "misfreed" \in cause' => "misfreed" \in cause \/ \E a \in whole : ~blk[a].is_head
  <2>1. FreeEffect(c, m, list, whole)
    BY <1>1, FreeDoes
  <2> QED BY <2>1, Zenon DEF FreeEffect
<1>3. /\ x \in Used(blk) /\ x \in 1 .. Top /\ p \in Memory
      /\ Walk(p, arena, m) /\ Phase(p, x, m)
      /\ Free(p) = Free(blk) \cup {x} /\ Used(p) = Used(blk) \ {x}
      /\ \A a \in Addr : p[a].size = blk[a].size /\ p[a].is_head = blk[a].is_head
  BY <1>1, FreeMerges
<1>4. /\ Typed(blk) /\ Tile(blk, arena) /\ Blank(blk, arena) /\ Heads(blk, arena) /\ NoPairs(blk)
      /\ InUse(blk, live) /\ arena \in SUBSET (1 .. LastAddr)
      /\ (\E q : Listed(blk, free_list, q)) /\ HeapTypeOK
      /\ blk \in Memory /\ DOMAIN blk = Addr
  BY Arena DEF IInv, Tidy, Typed, Memory
<1>5. /\ Typed(b) /\ Tile(b, arena) /\ Blank(b, arena) /\ b \in Memory
      /\ \A a \in Addr : b[a].is_head = p[a].is_head
      /\ Used(b) = Used(p) /\ Free(b) \subseteq Free(p)
      /\ \A a \in Used(p) : b[a].size >= p[a].size
  BY <1>3 DEF Walk, Kept, Typed
<1>6. HeapTypeOK'
  <2>1. \A a \in DOMAIN blk' : blk'[a].prev \in Addr /\ blk'[a].size \in Addr
    <3>1. CASE blk' = blk
      BY <1>4, <3>1 DEF HeapTypeOK, Addr
    <3>2. CASE blk' = [a \in DOMAIN blk |-> IF a \in whole THEN [m.blk[a] EXCEPT !.size = 0]
                                            ELSE m.blk[a]]
      <4> SUFFICES ASSUME NEW a \in Addr PROVE blk'[a].prev \in Addr /\ blk'[a].size \in Addr
        BY <1>4, <3>2
      <4>1. m.blk[a] \in Header /\ m.blk[a].prev \in Addr /\ m.blk[a].size \in Addr
        BY <1>5 DEF Memory, Header
      <4>2. CASE a \in whole
        <5>1. blk'[a] = [m.blk[a] EXCEPT !.size = 0]
          BY <1>4, <3>2, <4>2
        <5>2. blk'[a].prev = m.blk[a].prev /\ blk'[a].size = 0
          BY <4>1, <5>1 DEF Header
        <5> QED BY <4>1, <5>2, ConstantFacts DEF Addr
      <4>3. CASE a \notin whole
        <5>1. blk'[a] = m.blk[a]
          BY <1>4, <3>2, <4>3
        <5> QED BY <4>1, <5>1
      <4> QED BY <4>2, <4>3
    <3> QED BY <1>2, <3>1, <3>2
  <2>2. free_list' \in Addr
    BY <1>2, <1>3, ConstantFacts DEF Addr
  <2>3. heap' \subseteq heap /\ other' = other
    BY <1>2
  <2>4. heap' \subseteq Pages /\ other' \subseteq Pages \ heap'
    BY <1>4, <2>3 DEF HeapTypeOK
  <2>5. cause' \subseteq {"hang", "lost", "stale", "swallowed", "misfreed", "unmerged", "null", "edge"}
    BY <1>2
  <2> QED BY <2>1, <2>2, <2>4, <2>5 DEF HeapTypeOK, Addr
<1>7. ASSUME cause' = {} PROVE Tidy'
  <2>1. /\ m.at = "done" /\ Len(list) # Fuel /\ whole = {}
        /\ blk' = [a \in DOMAIN blk |-> IF a \in whole THEN [m.blk[a] EXCEPT !.size = 0]
                                        ELSE m.blk[a]]
        /\ heap' = heap \ UNION {a \div Page .. a \div Page + ChunkPages - 1 : a \in whole}
        /\ \A a \in FreeBlocks : m.blk[a].used = "FREE" => a \in Range(list)
        /\ \A d \in live \ {c} : m.blk[d.at].size = blk[d.at].size
        /\ \A a \in Range(list) : a + m.blk[a].size \notin Range(list)
    BY <1>2, <1>7
  <2>2. blk' = b /\ heap' = heap
    <3>1. blk' = [a \in Addr |-> b[a]]
      BY <1>4, <2>1
    <3>2. b = [a \in Addr |-> b[a]]
      BY <1>5 DEF Memory
    <3>3. heap' = heap
      BY <2>1
    <3> QED BY <3>1, <3>2, <3>3
  <2>3. Len(list) < Fuel
    <3>1. x \in Addr /\ \A a \in 1 .. Top : b[a].next # WILD
      BY <1>3, <1>5, ConstantFacts DEF Typed, Addr
    <3>2. Len(list) \in Nat /\ Len(list) <= Fuel
      BY <1>1, <1>5, <3>1, ListOfIs, LenProperties
    <3> QED BY <2>1, <3>2, ConstantFacts
  <2>4. MergedRight(p, x, m)
    BY <1>1, <2>1, <2>3, CleanWalk
  <2>5. PICK q : Listed(blk, free_list, q)
    BY <1>4
  <2>6. FreeBlocks = Free(blk)
    <3>1. ListOf(blk, free_list) = q /\ Range(q) = Free(blk)
      BY <1>4, <2>5, ListFacts DEF Listed
    <3> QED BY <3>1 DEF FreeBlocks
  <2>7. Listed(b, x, list)
    <3> DEFINE X == Once(p, x)
    <3>1. X = Once(p, x) /\ Alike(X, b)
      BY <2>4 DEF MergedRight
    <3> HIDE DEF X, arena, b, x
    <3>2. p = Freed(blk, free_list, x) /\ list = ListOf(b, x)
      BY <1>1 DEF x, b
    <3>3. \A a \in Free(blk) : b[a].used = "FREE" => a \in Range(ListOf(b, x))
      BY <2>1, <2>6, <3>2 DEF b
    <3>4. Listed(b, x, ListOf(b, x))
      BY <1>3, <1>4, <1>5, <2>5, <3>1, <3>2, <3>3, FreedList
    <3> QED BY <3>2, <3>4
  <2>8. Range(list) = Free(b)
    BY <2>7 DEF Listed
  <2>9. NoPairs(b)
    BY <2>1, <2>8 DEF NoPairs
  <2>10. Heads(b, arena)
    <3>1. \A a \in Addr : b[a].is_head = blk[a].is_head
      BY <1>3, <1>5
    <3>2. Starts(b) \subseteq Starts(blk) /\ Starts(b) \subseteq Addr
      BY <1>3, <1>5 DEF Starts, Free, Used
    <3>3. 1 .. Top \subseteq Addr
      BY ConstantFacts DEF Addr
    <3> QED BY <1>4, <3>1, <3>2, <3>3 DEF Heads
  <2>11. InUse(b, live \ {c})
    <3>1. ASSUME NEW d \in live \ {c}
          PROVE  d.at \in Used(b) /\ d.size \in Nat /\ d.size <= b[d.at].size
      <4>1. d.at \in Used(blk) /\ d.size \in Nat /\ d.size <= blk[d.at].size /\ d.at # x
        BY <1>4 DEF InUse
      <4>2. b[d.at].size = blk[d.at].size
        BY <2>1
      <4> QED BY <1>3, <1>5, <4>1, <4>2
    <3>2. \A a \in Used(b) : \E d \in live \ {c} : d.at = a
      BY <1>3, <1>4, <1>5 DEF InUse
    <3>3. \A d, e \in live \ {c} : d.at = e.at => d = e
      BY <1>4 DEF InUse
    <3> QED BY <3>1, <3>2, <3>3 DEF InUse
  <2> HIDE DEF b, x
  <2>12. /\ Typed(b) /\ Tile(b, arena) /\ Blank(b, arena) /\ Heads(b, arena)
         /\ InUse(b, live \ {c}) /\ NoPairs(b) /\ Listed(b, x, list)
         /\ blk' = b /\ heap' = heap /\ live' = live \ {c} /\ free_list' = x
    BY <1>2, <1>5, <2>2, <2>7, <2>9, <2>10, <2>11 DEF x
  <2>13. AddressesOf(heap)' = arena
    BY <2>12 DEF AddressesOf
  <2> HIDE DEF arena
  <2> QED BY <2>12, <2>13 DEF Tidy
<1> QED BY <1>6, <1>7 DEF IInv

-----------------------------------------------------------------------------
(* Pages for others leave the heap alone.                                  *)

LEMMA RunFound ==
  ASSUME NEW n \in Nat \ {0}, NEW p, p = alloc_pages(n), p # 0
  PROVE  p \in 1 .. NPages - n + 1 /\ (p .. p + n - 1) \cap (heap \cup other) = {}
<1> DEFINE runs == {r \in 1 .. NPages - n + 1 : (r .. r + n - 1) \cap (heap \cup other) = {}}
<1>0. NPages \in Nat
  BY ConstantFacts
<1>1. p = IF runs = {} THEN 0 ELSE CHOOSE r \in runs : \A s \in runs : r <= s
  BY DEF alloc_pages
<1>2. runs \subseteq Nat /\ runs # {}
  BY <1>0, <1>1
<1>3. \E r \in runs : \A s \in runs : r <= s
  <2> HIDE DEF runs
  <2> QED BY <1>2, LeastElement
<1>4. p \in runs
  <2> HIDE DEF runs
  <2> QED BY <1>1, <1>2, <1>3
<1> QED BY <1>4

LEMMA PageKeeps ==
  ASSUME IInv, cause = {}, alloc_page
  PROVE  IInv' /\ blk' = blk
<1> DEFINE p == alloc_pages(1)
           arena == AddressesOf(heap)
<1>1. /\ p # 0 /\ other' = other \cup {p} /\ UNCHANGED <<free_list, heap, live, cause>>
      /\ blk' = [a \in DOMAIN blk |-> IF a \div Page = p THEN NoHeader ELSE blk[a]]
  BY DEF alloc_page
<1>2. Tidy /\ HeapTypeOK /\ heap \subseteq Pages /\ blk \in Memory /\ Blank(blk, arena)
  BY DEF IInv, Tidy, Typed, HeapTypeOK
<1>3. /\ Page \in Nat \ {0} /\ NPages \in Nat /\ Top \in Nat
  BY ConstantFacts
<1>4. p \in Pages \ heap /\ p \in Nat \ {0}
  <2>1. p \in 1 .. NPages - 1 + 1 /\ (p .. p + 1 - 1) \cap (heap \cup other) = {}
    BY <1>1, RunFound
  <2>2. p \in 1 .. NPages /\ p \in p .. p + 1 - 1
    BY <1>3, <2>1
  <2> QED BY <2>1, <2>2 DEF Pages
<1> HIDE DEF p, arena
<1>5. ASSUME NEW a \in Addr, a \div Page = p PROVE blk[a] = NoHeader
  <2>1. a \in Nat
    BY <1>3 DEF Addr
  <2>2. a # 0
    BY <1>3, <1>4, <1>5
  <2>3. heap \in SUBSET Nat
    BY <1>2, <1>3 DEF Pages
  <2>4. a \notin arena
    BY <1>4, <1>5, <2>1, <2>3, PageOf DEF arena
  <2> QED BY <1>2, <1>3, <2>2, <2>4 DEF Blank, Addr
<1>6. blk' = blk
  <2>1. DOMAIN blk = Addr /\ blk = [a \in Addr |-> blk[a]]
    BY <1>2 DEF Memory
  <2> QED BY <1>1, <1>5, <2>1
<1>7. Tidy'
  BY <1>1, <1>2, <1>6 DEF Tidy, AddressesOf
<1>8. HeapTypeOK'
  <2>1. other' \subseteq Pages \ heap
    BY <1>1, <1>2, <1>4 DEF HeapTypeOK
  <2> QED BY <1>1, <1>2, <1>6, <2>1 DEF HeapTypeOK
<1> QED BY <1>6, <1>7, <1>8 DEF IInv

LEMMA FreePageKeeps ==
  ASSUME IInv, cause = {}, NEW p, free_page(p)
  PROVE  IInv'
<1>1. /\ other' \subseteq other
      /\ UNCHANGED <<blk, free_list, heap, live, cause>>
  BY DEF free_page
<1>2. Tidy /\ HeapTypeOK
  BY DEF IInv
<1>3. Tidy'
  BY <1>1, <1>2 DEF Tidy, AddressesOf
<1>4. HeapTypeOK'
  BY <1>1, <1>2 DEF HeapTypeOK
<1> QED BY <1>3, <1>4 DEF IInv

-----------------------------------------------------------------------------
(* One field, or all, of the header at y.                                  *)

Links == Addr \cup {WILD}
WithUsed(b, y, v) == [b EXCEPT ![y].used = v]
WithSize(b, y, v) == [b EXCEPT ![y].size = v]
WithPrev(b, y, v) == [b EXCEPT ![y].prev = v]
WithNext(b, y, v) == [b EXCEPT ![y].next = v]
WithHeader(b, y, h) == [b EXCEPT ![y] = h]

LEMMA HeaderSet ==
  ASSUME NEW b \in Memory, NEW y \in Addr, NEW h \in Header, NEW c, c = WithHeader(b, y, h)
  PROVE  c \in Memory /\ \A a \in Addr : c[a] = IF a = y THEN h ELSE b[a]
BY DEF Memory, WithHeader

LEMMA UsedSet ==
  ASSUME NEW b, NEW y, NEW val, b \in Memory, y \in Addr, val \in Flags
  PROVE  /\ WithUsed(b, y, val) \in Memory
         /\ \A a \in Addr :
              /\ WithUsed(b, y, val)[a].size = b[a].size
              /\ WithUsed(b, y, val)[a].is_head = b[a].is_head
              /\ WithUsed(b, y, val)[a].prev = b[a].prev
              /\ WithUsed(b, y, val)[a].next = b[a].next
              /\ WithUsed(b, y, val)[a].used = IF a = y THEN val ELSE b[a].used
<1> DEFINE c == WithUsed(b, y, val)
           h == [b[y] EXCEPT !.used = val]
<1>1. b[y] \in Header
  BY DEF Memory
<1>2. h \in Header /\ h.used = val /\ h.size = b[y].size /\ h.is_head = b[y].is_head /\ h.prev = b[y].prev /\ h.next = b[y].next
  BY <1>1 DEF Header
<1>3. c = WithHeader(b, y, h)
  BY DEF Memory, WithUsed, WithHeader
<1> HIDE DEF h, c
<1>4. c \in Memory /\ \A a \in Addr : c[a] = IF a = y THEN h ELSE b[a]
  BY <1>2, <1>3, HeaderSet
<1>5. ASSUME NEW a \in Addr
      PROVE  /\ c[a].size = b[a].size /\ c[a].is_head = b[a].is_head /\ c[a].prev = b[a].prev /\ c[a].next = b[a].next
             /\ c[a].used = IF a = y THEN val ELSE b[a].used
  <2>1. CASE a = y
    <3>1. c[a] = h
      BY <1>4, <2>1
    <3> QED BY <1>2, <2>1, <3>1
  <2>2. CASE a # y
    <3>1. c[a] = b[a]
      BY <1>4, <2>2
    <3> QED BY <2>2, <3>1
  <2> QED BY <2>1, <2>2
<1> QED BY <1>4, <1>5 DEF c

LEMMA SizeSet ==
  ASSUME NEW b, NEW y, NEW val, b \in Memory, y \in Addr, val \in Addr
  PROVE  /\ WithSize(b, y, val) \in Memory
         /\ \A a \in Addr :
              /\ WithSize(b, y, val)[a].used = b[a].used
              /\ WithSize(b, y, val)[a].is_head = b[a].is_head
              /\ WithSize(b, y, val)[a].prev = b[a].prev
              /\ WithSize(b, y, val)[a].next = b[a].next
              /\ WithSize(b, y, val)[a].size = IF a = y THEN val ELSE b[a].size
<1> DEFINE c == WithSize(b, y, val)
           h == [b[y] EXCEPT !.size = val]
<1>1. b[y] \in Header
  BY DEF Memory
<1>2. h \in Header /\ h.size = val /\ h.used = b[y].used /\ h.is_head = b[y].is_head /\ h.prev = b[y].prev /\ h.next = b[y].next
  BY <1>1 DEF Header
<1>3. c = WithHeader(b, y, h)
  BY DEF Memory, WithSize, WithHeader
<1> HIDE DEF h, c
<1>4. c \in Memory /\ \A a \in Addr : c[a] = IF a = y THEN h ELSE b[a]
  BY <1>2, <1>3, HeaderSet
<1>5. ASSUME NEW a \in Addr
      PROVE  /\ c[a].used = b[a].used /\ c[a].is_head = b[a].is_head /\ c[a].prev = b[a].prev /\ c[a].next = b[a].next
             /\ c[a].size = IF a = y THEN val ELSE b[a].size
  <2>1. CASE a = y
    <3>1. c[a] = h
      BY <1>4, <2>1
    <3> QED BY <1>2, <2>1, <3>1
  <2>2. CASE a # y
    <3>1. c[a] = b[a]
      BY <1>4, <2>2
    <3> QED BY <2>2, <3>1
  <2> QED BY <2>1, <2>2
<1> QED BY <1>4, <1>5 DEF c

LEMMA PrevSet ==
  ASSUME NEW b, NEW y, NEW val, b \in Memory, y \in Addr, val \in Addr
  PROVE  /\ WithPrev(b, y, val) \in Memory
         /\ \A a \in Addr :
              /\ WithPrev(b, y, val)[a].used = b[a].used
              /\ WithPrev(b, y, val)[a].size = b[a].size
              /\ WithPrev(b, y, val)[a].is_head = b[a].is_head
              /\ WithPrev(b, y, val)[a].next = b[a].next
              /\ WithPrev(b, y, val)[a].prev = IF a = y THEN val ELSE b[a].prev
<1> DEFINE c == WithPrev(b, y, val)
           h == [b[y] EXCEPT !.prev = val]
<1>1. b[y] \in Header
  BY DEF Memory
<1>2. h \in Header /\ h.prev = val /\ h.used = b[y].used /\ h.size = b[y].size /\ h.is_head = b[y].is_head /\ h.next = b[y].next
  BY <1>1 DEF Header
<1>3. c = WithHeader(b, y, h)
  BY DEF Memory, WithPrev, WithHeader
<1> HIDE DEF h, c
<1>4. c \in Memory /\ \A a \in Addr : c[a] = IF a = y THEN h ELSE b[a]
  BY <1>2, <1>3, HeaderSet
<1>5. ASSUME NEW a \in Addr
      PROVE  /\ c[a].used = b[a].used /\ c[a].size = b[a].size /\ c[a].is_head = b[a].is_head /\ c[a].next = b[a].next
             /\ c[a].prev = IF a = y THEN val ELSE b[a].prev
  <2>1. CASE a = y
    <3>1. c[a] = h
      BY <1>4, <2>1
    <3> QED BY <1>2, <2>1, <3>1
  <2>2. CASE a # y
    <3>1. c[a] = b[a]
      BY <1>4, <2>2
    <3> QED BY <2>2, <3>1
  <2> QED BY <2>1, <2>2
<1> QED BY <1>4, <1>5 DEF c

LEMMA NextSet ==
  ASSUME NEW b, NEW y, NEW val, b \in Memory, y \in Addr, val \in Links
  PROVE  /\ WithNext(b, y, val) \in Memory
         /\ \A a \in Addr :
              /\ WithNext(b, y, val)[a].used = b[a].used
              /\ WithNext(b, y, val)[a].size = b[a].size
              /\ WithNext(b, y, val)[a].is_head = b[a].is_head
              /\ WithNext(b, y, val)[a].prev = b[a].prev
              /\ WithNext(b, y, val)[a].next = IF a = y THEN val ELSE b[a].next
<1> DEFINE c == WithNext(b, y, val)
           h == [b[y] EXCEPT !.next = val]
<1>1. b[y] \in Header
  BY DEF Memory
<1>2. h \in Header /\ h.next = val /\ h.used = b[y].used /\ h.size = b[y].size /\ h.is_head = b[y].is_head /\ h.prev = b[y].prev
  BY <1>1 DEF Header, Links
<1>3. c = WithHeader(b, y, h)
  BY DEF Memory, WithNext, WithHeader
<1> HIDE DEF h, c
<1>4. c \in Memory /\ \A a \in Addr : c[a] = IF a = y THEN h ELSE b[a]
  BY <1>2, <1>3, HeaderSet
<1>5. ASSUME NEW a \in Addr
      PROVE  /\ c[a].used = b[a].used /\ c[a].size = b[a].size /\ c[a].is_head = b[a].is_head /\ c[a].prev = b[a].prev
             /\ c[a].next = IF a = y THEN val ELSE b[a].next
  <2>1. CASE a = y
    <3>1. c[a] = h
      BY <1>4, <2>1
    <3> QED BY <1>2, <2>1, <3>1
  <2>2. CASE a # y
    <3>1. c[a] = b[a]
      BY <1>4, <2>2
    <3> QED BY <2>2, <3>1
  <2> QED BY <2>1, <2>2
<1> QED BY <1>4, <1>5 DEF c

-----------------------------------------------------------------------------
(* A block taken from the list, the rest of it left in its place.          *)

LEMMA TakeIs ==
  ASSUME NEW b \in Memory, NEW x \in Addr, NEW p \in Addr, p = b[x].prev,
         NEW n \in Addr, n = b[x].next, NEW t, t = take(b, x)
  PROVE  /\ t.blk \in Memory
         /\ \A a \in Addr :
              /\ t.blk[a].used = IF a = x THEN "USED" ELSE b[a].used
              /\ t.blk[a].size = b[a].size /\ t.blk[a].is_head = b[a].is_head
              /\ t.blk[a].prev = IF a = n /\ n # 0 THEN p ELSE b[a].prev
              /\ t.blk[a].next = IF a = p /\ p # 0 THEN n ELSE b[a].next
         /\ t.first = IF p # 0 THEN free_list ELSE n
<1> DEFINE u == WithUsed(b, x, "USED")
           v == WithNext(u, p, IF p = 0 THEN u[p].next ELSE n)
           w == WithPrev(v, n, IF n = 0 THEN v[n].prev ELSE p)
<1>0. /\ t.blk = [u EXCEPT ![p].next = IF p = 0 THEN @ ELSE n, ![n].prev = IF n = 0 THEN @ ELSE p]
      /\ t.first = IF p # 0 THEN free_list ELSE n
  BY DEF take, WithUsed
<1>2. /\ u \in Memory
      /\ \A a \in Addr :
           /\ u[a].used = IF a = x THEN "USED" ELSE b[a].used
           /\ u[a].size = b[a].size /\ u[a].is_head = b[a].is_head
           /\ u[a].prev = b[a].prev /\ u[a].next = b[a].next
  <2>1. u = WithUsed(b, x, "USED") /\ "USED" \in Flags
    BY DEF Flags
  <2> HIDE DEF u
  <2> QED BY <2>1, UsedSet
<1> HIDE DEF u
<1>1. t.blk = w
  <2>0. u \in Memory
    BY <1>2
  <2>9. [u EXCEPT ![p].next = IF p = 0 THEN @ ELSE n, ![n].prev = IF n = 0 THEN @ ELSE p]
          = [[u EXCEPT ![p].next = IF p = 0 THEN u[p].next ELSE n]
               EXCEPT ![n].prev = IF n = 0 THEN @ ELSE p]
    BY <2>0
  <2>1. t.blk = [[u EXCEPT ![p].next = IF p = 0 THEN u[p].next ELSE n]
                   EXCEPT ![n].prev = IF n = 0 THEN @ ELSE p]
    BY <1>0, <2>9, Zenon
  <2>2. t.blk = [v EXCEPT ![n].prev = IF n = 0 THEN @ ELSE p]
    BY <2>1 DEF WithNext
  <2> HIDE DEF v
  <2>3. t.blk = [v EXCEPT ![n].prev = IF n = 0 THEN v[n].prev ELSE p]
    BY <2>2
  <2> QED BY <2>3 DEF WithPrev
<1>3. /\ v \in Memory
      /\ \A a \in Addr :
           /\ v[a].used = u[a].used /\ v[a].size = u[a].size /\ v[a].is_head = u[a].is_head
           /\ v[a].prev = u[a].prev
           /\ v[a].next = IF a = p THEN (IF p = 0 THEN u[p].next ELSE n) ELSE u[a].next
  <2> DEFINE z == IF p = 0 THEN u[p].next ELSE n
  <2>1. u[p].next \in Addr \cup {WILD}
    BY <1>2 DEF Memory, Header
  <2>2. v = WithNext(u, p, z) /\ z \in Links
    BY <2>1 DEF Links
  <2> HIDE DEF v, z
  <2>3. /\ v \in Memory
        /\ \A a \in Addr :
           /\ v[a].used = u[a].used /\ v[a].size = u[a].size /\ v[a].is_head = u[a].is_head
           /\ v[a].prev = u[a].prev /\ v[a].next = IF a = p THEN z ELSE u[a].next
    BY <1>2, <2>2, NextSet
  <2> QED BY <2>3 DEF z
<1> HIDE DEF v
<1>4. /\ w \in Memory
      /\ \A a \in Addr :
           /\ w[a].used = v[a].used /\ w[a].size = v[a].size /\ w[a].is_head = v[a].is_head
           /\ w[a].next = v[a].next
           /\ w[a].prev = IF a = n THEN (IF n = 0 THEN v[n].prev ELSE p) ELSE v[a].prev
  <2> DEFINE z == IF n = 0 THEN v[n].prev ELSE p
  <2>1. v[n].prev \in Addr
    BY <1>3 DEF Memory, Header
  <2>2. w = WithPrev(v, n, z) /\ z \in Addr
    BY <2>1
  <2> HIDE DEF w, z
  <2>3. /\ w \in Memory
        /\ \A a \in Addr :
           /\ w[a].used = v[a].used /\ w[a].size = v[a].size /\ w[a].is_head = v[a].is_head
           /\ w[a].next = v[a].next /\ w[a].prev = IF a = n THEN z ELSE v[a].prev
    BY <1>3, <2>2, PrevSet
  <2> QED BY <2>3 DEF z
<1> HIDE DEF w
<1>5. ASSUME NEW a \in Addr
      PROVE  /\ w[a].used = IF a = x THEN "USED" ELSE b[a].used
             /\ w[a].size = b[a].size /\ w[a].is_head = b[a].is_head
             /\ w[a].prev = IF a = n /\ n # 0 THEN p ELSE b[a].prev
             /\ w[a].next = IF a = p /\ p # 0 THEN n ELSE b[a].next
  BY <1>2, <1>3, <1>4
<1> QED BY <1>0, <1>1, <1>4, <1>5

(* The headers once block x is cut to n, its rest at r and followed by y.  *)
WithRest(b, s, x, n, r, y) ==
  /\ s \in Memory
  /\ \A a \in Addr :
       /\ s[a].used = IF a = r THEN "FREE" ELSE b[a].used
       /\ s[a].size = IF a = x THEN n ELSE IF a = r THEN b[x].size - n ELSE b[a].size
       /\ s[a].is_head = IF a = r THEN FALSE ELSE b[a].is_head
       /\ s[a].prev = IF a = r THEN x ELSE IF a = y /\ y # 0 THEN r ELSE b[a].prev
       /\ s[a].next = IF a = x THEN r ELSE IF a = r THEN y ELSE b[a].next

LEMMA SplitIs ==
  ASSUME NEW b \in Memory, NEW x \in Addr, NEW n \in Nat, NEW r \in Addr, r = x + n, r # x,
         b[x].size > n + MEM_HSIZE, NEW y \in Addr, y = b[x].next, y # r, y # x,
         NEW s, s = split(b, x, n)
  PROVE  WithRest(b, s, x, n, r, y)
<1> DEFINE h == [used |-> "FREE", size |-> b[x].size - n, is_head |-> FALSE, prev |-> x, next |-> y]
           u == WithHeader(b, r, h)
           v == WithPrev(u, y, IF y = 0 THEN u[y].prev ELSE r)
           w == WithSize(v, x, n)
           z == WithNext(w, x, r)
<1>0. b[x].size \in Addr /\ n \in Addr /\ b[x].size - n \in Addr
  <2>1. b[x].size \in Addr
    BY DEF Memory, Header
  <2> QED BY <2>1, ConstantFacts DEF Addr, MEM_HSIZE
<1>1. s = z
  <2>1. ~(b[x].size <= n + MEM_HSIZE)
    BY <1>0, ConstantFacts DEF Addr, MEM_HSIZE
  <2>2. s = [b EXCEPT ![r] = h, ![y].prev = IF y = 0 THEN @ ELSE r, ![x].size = n, ![x].next = r]
    BY <2>1 DEF split
  <2> HIDE DEF h
  <2>3. s = [[[[b EXCEPT ![r] = h] EXCEPT ![y].prev = IF y = 0 THEN @ ELSE r]
                EXCEPT ![x].size = n] EXCEPT ![x].next = r]
    BY <2>2
  <2>4. s = [[[u EXCEPT ![y].prev = IF y = 0 THEN @ ELSE r] EXCEPT ![x].size = n] EXCEPT ![x].next = r]
    BY <2>3 DEF WithHeader
  <2> HIDE DEF u
  <2>5. [u EXCEPT ![y].prev = IF y = 0 THEN @ ELSE r] = v
    BY DEF WithPrev
  <2> HIDE DEF v
  <2>6. s = [[v EXCEPT ![x].size = n] EXCEPT ![x].next = r]
    BY <2>4, <2>5
  <2>7. s = [w EXCEPT ![x].next = r]
    BY <2>6 DEF WithSize
  <2> HIDE DEF w
  <2> QED BY <2>7 DEF WithNext
<1>2. h \in Header /\ h.used = "FREE" /\ h.size = b[x].size - n /\ h.is_head = FALSE /\ h.prev = x /\ h.next = y
  BY <1>0 DEF Header, Flags
<1> HIDE DEF h
<1>3. u \in Memory /\ \A a \in Addr : u[a] = IF a = r THEN h ELSE b[a]
  <2>1. u = WithHeader(b, r, h)
    OBVIOUS
  <2> HIDE DEF u
  <2> QED BY <1>2, <2>1, HeaderSet
<1> HIDE DEF u
<1>4. /\ v \in Memory
      /\ \A a \in Addr :
           /\ v[a].used = u[a].used /\ v[a].size = u[a].size /\ v[a].is_head = u[a].is_head
           /\ v[a].next = u[a].next
           /\ v[a].prev = IF a = y THEN (IF y = 0 THEN u[y].prev ELSE r) ELSE u[a].prev
  <2> DEFINE k == IF y = 0 THEN u[y].prev ELSE r
  <2>1. u[y].prev \in Addr
    BY <1>3 DEF Memory, Header
  <2>2. v = WithPrev(u, y, k) /\ k \in Addr
    BY <2>1
  <2> HIDE DEF v, k
  <2>3. /\ v \in Memory
        /\ \A a \in Addr :
           /\ v[a].used = u[a].used /\ v[a].size = u[a].size /\ v[a].is_head = u[a].is_head
           /\ v[a].next = u[a].next /\ v[a].prev = IF a = y THEN k ELSE u[a].prev
    BY <1>3, <2>2, PrevSet
  <2> QED BY <2>3 DEF k
<1> HIDE DEF v
<1>5. /\ w \in Memory
      /\ \A a \in Addr :
           /\ w[a].used = v[a].used /\ w[a].is_head = v[a].is_head
           /\ w[a].prev = v[a].prev /\ w[a].next = v[a].next
           /\ w[a].size = IF a = x THEN n ELSE v[a].size
  <2>1. w = WithSize(v, x, n)
    OBVIOUS
  <2> HIDE DEF w
  <2> QED BY <1>0, <1>4, <2>1, SizeSet
<1> HIDE DEF w
<1>6. /\ z \in Memory
      /\ \A a \in Addr :
           /\ z[a].used = w[a].used /\ z[a].size = w[a].size /\ z[a].is_head = w[a].is_head
           /\ z[a].prev = w[a].prev
           /\ z[a].next = IF a = x THEN r ELSE w[a].next
  <2>1. z = WithNext(w, x, r) /\ r \in Links
    BY DEF Links
  <2> HIDE DEF z
  <2> QED BY <1>5, <2>1, NextSet
<1> HIDE DEF z
<1>7. ASSUME NEW a \in Addr
      PROVE  /\ z[a].used = IF a = r THEN "FREE" ELSE b[a].used
             /\ z[a].size = IF a = x THEN n ELSE IF a = r THEN b[x].size - n ELSE b[a].size
             /\ z[a].is_head = IF a = r THEN FALSE ELSE b[a].is_head
             /\ z[a].prev = IF a = r THEN x ELSE IF a = y /\ y # 0 THEN r ELSE b[a].prev
             /\ z[a].next = IF a = x THEN r ELSE IF a = r THEN y ELSE b[a].next
  <2>1. CASE a = r
    <3>1. u[a] = h /\ a # x /\ a # y
      BY <1>3, <2>1
    <3>2. v[a].used = "FREE" /\ v[a].size = b[x].size - n /\ v[a].is_head = FALSE /\ v[a].prev = x /\ v[a].next = y
      BY <1>2, <1>4, <3>1
    <3>3. w[a].used = "FREE" /\ w[a].size = b[x].size - n /\ w[a].is_head = FALSE /\ w[a].prev = x /\ w[a].next = y
      BY <1>5, <3>1, <3>2
    <3> QED BY <1>6, <2>1, <3>1, <3>3
  <2>2. CASE a # r
    <3>1. u[a] = b[a] /\ u[y] = b[y]
      BY <1>3, <2>2
    <3>2. /\ v[a].used = b[a].used /\ v[a].size = b[a].size /\ v[a].is_head = b[a].is_head
          /\ v[a].next = b[a].next /\ v[a].prev = IF a = y /\ y # 0 THEN r ELSE b[a].prev
      BY <1>4, <3>1
    <3>3. /\ w[a].used = b[a].used /\ w[a].size = IF a = x THEN n ELSE b[a].size
          /\ w[a].is_head = b[a].is_head
          /\ w[a].next = b[a].next /\ w[a].prev = IF a = y /\ y # 0 THEN r ELSE b[a].prev
      BY <1>5, <3>2
    <3> QED BY <1>6, <2>2, <3>3
  <2> QED BY <2>1, <2>2
<1>8. z \in Memory
  BY <1>6
<1>9. WithRest(b, z, x, n, r, y)
  BY <1>7, <1>8, Zenon DEF WithRest
<1> QED BY <1>1, <1>9

Before(q, i) == IF i = 1 THEN 0 ELSE q[i - 1]
After(q, i) == IF i = Len(q) THEN 0 ELSE q[i + 1]

(* Block x, which was free, in use; the list begins at first.              *)
Fitted(b, c, arena, first, q, x) ==
  /\ Typed(c) /\ Tile(c, arena) /\ Blank(c, arena) /\ Heads(c, arena) /\ NoPairs(c)
  /\ Listed(c, first, q)
  /\ Used(c) = Used(b) \cup {x}

(* The whole of the i-th block: it leaves the list.                        *)
LEMMA FitWhole ==
  ASSUME NEW b, Typed(b), NEW arena \in SUBSET (1 .. LastAddr), Tile(b, arena), Blank(b, arena),
         Heads(b, arena), NoPairs(b), NEW first, NEW q, Listed(b, first, q),
         NEW i \in 1 .. Len(q), NEW x, x = q[i],
         NEW p, p = Before(q, i),
         NEW y, y = After(q, i),
         NEW f, f = IF p # 0 THEN first ELSE y,
         NEW c \in Memory,
         \A a \in Addr :
           /\ c[a].used = IF a = x THEN "USED" ELSE b[a].used
           /\ c[a].size = b[a].size /\ c[a].is_head = b[a].is_head
           /\ c[a].prev = IF a = y /\ y # 0 THEN p ELSE b[a].prev
           /\ c[a].next = IF a = p /\ p # 0 THEN y ELSE b[a].next
  PROVE  Fitted(b, c, arena, f, RemoveAt(q, i), x)
<1> DEFINE w == RemoveAt(q, i)
<1>0. /\ b \in Memory /\ Top \in Nat /\ LastAddr \in Nat /\ LastAddr < Top /\ 0 \in Addr
      /\ 1 .. Top \subseteq Addr
  <2>1. b \in Memory
    BY DEF Typed
  <2>2. Top \in Nat /\ LastAddr \in Nat /\ LastAddr < Top
    BY ConstantFacts
  <2> QED BY <2>1, <2>2 DEF Addr
<1>1. /\ Len(q) \in Nat /\ q \in Seq(1 .. Top)
      /\ \A k, j \in 1 .. Len(q) : q[k] = q[j] => k = j
      /\ \A k \in 1 .. Len(q) : q[k] \in Free(b)
      /\ \A a \in Free(b) : \E k \in 1 .. Len(q) : q[k] = a
  BY ListFacts
<1>2. \A a \in Free(b) : a \in Addr /\ a # 0 /\ a \in arena /\ b[a].used = "FREE"
  <2> SUFFICES ASSUME NEW a \in Free(b) PROVE a \in Addr /\ a # 0 /\ a \in arena /\ b[a].used = "FREE"
    OBVIOUS
  <2>1. a \in Starts(b)
    BY DEF Starts
  <2> QED BY <1>0, <2>1, TileFacts DEF Free
<1>3. /\ first = q[1]
      /\ \A k \in 1 .. Len(q) : b[q[k]].next = IF k = Len(q) THEN 0 ELSE q[k + 1]
      /\ \A k \in 1 .. Len(q) : b[q[k]].prev = IF k = 1 THEN 0 ELSE q[k - 1]
  <2>1. q # << >>
    BY <1>1
  <2> QED BY <2>1 DEF Listed, Chain, BackLinks
<1>4. /\ i \in Nat /\ 1 <= i /\ i <= Len(q)
      /\ i # 1 => i - 1 \in 1 .. Len(q)
      /\ i # Len(q) => i + 1 \in 1 .. Len(q)
  BY <1>1
<1>0a. p = (IF i = 1 THEN 0 ELSE q[i - 1]) /\ y = (IF i = Len(q) THEN 0 ELSE q[i + 1])
  BY DEF Before, After
<1>5. x \in Free(b) /\ p \in Free(b) \cup {0} /\ y \in Free(b) \cup {0}
  BY <1>0a, <1>1, <1>4
<1>6. Free(c) = Free(b) \ {x} /\ Used(c) = Used(b) \cup {x} /\ Starts(c) = Starts(b)
  BY <1>2, <1>5 DEF Free, Used, Starts
<1>7. Typed(c)
  <2>1. c[0].used = "data" /\ c[0].next = WILD
    <3>1. b[0].used = "data" /\ b[0].next = WILD /\ 0 # x
      BY <1>2, <1>5 DEF Typed
    <3> QED BY <1>0, <3>1
  <2>2. ASSUME NEW a \in 1 .. Top PROVE c[a].next # WILD /\ (c[a].next # 0 => c[c[a].next].used # "data")
    <3>0. a \in Addr
      BY <1>0
    <3>1. b[a].next # WILD /\ (b[a].next # 0 => b[b[a].next].used # "data")
      BY DEF Typed
    <3>2. b[a].next \in Addr
      BY <1>0, <3>0, <3>1 DEF Memory, Header
    <3>3. \A z \in Addr : b[z].used # "data" => c[z].used # "data"
      OBVIOUS
    <3>4. CASE a = p /\ p # 0
      <4>1. c[a].next = y
        BY <3>0, <3>4
      <4>2. y # WILD /\ y \in Addr
        <5>1. y \in Addr
          BY <1>0, <1>2, <1>5
        <5>2. WILD \notin Addr
          BY ConstantFacts DEF Addr
        <5> QED BY <5>1, <5>2
      <4>3. y # 0 => b[y].used # "data"
        BY <1>2, <1>5
      <4> QED BY <3>3, <4>1, <4>2, <4>3
    <3>5. CASE ~(a = p /\ p # 0)
      <4>1. c[a].next = b[a].next
        BY <3>0, <3>5
      <4> QED BY <3>1, <3>2, <3>3, <4>1
    <3> QED BY <3>4, <3>5
  <2> QED BY <2>1, <2>2 DEF Typed
<1>8. Tile(c, arena)
  <2>1. Starts(b) \subseteq Addr
    BY DEF Starts, Free, Used
  <2>2. \A a \in Addr : Extent(c, a) = Extent(b, a) /\ c[a].size = b[a].size
    BY DEF Extent
  <2> QED BY <1>6, <2>1, <2>2 DEF Tile
<1>9. Blank(c, arena)
  <2> SUFFICES ASSUME NEW a \in 1 .. Top, a \notin arena PROVE c[a] = NoHeader
    BY DEF Blank
  <2>1. b[a] = NoHeader /\ a \in Addr
    BY <1>0 DEF Blank
  <2>2. a # x /\ ~(a = p /\ p # 0) /\ ~(a = y /\ y # 0)
    BY <1>2, <1>5
  <2>3. b[a] \in Header /\ c[a] \in Header
    BY <1>0, <2>1 DEF Memory
  <2>4. /\ c[a].used = b[a].used /\ c[a].size = b[a].size /\ c[a].is_head = b[a].is_head
        /\ c[a].prev = b[a].prev /\ c[a].next = b[a].next
    BY <2>1, <2>2
  <2> QED BY <2>1, <2>3, <2>4 DEF Header
<1>10. Heads(c, arena)
  <2>1. Starts(b) \subseteq Addr
    BY DEF Starts, Free, Used
  <2>2. \A a \in Addr : c[a].is_head = b[a].is_head
    OBVIOUS
  <2> QED BY <1>0, <1>6, <2>1, <2>2 DEF Heads
<1>11. NoPairs(c)
  <2> SUFFICES ASSUME NEW a \in Free(b) \ {x}, a + c[a].size \in Free(b) PROVE FALSE
    BY <1>6 DEF NoPairs
  <2>1. c[a].size = b[a].size
    BY <1>2
  <2> QED BY <2>1 DEF NoPairs
<1>12. /\ w \in Seq(1 .. Top) /\ Len(w) = Len(q) - 1
       /\ \A j \in 1 .. Len(q) - 1 : w[j] = IF j < i THEN q[j] ELSE q[j + 1]
  <2>1. \A u \in Seq(1 .. Top), v \in Nat : v \in 1 .. Len(u) =>
          /\ RemoveAt(u, v) \in Seq(1 .. Top) /\ Len(RemoveAt(u, v)) = Len(u) - 1
          /\ \A j \in 1 .. Len(u) - 1 : RemoveAt(u, v)[j] = IF j < v THEN u[j] ELSE u[j + 1]
    BY RemoveAtProperties
  <2> QED BY <1>1, <1>4, <2>1
<1> HIDE DEF w
<1>13. Len(w) \in Nat /\ DOMAIN w = 1 .. Len(w) /\ (w = << >> <=> Len(w) = 0)
  BY <1>12
<1>14. ASSUME NEW j \in 1 .. Len(w), j < i
       PROVE  /\ w[j] = q[j] /\ w[j] \in Addr /\ w[j] # x /\ j \in 1 .. Len(q)
              /\ (w[j] = p /\ p # 0) <=> j = i - 1
              /\ ~(w[j] = y /\ y # 0)
  <2>1. j \in 1 .. Len(q) /\ w[j] = q[j] /\ j # i /\ j # i + 1 /\ i # 1
    BY <1>1, <1>4, <1>12, <1>14
  <2>2. w[j] # x /\ w[j] \in Free(b)
    BY <1>1, <2>1
  <2>3. (w[j] = p /\ p # 0) <=> j = i - 1
    BY <1>0a, <1>1, <1>2, <1>4, <1>5, <2>1
  <2>4. ~(w[j] = y /\ y # 0)
    BY <1>0a, <1>1, <1>4, <2>1
  <2> QED BY <1>2, <2>1, <2>2, <2>3, <2>4
<1>15. ASSUME NEW j \in 1 .. Len(w), j >= i
       PROVE  /\ w[j] = q[j + 1] /\ w[j] \in Addr /\ w[j] # x /\ j + 1 \in 1 .. Len(q)
              /\ ~(w[j] = p /\ p # 0)
              /\ (w[j] = y /\ y # 0) <=> j = i
  <2>1. j + 1 \in 1 .. Len(q) /\ w[j] = q[j + 1] /\ j + 1 # i /\ j + 1 # i - 1 /\ i # Len(q)
    BY <1>1, <1>4, <1>12, <1>15
  <2>2. w[j] # x /\ w[j] \in Free(b)
    BY <1>1, <2>1
  <2>3. ~(w[j] = p /\ p # 0)
    BY <1>0a, <1>1, <1>4, <2>1
  <2>4. (w[j] = y /\ y # 0) <=> j + 1 = i + 1
    BY <1>0a, <1>1, <1>2, <1>4, <1>5, <2>1
  <2> QED BY <1>2, <1>4, <2>1, <2>2, <2>3, <2>4
<1>16. Chain(c, f, w)
  <2>1. f = IF w = << >> THEN 0 ELSE w[1]
    <3>1. CASE i = 1
      <4>1. f = IF Len(q) = 1 THEN 0 ELSE q[2]
        BY <1>0a, <3>1
      <4>2. Len(q) # 1 => 1 \in 1 .. Len(q) - 1
        <5>1. Len(q) \in Nat /\ 1 <= Len(q)
          BY <1>1, <1>4, <3>1
        <5>2. \A n \in Nat : 1 <= n /\ n # 1 => 1 \in 1 .. n - 1
          OBVIOUS
        <5> QED BY <5>1, <5>2
      <4>3. Len(q) # 1 => w[1] = q[1 + 1]
        BY <1>12, <3>1, <4>2
      <4> QED BY <1>1, <1>12, <1>13, <4>1, <4>3
    <3>2. CASE i # 1
      <4>1. p # 0 /\ 1 \in 1 .. Len(q) - 1 /\ 1 < i
        BY <1>0a, <1>1, <1>2, <1>4, <1>5, <3>2
      <4>2. w[1] = q[1] /\ w # << >>
        BY <1>12, <1>13, <4>1
      <4> QED BY <1>3, <4>1, <4>2
    <3> QED BY <3>1, <3>2
  <2>2. ASSUME NEW j \in 1 .. Len(w) PROVE c[w[j]].next = IF j = Len(w) THEN 0 ELSE w[j + 1]
    <3>1. j # Len(w) => j + 1 \in 1 .. Len(q) - 1
      BY <1>12, <1>13
    <3>2. CASE j = i - 1
      <4>1. c[w[j]].next = y
        BY <1>4, <1>14, <3>2
      <4>2. j # Len(w) => w[j + 1] = q[i + 1]
        BY <1>4, <1>12, <3>1, <3>2
      <4>3. j = Len(w) <=> i = Len(q)
        <5>1. Len(w) = Len(q) - 1 /\ Len(q) \in Nat /\ i \in Nat
          BY <1>1, <1>4, <1>12
        <5> QED BY <3>2, <5>1
      <4>4. CASE i = Len(q)
        BY <1>0a, <4>1, <4>3, <4>4
      <4>5. CASE i # Len(q)
        BY <1>0a, <4>1, <4>2, <4>3, <4>5
      <4> QED BY <4>4, <4>5
    <3>3. CASE j < i - 1
      <4>1. c[w[j]].next = b[q[j]].next /\ j \in 1 .. Len(q) /\ j # Len(q) /\ j # Len(w)
        BY <1>1, <1>4, <1>12, <1>14, <3>3
      <4>2. w[j + 1] = q[j + 1]
        <5>1. j + 1 \in 1 .. Len(w) /\ j + 1 < i
          BY <1>4, <1>12, <3>1, <3>3, <4>1
        <5> QED BY <1>12, <5>1
      <4> QED BY <1>3, <4>1, <4>2
    <3>4. CASE j >= i
      <4>1. c[w[j]].next = b[q[j + 1]].next /\ j + 1 \in 1 .. Len(q)
        BY <1>15, <3>4
      <4>2. c[w[j]].next = IF j + 1 = Len(q) THEN 0 ELSE q[(j + 1) + 1]
        BY <1>3, <4>1
      <4>3. j # Len(w) => w[j + 1] = q[(j + 1) + 1]
        BY <1>4, <1>12, <3>1, <3>4
      <4> QED BY <1>1, <1>12, <4>2, <4>3
    <3>5. j = i - 1 \/ j < i - 1 \/ j >= i
      <4>1. j \in Nat /\ i \in Nat
        BY <1>4, <1>13
      <4> QED BY <4>1
    <3> QED BY <3>2, <3>3, <3>4, <3>5, Zenon
  <2> QED BY <1>12, <2>1, <2>2 DEF Chain
<1>17. BackLinks(c, w)
  <2> SUFFICES ASSUME NEW j \in 1 .. Len(w) PROVE c[w[j]].prev = IF j = 1 THEN 0 ELSE w[j - 1]
    BY DEF BackLinks
  <2>1. j # 1 => j - 1 \in 1 .. Len(q) - 1
    BY <1>12, <1>13
  <2>2. CASE j < i
    <3>1. c[w[j]].prev = b[q[j]].prev /\ j \in 1 .. Len(q)
      BY <1>14, <2>2
    <3>2. j # 1 => w[j - 1] = q[j - 1]
      BY <1>4, <1>12, <2>1, <2>2
    <3> QED BY <1>3, <3>1, <3>2
  <2>3. CASE j = i
    <3>1. c[w[j]].prev = p
      BY <1>4, <1>15, <2>3
    <3>2. j # 1 => w[j - 1] = q[i - 1]
      BY <1>4, <1>12, <2>1, <2>3
    <3> QED BY <1>0a, <2>3, <3>1, <3>2
  <2>4. CASE j > i
    <3>1. c[w[j]].prev = b[q[j + 1]].prev /\ j + 1 \in 1 .. Len(q)
      BY <1>4, <1>15, <2>4
    <3>2. j # 1 /\ j + 1 # 1 /\ (j + 1) - 1 = j
      BY <1>4, <2>4
    <3>3. w[j - 1] = q[(j - 1) + 1] /\ (j - 1) + 1 = j
      BY <1>4, <1>12, <2>1, <2>4, <3>2
    <3> QED BY <1>3, <3>1, <3>2, <3>3
  <2> QED BY <1>4, <1>13, <2>2, <2>3, <2>4
<1>18. Range(w) = Free(c)
  <2>1. \A j \in 1 .. Len(w) : w[j] \in Free(b) /\ w[j] # x
    <3> SUFFICES ASSUME NEW j \in 1 .. Len(w) PROVE w[j] \in Free(b) /\ w[j] # x
      OBVIOUS
    <3>1. CASE j < i
      BY <1>1, <1>14, <3>1
    <3>2. CASE j >= i
      BY <1>1, <1>15, <3>2
    <3> QED BY <1>4, <1>13, <3>1, <3>2
  <2>2. ASSUME NEW a \in Free(b), a # x PROVE \E j \in 1 .. Len(w) : w[j] = a
    <3>1. PICK k \in 1 .. Len(q) : q[k] = a
      BY <1>1
    <3>2. CASE k < i
      <4>1. k \in 1 .. Len(q) - 1
        BY <1>1, <1>4, <3>2
      <4> QED BY <1>12, <3>1, <3>2, <4>1
    <3>3. CASE k > i
      <4>1. k - 1 \in 1 .. Len(q) - 1 /\ ~(k - 1 < i) /\ (k - 1) + 1 = k
        BY <1>1, <1>4, <3>3
      <4>2. w[k - 1] = q[k]
        BY <1>12, <4>1
      <4> QED BY <1>12, <3>1, <4>1, <4>2
    <3> QED BY <1>1, <1>4, <2>2, <3>1, <3>2, <3>3
  <2> QED BY <1>6, <1>13, <2>1, <2>2 DEF Range
<1> QED BY <1>6, <1>7, <1>8, <1>9, <1>10, <1>11, <1>16, <1>17, <1>18 DEF Listed, w, Fitted


FirstThen(first, p, r) == IF p # 0 THEN first ELSE r
Put(q, i, r) == [q EXCEPT ![i] = r]

(* The headers once block r has taken the place of x between p and y.      *)
Relinked(b, c, x, r, p, y) ==
  /\ \A a \in Addr \ {0, x} :
       /\ c[a].prev = IF a = r THEN p ELSE IF a = y THEN r ELSE b[a].prev
       /\ c[a].next = IF a = p THEN r ELSE IF a = r THEN y ELSE b[a].next
  /\ c[x].next \in {0, r} /\ c[0].next = b[0].next

(* The list once r has the i-th place.                                     *)
InPlace(c, first, q, i, r) ==
  /\ Chain(c, FirstThen(first, Before(q, i), r), Put(q, i, r))
  /\ BackLinks(c, Put(q, i, r))
  /\ Range(Put(q, i, r)) = (Range(q) \ {q[i]}) \cup {r}

(* A block of the list replaced by another: the new one takes its place.   *)
LEMMA Replaced ==
  ASSUME NEW b, NEW c, NEW first, NEW q \in Seq(1 .. Top), Chain(b, first, q), BackLinks(b, q),
         IsInjective(q), NEW i \in 1 .. Len(q), NEW r \in 1 .. Top, r \notin Range(q),
         Relinked(b, c, q[i], r, Before(q, i), After(q, i))
  PROVE  InPlace(c, first, q, i, r)
<1> DEFINE w == Put(q, i, r)
           x == q[i]
           p == Before(q, i)
           y == After(q, i)
           f == FirstThen(first, p, r)
<1>a. /\ x = q[i] /\ p = Before(q, i) /\ y = After(q, i) /\ f = (IF p # 0 THEN first ELSE r)
      /\ Relinked(b, c, x, r, p, y)
  BY DEF FirstThen
<1> HIDE DEF x, p, y, f
<1>0. Top \in Nat /\ 1 .. Top \subseteq Addr /\ 0 \notin 1 .. Top
  BY ConstantFacts DEF Addr
<1>1. Len(q) \in Nat /\ \A k \in 1 .. Len(q) : q[k] \in 1 .. Top
  BY ElementOfSeq, LenProperties
<1>5. DOMAIN q = 1 .. Len(q) /\ q # << >>
  BY LenProperties
<1>6. \A k \in 1 .. Len(q) : q[k] \in Addr /\ q[k] # 0 /\ q[k] # r
  BY <1>0, <1>1, <1>5 DEF Range
<1>2. /\ p = IF i = 1 THEN 0 ELSE q[i - 1]
      /\ y = IF i = Len(q) THEN 0 ELSE q[i + 1]
      /\ \A j \in 1 .. Len(q) : j # i => q[j] # x
  BY <1>1, <1>5, <1>a DEF Before, After, IsInjective
<1>3. /\ first = q[1]
      /\ \A k \in 1 .. Len(q) : b[q[k]].next = IF k = Len(q) THEN 0 ELSE q[k + 1]
      /\ \A k \in 1 .. Len(q) : b[q[k]].prev = IF k = 1 THEN 0 ELSE q[k - 1]
  BY <1>5 DEF Chain, BackLinks
<1>4. /\ i \in Nat /\ 1 <= i /\ i <= Len(q)
      /\ i # 1 => i - 1 \in 1 .. Len(q)
      /\ i # Len(q) => i + 1 \in 1 .. Len(q)
  BY <1>1
<1>8. /\ x # r /\ x \in Addr /\ r \in Addr \ {0, x} /\ r # 0 /\ p # r /\ y # r
      /\ x # 0 /\ (y # 0 => y # x) /\ (p # 0 => p # x)
  <2>1. x # r /\ x \in Addr /\ r \in Addr /\ r # 0 /\ x # 0
    BY <1>0, <1>6, <1>a
  <2>2. p # r /\ (p # 0 => p # x)
    <3>1. CASE i = 1
      BY <1>2, <2>1, <3>1
    <3>2. CASE i # 1
      BY <1>1, <1>2, <1>4, <1>6, <3>2
    <3> QED BY <3>1, <3>2
  <2>3. y # r /\ (y # 0 => y # x)
    <3>1. CASE i = Len(q)
      BY <1>2, <2>1, <3>1
    <3>2. CASE i # Len(q)
      BY <1>1, <1>2, <1>4, <1>6, <3>2
    <3> QED BY <3>1, <3>2
  <2> QED BY <2>1, <2>2, <2>3
<1>9. w \in [1 .. Len(q) -> 1 .. Top] /\ \A j \in 1 .. Len(q) : w[j] = IF j = i THEN r ELSE q[j]
  <2>1. q \in [1 .. Len(q) -> 1 .. Top]
    BY LenProperties
  <2> QED BY <2>1 DEF Put
<1> HIDE DEF w
<1>10. w \in Seq(1 .. Top) /\ Len(w) = Len(q)
  <2>1. w \in Seq(1 .. Top)
    BY <1>1, <1>9, SeqDef, ZenonT(60)
  <2>2. DOMAIN w = 1 .. Len(w) /\ DOMAIN w = 1 .. Len(q) /\ Len(w) \in Nat
    BY <1>9, <2>1, LenProperties
  <2> QED BY <1>1, <2>1, <2>2
<1>11. DOMAIN w = 1 .. Len(q)
  BY <1>9
<1>17. Len(w) = Len(q) /\ \A j \in 1 .. Len(q) : w[j] = IF j = i THEN r ELSE q[j]
  BY <1>9, <1>10
<1>18. ASSUME NEW j \in 1 .. Len(q), j # i
       PROVE  /\ w[j] = q[j] /\ w[j] \in Addr \ {0, x} /\ w[j] # r
              /\ (w[j] = p /\ p # 0) <=> j = i - 1
              /\ (w[j] = y /\ y # 0) <=> j = i + 1
  <2>1. w[j] = q[j] /\ q[j] # x /\ q[j] \in Addr /\ q[j] # r /\ q[j] # 0
    BY <1>2, <1>6, <1>17, <1>18
  <2>2. j \in Nat /\ \A k \in 1 .. Len(q) : q[k] = q[j] => k = j
    BY <1>1, <1>5 DEF IsInjective
  <2>3. (q[j] = p /\ p # 0) <=> j = i - 1
    <3>1. CASE i = 1
      <4>1. p = 0 /\ j # i - 1
        BY <1>2, <1>4, <2>2, <3>1
      <4> QED BY <4>1
    <3>2. CASE i # 1
      <4>1. p = q[i - 1] /\ p # 0 /\ i - 1 \in 1 .. Len(q)
        BY <1>2, <1>4, <1>6, <3>2
      <4> QED BY <2>2, <4>1
    <3> QED BY <3>1, <3>2
  <2>4. (q[j] = y /\ y # 0) <=> j = i + 1
    <3>1. CASE i = Len(q)
      <4>1. y = 0 /\ j # i + 1
        <5>1. j <= Len(q)
          BY <1>1
        <5> QED BY <1>2, <1>4, <2>2, <3>1, <5>1
      <4> QED BY <4>1
    <3>2. CASE i # Len(q)
      <4>1. y = q[i + 1] /\ y # 0 /\ i + 1 \in 1 .. Len(q)
        BY <1>2, <1>4, <1>6, <3>2
      <4> QED BY <2>2, <4>1
    <3> QED BY <3>1, <3>2
  <2> QED BY <2>1, <2>3, <2>4
<1>19. Chain(c, f, w)
  <2>1. f = w[1]
    <3>1. CASE i = 1
      BY <1>2, <1>4, <1>17, <1>a, <3>1
    <3>2. CASE i # 1
      <4>1. p # 0 /\ 1 \in 1 .. Len(q)
        BY <1>1, <1>2, <1>4, <1>6, <3>2
      <4>2. w[1] = q[1]
        BY <1>17, <3>2, <4>1
      <4> QED BY <1>3, <1>a, <4>1, <4>2
    <3> QED BY <3>1, <3>2
  <2>2. ASSUME NEW j \in 1 .. Len(q) PROVE c[w[j]].next = IF j = Len(q) THEN 0 ELSE w[j + 1]
    <3>1. j # Len(q) => j + 1 \in 1 .. Len(q)
      BY <1>1
    <3>2. CASE j = i
      <4>1. c[w[j]].next = y
        BY <1>8, <1>17, <3>2, <1>a DEF Relinked
      <4>2. j # Len(q) => w[j + 1] = q[i + 1]
        BY <1>4, <1>17, <3>1, <3>2
      <4> QED BY <1>2, <3>2, <4>1, <4>2
    <3>3. CASE j = i - 1
      <4>1. c[w[j]].next = r
        BY <1>4, <1>18, <3>3, <1>a DEF Relinked
      <4>2. j # Len(q) /\ w[j + 1] = r
        BY <1>1, <1>4, <1>17, <3>3
      <4> QED BY <4>1, <4>2
    <3>4. CASE j # i /\ j # i - 1
      <4>1. c[w[j]].next = b[q[j]].next
        BY <1>18, <3>4, <1>a DEF Relinked
      <4>2. j # Len(q) => w[j + 1] = q[j + 1]
        BY <1>4, <1>17, <3>1, <3>4
      <4> QED BY <1>3, <4>1, <4>2
    <3> QED BY <3>2, <3>3, <3>4
  <2>3. w # << >>
    BY <1>1, <1>4, <1>10
  <2> QED BY <1>10, <1>17, <2>1, <2>2, <2>3 DEF Chain
<1>20. BackLinks(c, w)
  <2> SUFFICES ASSUME NEW j \in 1 .. Len(q) PROVE c[w[j]].prev = IF j = 1 THEN 0 ELSE w[j - 1]
    BY <1>17 DEF BackLinks
  <2>1. j # 1 => j - 1 \in 1 .. Len(q)
    BY <1>1
  <2>2. CASE j = i
    <3>1. c[w[j]].prev = p
      BY <1>8, <1>17, <2>2, <1>a DEF Relinked
    <3>2. j # 1 => w[j - 1] = q[i - 1]
      BY <1>4, <1>17, <2>1, <2>2
    <3> QED BY <1>2, <2>2, <3>1, <3>2
  <2>3. CASE j = i + 1
    <3>1. c[w[j]].prev = r
      BY <1>4, <1>18, <2>3, <1>a DEF Relinked
    <3>2. j # 1 /\ w[j - 1] = r
      BY <1>1, <1>4, <1>17, <2>3
    <3> QED BY <3>1, <3>2
  <2>4. CASE j # i /\ j # i + 1
    <3>1. c[w[j]].prev = b[q[j]].prev
      BY <1>18, <2>4, <1>a DEF Relinked
    <3>2. j # 1 => w[j - 1] = q[j - 1]
      BY <1>4, <1>17, <2>1, <2>4
    <3> QED BY <1>3, <3>1, <3>2
  <2> QED BY <2>2, <2>3, <2>4
<1>21. Range(w) = (Range(q) \ {x}) \cup {r}
  <2>1. \A j \in 1 .. Len(q) : w[j] \in (Range(q) \ {x}) \cup {r}
    <3> SUFFICES ASSUME NEW j \in 1 .. Len(q) PROVE w[j] \in (Range(q) \ {x}) \cup {r}
      OBVIOUS
    <3>1. CASE j = i
      BY <1>17, <3>1
    <3>2. CASE j # i
      BY <1>5, <1>18, <3>2 DEF Range
    <3> QED BY <3>1, <3>2
  <2>2. ASSUME NEW a \in (Range(q) \ {x}) \cup {r} PROVE \E j \in 1 .. Len(q) : w[j] = a
    <3>1. CASE a = r
      BY <1>17, <3>1
    <3>2. CASE a # r
      <4>1. PICK j \in 1 .. Len(q) : q[j] = a
        BY <1>5, <3>2 DEF Range
      <4>2. j # i
        BY <1>a, <2>2, <3>2, <4>1
      <4> QED BY <1>18, <4>1, <4>2
    <3> QED BY <3>1, <3>2
  <2>3. Range(w) = {w[j] : j \in 1 .. Len(q)}
    BY <1>11, Zenon DEF Range
  <2>4. \A a : a \in Range(w) <=> \E j \in 1 .. Len(q) : w[j] = a
    BY <2>3, Zenon
  <2> QED BY <2>1, <2>2, <2>4, Zenon
<1> QED BY <1>19, <1>20, <1>21 DEF w, x, p, y, f, InPlace

(* The headers once block x is cut at r, its front in use.                 *)
Cut(b, c, x, r) ==
  \A a \in Addr :
    /\ c[a].used = IF a = x THEN "USED" ELSE IF a = r THEN "FREE" ELSE b[a].used
    /\ c[a].size = IF a = x THEN r - x ELSE IF a = r THEN x + b[x].size - r ELSE b[a].size
    /\ c[a].is_head = IF a = r THEN FALSE ELSE b[a].is_head

(* Where a free block is cut, and what the blocks are then.                *)
LEMMA CutFacts ==
  ASSUME NEW b \in Memory, NEW arena \in SUBSET (1 .. LastAddr), Tile(b, arena),
         NEW x \in Free(b), NEW r \in Nat, x < r, r < x + b[x].size,
         NEW c, Cut(b, c, x, r)
  PROVE  /\ r \in arena /\ r - 1 \in arena /\ r \in 1 .. Top /\ r \in Addr /\ r \notin Starts(b)
         /\ x \in Nat /\ x \in 1 .. Top /\ b[x].size \in Nat /\ x + b[x].size \in Nat
         /\ Free(c) = (Free(b) \ {x}) \cup {r} /\ Used(c) = Used(b) \cup {x}
         /\ Starts(c) = Starts(b) \cup {r}
         /\ \A a \in Starts(b) : a # x => (a < x /\ a + b[a].size <= x) \/ (a > x /\ a >= x + b[x].size)
         /\ \A a \in Starts(b) : a # x => c[a].size = b[a].size
         /\ c[x].size = r - x /\ c[r].size = x + b[x].size - r
<1>0. /\ Top \in Nat /\ LastAddr \in Nat /\ LastAddr < Top /\ 1 .. Top \subseteq Addr
  BY ConstantFacts DEF Addr
<1>1. \A a \in Starts(b) : a \in Addr /\ a \in 1 .. Top /\ a \in Nat /\ a \in arena /\ b[a].size \in Nat \ {0}
  BY <1>0, TileFacts
<1>2. x \in Starts(b)
  BY DEF Starts
<1>3. x \in Nat /\ x \in 1 .. Top /\ b[x].size \in Nat /\ x + b[x].size \in Nat
  BY <1>1, <1>2
<1>4. r \in Extent(b, x) /\ r - 1 \in Extent(b, x)
  BY <1>3 DEF Extent
<1>5. r \in arena /\ r - 1 \in arena
  <2>1. Extent(b, x) \subseteq arena
    BY <1>2 DEF Tile
  <2> QED BY <1>4, <2>1
<1>6. r \in 1 .. Top /\ r \in Addr
  BY <1>0, <1>5
<1>7. ASSUME NEW a \in Starts(b), a # x
      PROVE \/ a < x /\ a + b[a].size <= x
            \/ a > x /\ a >= x + b[x].size
  <2>1. a < x => a + b[a].size <= x
    BY <1>2 DEF Tile
  <2>2. x < a => x + b[x].size <= a
    BY <1>2 DEF Tile
  <2> QED BY <1>1, <1>3, <1>7, <2>1, <2>2
<1>8. r \notin Starts(b) /\ r # x
  BY <1>3, <1>7
<1>9. b[r].used \notin {"FREE", "USED"}
  BY <1>6, <1>8 DEF Starts, Free, Used
<1>10. x \in Addr /\ b[x].used = "FREE"
  BY DEF Free
<1>11. Free(c) = (Free(b) \ {x}) \cup {r}
  BY <1>6, <1>8, <1>10 DEF Free, Cut
<1>12. Used(c) = Used(b) \cup {x}
  BY <1>6, <1>8, <1>9, <1>10 DEF Used, Cut
<1>13. Starts(c) = Starts(b) \cup {r}
  BY <1>2, <1>11, <1>12 DEF Starts
<1>14. \A a \in Starts(b) : a # x => c[a].size = b[a].size
  BY <1>1, <1>8 DEF Cut
<1>15. c[x].size = r - x /\ c[r].size = x + b[x].size - r
  BY <1>6, <1>8, <1>10 DEF Cut
<1>16. \A a \in Starts(b) : a # x => (a < x /\ a + b[a].size <= x) \/ (a > x /\ a >= x + b[x].size)
  BY <1>7
<1>17. r \in arena /\ r - 1 \in arena /\ r \in 1 .. Top /\ r \in Addr /\ r \notin Starts(b)
  BY <1>5, <1>6, <1>8
<1>18. /\ Free(c) = (Free(b) \ {x}) \cup {r} /\ Used(c) = Used(b) \cup {x}
       /\ Starts(c) = Starts(b) \cup {r}
  BY <1>11, <1>12, <1>13
<1> QED BY <1>3, <1>14, <1>15, <1>16, <1>17, <1>18, Zenon

(* The blocks still tile the heap.                                         *)
LEMMA CutTile ==
  ASSUME NEW b \in Memory, NEW arena \in SUBSET (1 .. LastAddr), Tile(b, arena),
         NEW x \in Free(b), NEW r \in Nat, x < r, r < x + b[x].size,
         NEW c, Cut(b, c, x, r)
  PROVE  Tile(c, arena)
<1>1. /\ x \in Nat /\ b[x].size \in Nat /\ x + b[x].size \in Nat
      /\ \A a \in Starts(b) : a # x => (a < x /\ a + b[a].size <= x) \/ (a > x /\ a >= x + b[x].size)
      /\ c[x].size = r - x /\ c[r].size = x + b[x].size - r
  BY CutFacts
<1>2. Starts(c) = Starts(b) \cup {r} /\ x \in Starts(b)
  BY CutFacts DEF Starts
<1>3. \A a \in Starts(b) : a # x => c[a].size = b[a].size /\ Extent(c, a) = Extent(b, a)
  BY CutFacts DEF Extent
<1>4. \A a \in Starts(b) : a \in Nat /\ b[a].size \in Nat
  <2>1. LastAddr \in Nat
    BY ConstantFacts
  <2> QED BY <2>1, TileFacts
<1>5. /\ r - x \in Nat /\ x + b[x].size - r \in Nat
      /\ Extent(c, x) = x .. r - 1 /\ Extent(c, r) = r .. x + b[x].size - 1
      /\ x + (r - x) = r /\ r + (x + b[x].size - r) = x + b[x].size
  <2> DEFINE s == b[x].size
  <2>1. s \in Nat /\ r < x + s
    BY <1>1
  <2> HIDE DEF s
  <2>2. /\ r - x \in Nat /\ x + s - r \in Nat
        /\ x + (r - x) = r /\ r + (x + s - r) = x + s
    BY <1>1, <2>1
  <2>3. c[x].size = r - x /\ c[r].size = x + s - r
    BY <1>1 DEF s
  <2>4. Extent(c, x) = x .. r - 1 /\ Extent(c, r) = r .. x + s - 1
    <3>1. x + c[x].size = r /\ r + c[r].size = x + s
      BY <2>2, <2>3
    <3>2. x + c[x].size - 1 = r - 1 /\ r + c[r].size - 1 = x + s - 1
      BY <1>1, <2>1, <2>2, <2>3
    <3>3. Extent(c, x) = x .. x + c[x].size - 1
      BY Zenon DEF Extent
    <3>4. Extent(c, r) = r .. r + c[r].size - 1
      BY Zenon DEF Extent
    <3> QED BY <3>2, <3>3, <3>4, Zenon
  <2> QED BY <2>2, <2>4 DEF s
<1>6. Extent(b, x) = x .. x + b[x].size - 1 /\ Extent(b, x) \subseteq arena
  BY <1>2 DEF Tile, Extent
<1>7. Extent(c, x) \subseteq Extent(b, x) /\ Extent(c, r) \subseteq Extent(b, x)
  <2> DEFINE s == b[x].size
  <2>1. s \in Nat /\ r < x + s /\ Extent(b, x) = x .. x + s - 1 /\ Extent(c, r) = r .. x + s - 1
    BY <1>1, <1>5, <1>6
  <2> HIDE DEF s
  <2>2. x .. r - 1 \subseteq x .. x + s - 1 /\ r .. x + s - 1 \subseteq x .. x + s - 1
    BY <1>1, <2>1
  <2> QED BY <1>5, <2>1, <2>2
<1>8. \A z \in Extent(b, x) : z \in Extent(c, x) \/ z \in Extent(c, r)
  BY <1>1, <1>5, <1>6
<1>9. ASSUME NEW a \in Starts(c) PROVE c[a].size > 0 /\ Extent(c, a) \subseteq arena
  <2>1. CASE a = x
    <3>1. c[x].size > 0
      BY <1>1
    <3> QED BY <1>6, <1>7, <2>1, <3>1
  <2>2. CASE a = r
    <3>1. c[r].size > 0
      BY <1>1
    <3> QED BY <1>6, <1>7, <2>2, <3>1
  <2>3. CASE a # x /\ a \in Starts(b)
    BY <1>3, <2>3 DEF Tile
  <2> QED BY <1>2, <2>1, <2>2, <2>3
<1>10. ASSUME NEW z \in arena PROVE \E a \in Starts(c) : z \in Extent(c, a)
  <2>1. PICK a \in Starts(b) : z \in Extent(b, a)
    BY DEF Tile
  <2>2. CASE a = x
    BY <1>2, <1>8, <2>1, <2>2
  <2>3. CASE a # x
    BY <1>2, <1>3, <2>1, <2>3
  <2> QED BY <2>2, <2>3
<1>11. ASSUME NEW a \in Starts(c), NEW d \in Starts(c), a < d PROVE a + c[a].size <= d
  <2>1. CASE a \in Starts(b) /\ a # x /\ d \in Starts(b)
    BY <1>3, <1>11, <2>1 DEF Tile
  <2>2. CASE a \in Starts(b) /\ a # x /\ d = r
    <3>1. \/ a < x /\ a + b[a].size <= x
          \/ a > x /\ a >= x + b[x].size
      BY <1>1, <2>2
    <3>2. a \in Nat /\ b[a].size \in Nat /\ x \in Nat /\ x + b[x].size \in Nat /\ a < r
      BY <1>1, <1>4, <1>11, <2>2
    <3>3. c[a].size = b[a].size
      BY <1>3, <2>2
    <3>4. a + b[a].size <= x
      BY <3>1, <3>2
    <3> QED BY <2>2, <3>2, <3>3, <3>4
  <2>3. CASE a = x /\ d = r
    <3>1. a + c[a].size = r
      BY <1>1, <1>5, <2>3
    <3> QED BY <2>3, <3>1
  <2>4. CASE a = x /\ d \in Starts(b)
    <3>1. d >= x + b[x].size
      <4>1. (d < x /\ d + b[d].size <= x) \/ (d > x /\ d >= x + b[x].size)
        BY <1>1, <1>4, <1>11, <2>4
      <4>2. d \in Nat /\ x \in Nat /\ x < d
        BY <1>1, <1>4, <1>11, <2>4
      <4> QED BY <4>1, <4>2
    <3>2. a + c[a].size = r
      BY <1>1, <1>5, <2>4
    <3>3. r < x + b[x].size /\ d \in Nat /\ x + b[x].size \in Nat
      BY <1>1, <1>4, <2>4
    <3> QED BY <3>1, <3>2, <3>3
  <2>5. CASE a = r /\ d \in Starts(b)
    <3>1. d >= x + b[x].size
      <4>1. d \in Nat /\ x \in Nat /\ x < d
        BY <1>1, <1>4, <1>11, <2>5
      <4>2. (d < x /\ d + b[d].size <= x) \/ (d > x /\ d >= x + b[x].size)
        BY <1>1, <2>5, <4>1
      <4> QED BY <4>1, <4>2
    <3>2. a + c[a].size = x + b[x].size
      BY <1>1, <1>5, <2>5
    <3> QED BY <3>1, <3>2
  <2>6. ~(a = r /\ d = r)
    BY <1>11
  <2>7. (a = r \/ a \in Starts(b)) /\ (d = r \/ d \in Starts(b))
    BY <1>2
  <2> QED BY <2>1, <2>2, <2>3, <2>4, <2>5, <2>6, <2>7
<1> QED BY <1>9, <1>10, <1>11 DEF Tile

(* The i-th block of the list cut at r, its rest on the list for it.       *)
LEMMA CutKeeps ==
  ASSUME NEW b, Typed(b), NEW arena \in SUBSET (1 .. LastAddr), Tile(b, arena), Blank(b, arena),
         Heads(b, arena), NEW first, NEW q, Listed(b, first, q),
         NEW i \in 1 .. Len(q), NEW x, x = q[i],
         \A a \in Free(b) : a + b[a].size \notin Free(b) \ {x},
         NEW r \in Nat, x < r, r < x + b[x].size,
         NEW p, p = Before(q, i), NEW y, y = After(q, i),
         NEW f, f = FirstThen(first, p, r),
         NEW c \in Memory, Cut(b, c, x, r), Relinked(b, c, x, r, p, y)
  PROVE  Fitted(b, c, arena, f, Put(q, i, r), x)
<1>0. /\ b \in Memory /\ Top \in Nat /\ LastAddr \in Nat /\ LastAddr < Top /\ 0 \in Addr
      /\ 1 .. Top \subseteq Addr /\ 0 \notin 1 .. Top
  BY ConstantFacts DEF Typed, Addr
<1>1. /\ Len(q) \in Nat /\ q \in Seq(1 .. Top)
      /\ \A k, j \in 1 .. Len(q) : q[k] = q[j] => k = j
      /\ \A k \in 1 .. Len(q) : q[k] \in Free(b)
  BY ListFacts
<1>2. x \in Free(b)
  BY <1>1
<1>3. /\ r \in arena /\ r - 1 \in arena /\ r \in 1 .. Top /\ r \in Addr /\ r \notin Starts(b)
      /\ x \in Nat /\ x \in 1 .. Top /\ b[x].size \in Nat
      /\ Free(c) = (Free(b) \ {x}) \cup {r} /\ Used(c) = Used(b) \cup {x}
      /\ Starts(c) = Starts(b) \cup {r}
      /\ \A a \in Starts(b) : a # x => (a < x /\ a + b[a].size <= x) \/ (a > x /\ a >= x + b[x].size)
      /\ \A a \in Starts(b) : a # x => c[a].size = b[a].size
      /\ c[x].size = r - x /\ c[r].size = x + b[x].size - r
  <2>1. b \in Memory /\ x \in Free(b) /\ Tile(b, arena) /\ Cut(b, c, x, r)
    BY <1>0, <1>2
  <2> QED BY <2>1, CutFacts
<1>4. \A a \in Starts(b) : a \in Nat /\ a \in 1 .. Top /\ a \in Addr /\ a \in arena /\ b[a].size \in Nat
  <2> SUFFICES ASSUME NEW a \in Starts(b)
               PROVE  a \in Nat /\ a \in 1 .. Top /\ a \in Addr /\ a \in arena /\ b[a].size \in Nat
    OBVIOUS
  <2>1. a \in 1 .. LastAddr /\ a \in Addr /\ a \in arena /\ b[a].size \in Nat \ {0}
    BY <1>0, TileFacts
  <2> QED BY <1>0, <2>1
<1>5. Free(b) \subseteq Starts(b) /\ x \in Starts(b)
  BY <1>2 DEF Starts
<1>6. Tile(c, arena)
  BY <1>0, <1>2, CutTile
<1>7. p \in Free(b) \cup {0} /\ y \in Free(b) \cup {0}
  <2>1. i # 1 => i - 1 \in 1 .. Len(q)
    BY <1>1
  <2>2. i # Len(q) => i + 1 \in 1 .. Len(q)
    BY <1>1
  <2>3. p \in Free(b) \cup {0}
    BY <1>1, <2>1 DEF Before
  <2>4. y \in Free(b) \cup {0}
    BY <1>1, <2>2 DEF After
  <2> QED BY <2>3, <2>4
<1>8. Typed(c)
  <2>0. x # 0 /\ r # 0 /\ x # r /\ y \in Addr /\ \A a \in Addr : a # WILD
    <3>1. \A a \in Addr : a # WILD
      BY <1>0, ConstantFacts DEF Addr
    <3> QED BY <1>0, <1>3, <1>4, <1>5, <1>7, <3>1
  <2>1. c[0].used = "data" /\ c[0].next = WILD
    <3>1. b[0].used = "data" /\ b[0].next = WILD
      BY DEF Typed
    <3> QED BY <1>0, <2>0, <3>1 DEF Relinked, Cut
  <2>2. \A z \in Addr : b[z].used # "data" => c[z].used # "data"
    <3> SUFFICES ASSUME NEW z \in Addr, b[z].used # "data" PROVE c[z].used # "data"
      OBVIOUS
    <3>1. c[z].used \in {"USED", "FREE", b[z].used}
      BY DEF Cut
    <3> QED BY <3>1
  <2>3. c[r].used = "FREE" /\ (y # 0 => c[y].used # "data")
    <3>1. c[r].used = "FREE"
      BY <1>3, <2>0 DEF Cut
    <3>2. y # 0 => b[y].used # "data"
      BY <1>7 DEF Free
    <3> QED BY <2>0, <2>2, <3>1, <3>2
  <2>4. ASSUME NEW a \in 1 .. Top PROVE c[a].next # WILD /\ (c[a].next # 0 => c[c[a].next].used # "data")
    <3>0. a \in Addr /\ a # 0
      BY <1>0
    <3>1. b[a].next # WILD /\ (b[a].next # 0 => b[b[a].next].used # "data")
      BY DEF Typed
    <3>2. b[a].next \in Addr
      BY <1>0, <3>0, <3>1 DEF Memory, Header
    <3>3. c[a].next \in {0, r, y, b[a].next}
      <4>1. CASE a = x
        BY <4>1 DEF Relinked
      <4>2. CASE a # x
        BY <3>0, <4>2 DEF Relinked
      <4> QED BY <4>1, <4>2
    <3>4. \A z \in {0, r, y, b[a].next} : z # WILD /\ (z # 0 => c[z].used # "data")
      BY <1>0, <1>3, <2>0, <2>2, <2>3, <3>1, <3>2
    <3> QED BY <3>3, <3>4
  <2> QED BY <2>1, <2>4 DEF Typed
<1>9. Blank(c, arena)
  <2> SUFFICES ASSUME NEW a \in 1 .. Top, a \notin arena PROVE c[a] = NoHeader
    BY DEF Blank
  <2>1. b[a] = NoHeader /\ a \in Addr
    BY <1>0 DEF Blank
  <2>2. a # x /\ a # r /\ a # p /\ a # y /\ a # 0
    BY <1>0, <1>3, <1>4, <1>5, <1>7
  <2>3. b[a] \in Header /\ c[a] \in Header
    BY <1>0, <2>1 DEF Memory
  <2>4. c[a].used = b[a].used /\ c[a].size = b[a].size /\ c[a].is_head = b[a].is_head
    BY <2>1, <2>2 DEF Cut
  <2>5. c[a].prev = b[a].prev /\ c[a].next = b[a].next
    BY <2>1, <2>2 DEF Relinked
  <2> QED BY <2>1, <2>3, <2>4, <2>5 DEF Header
<1>10. Heads(c, arena)
  <2>1. ASSUME NEW a \in 1 .. Top, c[a].is_head
        PROVE a \in arena /\ \E k \in Pages : a = k * Page
    <3>1. a \in Addr /\ b[a].is_head
      BY <1>0, <2>1 DEF Cut
    <3> QED BY <3>1 DEF Heads
  <2>2. ASSUME NEW a \in Starts(c), ~c[a].is_head PROVE a - 1 \in arena
    <3>1. CASE a = r
      BY <1>3, <3>1
    <3>2. CASE a # r
      <4>1. a \in Starts(b) /\ a \in Addr
        BY <1>3, <1>4, <3>2
      <4>2. ~b[a].is_head
        BY <2>2, <3>2, <4>1 DEF Cut
      <4> QED BY <4>1, <4>2 DEF Heads
    <3> QED BY <3>1, <3>2
  <2> QED BY <2>1, <2>2 DEF Heads
<1>11. NoPairs(c)
  <2> SUFFICES ASSUME NEW a \in (Free(b) \ {x}) \cup {r}, a + c[a].size \in (Free(b) \ {x}) \cup {r}
               PROVE FALSE
    BY <1>3 DEF NoPairs
  <2>1. CASE a = r
    <3>1. a + c[a].size = x + b[x].size
      <4> DEFINE s == b[x].size
      <4>1. s \in Nat /\ x \in Nat /\ r \in Nat /\ c[r].size = x + s - r
        BY <1>3
      <4> HIDE DEF s
      <4>2. r + c[r].size = x + s
        BY <4>1
      <4> QED BY <2>1, <4>2 DEF s
    <3>2. x + b[x].size # r
      BY <1>3
    <3> QED BY <1>2, <3>1, <3>2
  <2>2. CASE a \in Free(b) /\ a # x
    <3>1. c[a].size = b[a].size /\ a \in Starts(b)
      BY <1>3, <1>5, <2>2
    <3>2. a + b[a].size # r
      <4>1. (a < x /\ a + b[a].size <= x) \/ (a > x /\ a >= x + b[x].size)
        BY <1>3, <2>2, <3>1
      <4>2. a \in Nat /\ b[a].size \in Nat /\ x \in Nat /\ b[x].size \in Nat
        BY <1>3, <1>4, <3>1
      <4> DEFINE s == b[a].size
                 t == b[x].size
      <4>3. s \in Nat /\ t \in Nat /\ r < x + t /\ ((a < x /\ a + s <= x) \/ (a > x /\ a >= x + t))
        BY <4>1, <4>2
      <4> HIDE DEF s, t
      <4>4. s > 0
        <5>1. b[a].size > 0
          BY <3>1 DEF Tile
        <5> QED BY <5>1 DEF s
      <4>5. a + s # r
        BY <4>2, <4>3, <4>4
      <4> QED BY <4>5 DEF s
    <3> QED BY <2>2, <3>1, <3>2
  <2> QED BY <2>1, <2>2
<1>12. /\ Chain(c, f, Put(q, i, r))
       /\ BackLinks(c, Put(q, i, r))
       /\ Range(Put(q, i, r)) = (Range(q) \ {x}) \cup {r}
  <2>1. Chain(b, first, q) /\ BackLinks(b, q) /\ Range(q) = Free(b)
    BY DEF Listed
  <2>2. IsInjective(q)
    <3>1. DOMAIN q = 1 .. Len(q)
      BY <1>1
    <3> QED BY <1>1, <3>1 DEF IsInjective
  <2>3. r \notin Range(q)
    BY <1>3, <1>5, <2>1
  <2>4. q \in Seq(1 .. Top) /\ i \in 1 .. Len(q) /\ r \in 1 .. Top
    BY <1>1, <1>3
  <2>5. Relinked(b, c, q[i], r, Before(q, i), After(q, i))
    OBVIOUS
  <2>6. InPlace(c, first, q, i, r)
    BY <2>1, <2>2, <2>3, <2>4, <2>5, Replaced
  <2> QED BY <2>6, Zenon DEF InPlace
<1> QED BY <1>3, <1>6, <1>8, <1>9, <1>10, <1>11, <1>12 DEF Listed, Fitted

(* One more block in use.                                                  *)
LEMMA OneMore ==
  ASSUME NEW b, NEW c, NEW l, InUse(b, l), NEW x, x \notin Used(b), Used(c) = Used(b) \cup {x},
         \A a \in Used(b) : c[a].size = b[a].size, NEW n \in Nat, n <= c[x].size
  PROVE  InUse(c, l \cup {[at |-> x, size |-> n]})
<1> DEFINE d == [at |-> x, size |-> n]
<1>1. d.at = x /\ d.size = n
  OBVIOUS
<1> HIDE DEF d
<1>2. ASSUME NEW e \in l PROVE e.at \in Used(c) /\ e.size \in Nat /\ e.size <= c[e.at].size /\ e.at # x
  <2>1. e.at \in Used(b) /\ e.size \in Nat /\ e.size <= b[e.at].size
    BY DEF InUse
  <2> QED BY <2>1
<1>3. \A e \in l \cup {d} : e.at \in Used(c) /\ e.size \in Nat /\ e.size <= c[e.at].size
  BY <1>1, <1>2
<1>4. \A a \in Used(c) : \E e \in l \cup {d} : e.at = a
  <2> SUFFICES ASSUME NEW a \in Used(b) \cup {x} PROVE \E e \in l \cup {d} : e.at = a
    OBVIOUS
  <2>1. CASE a = x
    BY <1>1, <2>1
  <2>2. CASE a \in Used(b)
    BY <2>2 DEF InUse
  <2> QED BY <2>1, <2>2
<1>5. \A e, g \in l \cup {d} : e.at = g.at => e = g
  <2>1. \A e, g \in l : e.at = g.at => e = g
    BY DEF InUse
  <2> QED BY <1>1, <1>2, <2>1
<1> QED BY <1>3, <1>4, <1>5 DEF InUse, d

(* The block that kmalloc found, with its neighbours on the list.          *)
LEMMA FoundBlock ==
  ASSUME IInv, cause = {}, NEW q, Listed(blk, free_list, q), NEW i \in 1 .. Len(q),
         NEW x, x = q[i], NEW p, p = Before(q, i), NEW y, y = After(q, i)
  PROVE  /\ x \in Free(blk) /\ p \in Free(blk) \cup {0} /\ y \in Free(blk) \cup {0}
         /\ x # p /\ x # y /\ blk[x].prev = p /\ blk[x].next = y
         /\ x \in Addr /\ p \in Addr /\ y \in Addr /\ x # 0
<1> DEFINE arena == AddressesOf(heap)
<1>1. Typed(blk) /\ Tile(blk, arena) /\ arena \in SUBSET (1 .. LastAddr) /\ blk \in Memory
  BY Arena DEF IInv, Tidy, Typed
<1> HIDE DEF arena
<1>2. /\ Len(q) \in Nat
      /\ \A k, j \in 1 .. Len(q) : q[k] = q[j] => k = j
      /\ \A k \in 1 .. Len(q) : q[k] \in Free(blk)
  BY <1>1, ListFacts
<1>3. \A a \in Free(blk) : a \in Addr /\ a # 0
  <2> SUFFICES ASSUME NEW a \in Free(blk) PROVE a \in Addr /\ a # 0
    OBVIOUS
  <2>1. a \in Starts(blk)
    BY DEF Starts
  <2> QED BY <1>1, <2>1, TileFacts
<1>4. (i # 1 => i - 1 \in 1 .. Len(q) /\ i - 1 # i) /\ (i # Len(q) => i + 1 \in 1 .. Len(q) /\ i + 1 # i)
  BY <1>2
<1>5. 0 \in Addr
  BY ConstantFacts DEF Addr
<1>6. x \in Free(blk)
  BY <1>2
<1>7. p \in Free(blk) \cup {0} /\ x # p
  <2>1. CASE i = 1
    BY <1>3, <1>6, <2>1 DEF Before
  <2>2. CASE i # 1
    BY <1>2, <1>4, <2>2 DEF Before
  <2> QED BY <2>1, <2>2
<1>8. y \in Free(blk) \cup {0} /\ x # y
  <2>1. CASE i = Len(q)
    BY <1>3, <1>6, <2>1 DEF After
  <2>2. CASE i # Len(q)
    BY <1>2, <1>4, <2>2 DEF After
  <2> QED BY <2>1, <2>2
<1>9. blk[x].prev = p /\ blk[x].next = y
  BY DEF Listed, Chain, BackLinks, Before, After
<1> QED BY <1>3, <1>5, <1>6, <1>7, <1>8, <1>9

(* The whole block is taken.                                               *)
LEMMA WholeTaken ==
  ASSUME IInv, cause = {}, NEW q, Listed(blk, free_list, q), NEW i \in 1 .. Len(q),
         NEW t, t = take(blk, q[i])
  PROVE  /\ Fitted(blk, t.blk, AddressesOf(heap), t.first, RemoveAt(q, i), q[i]) /\ t.blk \in Memory
         /\ \A a \in Addr : t.blk[a].size = blk[a].size
<1> DEFINE x == q[i]
           p == Before(q, i)
           y == After(q, i)
           arena == AddressesOf(heap)
<1>1. /\ Typed(blk) /\ Tile(blk, arena) /\ Blank(blk, arena) /\ Heads(blk, arena) /\ NoPairs(blk)
      /\ arena \in SUBSET (1 .. LastAddr) /\ blk \in Memory
  BY Arena DEF IInv, Tidy, Typed
<1>2. x = q[i] /\ p = Before(q, i) /\ y = After(q, i)
  OBVIOUS
<1>3. /\ x \in Free(blk) /\ x # p /\ x # y /\ blk[x].prev = p /\ blk[x].next = y
      /\ x \in Addr /\ p \in Addr /\ y \in Addr /\ x # 0
  BY FoundBlock
<1> HIDE DEF x, p, y, arena
<1>4. /\ t.blk \in Memory
      /\ \A a \in Addr :
           /\ t.blk[a].used = IF a = x THEN "USED" ELSE blk[a].used
           /\ t.blk[a].size = blk[a].size /\ t.blk[a].is_head = blk[a].is_head
           /\ t.blk[a].prev = IF a = y /\ y # 0 THEN p ELSE blk[a].prev
           /\ t.blk[a].next = IF a = p /\ p # 0 THEN y ELSE blk[a].next
      /\ t.first = IF p # 0 THEN free_list ELSE y
  BY <1>1, <1>2, <1>3, TakeIs
<1>5. Fitted(blk, t.blk, arena, t.first, RemoveAt(q, i), x)
  BY <1>1, <1>2, <1>4, FitWhole
<1> QED BY <1>4, <1>5 DEF x, arena

(* The front of the block is taken; the rest stays on the list.            *)
LEMMA FrontTaken ==
  ASSUME IInv, cause = {}, NEW q, Listed(blk, free_list, q), NEW i \in 1 .. Len(q),
         NEW n \in Nat \ {0}, blk[q[i]].size > n + MEM_HSIZE,
         NEW t, t = take(split(blk, q[i], n), q[i])
  PROVE  /\ Fitted(blk, t.blk, AddressesOf(heap), t.first, Put(q, i, q[i] + n), q[i])
         /\ t.blk \in Memory
         /\ Cut(blk, t.blk, q[i], q[i] + n)
<1> DEFINE x == q[i]
           p == Before(q, i)
           y == After(q, i)
           r == x + n
           arena == AddressesOf(heap)
           s == split(blk, x, n)
<1>1. /\ Typed(blk) /\ Tile(blk, arena) /\ Blank(blk, arena) /\ Heads(blk, arena) /\ NoPairs(blk)
      /\ arena \in SUBSET (1 .. LastAddr) /\ blk \in Memory
  BY Arena DEF IInv, Tidy, Typed
<1>2. /\ x = q[i] /\ p = Before(q, i) /\ y = After(q, i) /\ r = x + n /\ s = split(blk, x, n)
      /\ t = take(s, x) /\ blk[x].size > n + 1 /\ blk[x].size > n + MEM_HSIZE
  BY DEF MEM_HSIZE
<1>3. /\ x \in Free(blk) /\ p \in Free(blk) \cup {0} /\ y \in Free(blk) \cup {0}
      /\ x # p /\ x # y /\ blk[x].prev = p /\ blk[x].next = y
      /\ x \in Addr /\ p \in Addr /\ y \in Addr /\ x # 0
  BY FoundBlock
<1> HIDE DEF x, p, y, r, arena, s
<1>4. /\ x \in Nat /\ blk[x].size \in Nat /\ 0 \in Addr /\ Addr \subseteq Nat
  <2>1. Top \in Nat
    BY ConstantFacts
  <2>2. blk[x] \in Header
    BY <1>1, <1>3 DEF Memory
  <2> QED BY <1>3, <2>1, <2>2 DEF Addr, Header
<1>5. r \in Nat /\ x < r /\ r < x + blk[x].size /\ r - x = n
  <2> DEFINE z == blk[x].size
  <2>1. z \in Nat /\ z > n + 1
    BY <1>2, <1>4
  <2> HIDE DEF z
  <2>2. r \in Nat /\ x < r /\ r < x + z /\ r - x = n
    BY <1>2, <1>4, <2>1
  <2> QED BY <2>2 DEF z
<1>6. r \in Addr /\ r # 0 /\ r # x /\ r # y /\ r # p
  <2>1. r \in Extent(blk, x)
    BY <1>4, <1>5 DEF Extent
  <2>2. x \in Starts(blk) /\ Free(blk) \subseteq Starts(blk)
    BY <1>3 DEF Starts
  <2>3. Extent(blk, x) \subseteq arena
    BY <1>1, <2>2 DEF Tile
  <2>4. LastAddr \in Nat /\ Top \in Nat /\ LastAddr < Top
    BY ConstantFacts
  <2>5. r \in Addr /\ r # 0
    <3>1. r \in 1 .. LastAddr
      BY <1>1, <2>1, <2>3
    <3> QED BY <2>4, <3>1 DEF Addr
  <2>6. ASSUME r \in Free(blk) PROVE FALSE
    <3>1. r \in Starts(blk)
      BY <2>2, <2>6
    <3>2. x + blk[x].size <= r
      BY <1>1, <1>5, <2>2, <3>1 DEF Tile
    <3> QED BY <1>4, <1>5, <3>2
  <2>7. r # x
    BY <1>4, <1>5
  <2> QED BY <1>3, <2>5, <2>6, <2>7
<1>7. /\ s \in Memory
      /\ \A a \in Addr :
           /\ s[a].used = IF a = r THEN "FREE" ELSE blk[a].used
           /\ s[a].size = IF a = x THEN n ELSE IF a = r THEN blk[x].size - n ELSE blk[a].size
           /\ s[a].is_head = IF a = r THEN FALSE ELSE blk[a].is_head
           /\ s[a].prev = IF a = r THEN x ELSE IF a = y /\ y # 0 THEN r ELSE blk[a].prev
           /\ s[a].next = IF a = x THEN r ELSE IF a = r THEN y ELSE blk[a].next
  <2>1. /\ n \in Nat /\ blk \in Memory /\ x \in Addr /\ r \in Addr /\ r = x + n /\ r # x
        /\ blk[x].size > n + MEM_HSIZE /\ y \in Addr /\ y = blk[x].next /\ y # r /\ y # x
        /\ s = split(blk, x, n)
    BY <1>1, <1>2, <1>3, <1>6
  <2>2. WithRest(blk, s, x, n, r, y)
    BY <2>1, SplitIs
  <2> QED BY <2>2 DEF WithRest
<1>8. s[x].prev = p /\ s[x].next = r
  BY <1>3, <1>6, <1>7
<1>9. /\ t.blk \in Memory
      /\ \A a \in Addr :
           /\ t.blk[a].used = IF a = x THEN "USED" ELSE s[a].used
           /\ t.blk[a].size = s[a].size /\ t.blk[a].is_head = s[a].is_head
           /\ t.blk[a].prev = IF a = r /\ r # 0 THEN p ELSE s[a].prev
           /\ t.blk[a].next = IF a = p /\ p # 0 THEN r ELSE s[a].next
      /\ t.first = IF p # 0 THEN free_list ELSE r
  BY <1>2, <1>3, <1>6, <1>7, <1>8, TakeIs
<1>10. Cut(blk, t.blk, x, r)
  <2>1. blk[x].size - n = x + blk[x].size - r /\ n = r - x
    <3> DEFINE z == blk[x].size
    <3>1. z \in Nat
      BY <1>4
    <3> HIDE DEF z
    <3>2. z - n = x + z - r /\ n = r - x
      BY <1>2, <1>4, <1>5, <3>1
    <3> QED BY <3>2 DEF z
  <2>2. ASSUME NEW a \in Addr
        PROVE  /\ t.blk[a].used = IF a = x THEN "USED" ELSE IF a = r THEN "FREE" ELSE blk[a].used
               /\ t.blk[a].is_head = IF a = r THEN FALSE ELSE blk[a].is_head
    <3>1. /\ s[a].used = IF a = r THEN "FREE" ELSE blk[a].used
          /\ s[a].is_head = IF a = r THEN FALSE ELSE blk[a].is_head
      BY <1>7, Zenon
    <3>2. t.blk[a].used = (IF a = x THEN "USED" ELSE s[a].used) /\ t.blk[a].is_head = s[a].is_head
      BY <1>9, Zenon
    <3> QED BY <3>1, <3>2
  <2>3. ASSUME NEW a \in Addr
        PROVE t.blk[a].size = IF a = x THEN n ELSE IF a = r THEN blk[x].size - n ELSE blk[a].size
    <3>1. s[a].size = IF a = x THEN n ELSE IF a = r THEN blk[x].size - n ELSE blk[a].size
      BY <1>7, Zenon
    <3>2. t.blk[a].size = s[a].size
      BY <1>9, Zenon
    <3> QED BY <3>1, <3>2
  <2>4. \A a \in Addr : t.blk[a].size = IF a = x THEN r - x ELSE IF a = r THEN x + blk[x].size - r ELSE blk[a].size
    BY <2>1, <2>3, Zenon
  <2> QED BY <2>2, <2>4 DEF Cut
<1>11. Relinked(blk, t.blk, x, r, p, y)
  <2>1. \A a \in Addr \ {0, x} :
          /\ t.blk[a].prev = IF a = r THEN p ELSE IF a = y THEN r ELSE blk[a].prev
          /\ t.blk[a].next = IF a = p THEN r ELSE IF a = r THEN y ELSE blk[a].next
    <3> SUFFICES ASSUME NEW a \in Addr \ {0, x}
                 PROVE  /\ t.blk[a].prev = IF a = r THEN p ELSE IF a = y THEN r ELSE blk[a].prev
                        /\ t.blk[a].next = IF a = p THEN r ELSE IF a = r THEN y ELSE blk[a].next
      OBVIOUS
    <3>1. /\ s[a].prev = IF a = r THEN x ELSE IF a = y /\ y # 0 THEN r ELSE blk[a].prev
          /\ s[a].next = IF a = x THEN r ELSE IF a = r THEN y ELSE blk[a].next
      BY <1>7
    <3>2. /\ t.blk[a].prev = IF a = r /\ r # 0 THEN p ELSE s[a].prev
          /\ t.blk[a].next = IF a = p /\ p # 0 THEN r ELSE s[a].next
      BY <1>9
    <3> QED BY <1>6, <3>1, <3>2
  <2>2. t.blk[x].next = r
    BY <1>3, <1>7, <1>9, ZenonT(60)
  <2>3. t.blk[0].next = blk[0].next
    BY <1>3, <1>4, <1>6, <1>7, <1>9
  <2> QED BY <2>1, <2>2, <2>3 DEF Relinked
<1>12. t.first = FirstThen(free_list, p, r)
  BY <1>9 DEF FirstThen
<1>13. \A a \in Free(blk) : a + blk[a].size \notin Free(blk) \ {x}
  BY <1>1 DEF NoPairs
<1>14. Fitted(blk, t.blk, arena, t.first, Put(q, i, r), x)
  BY <1>1, <1>2, <1>5, <1>9, <1>10, <1>11, <1>12, <1>13, CutKeeps
<1> QED BY <1>9, <1>10, <1>14 DEF x, r, arena

LEMMA TypeAfter ==
  ASSUME blk' \in Memory, free_list' \in Addr, heap' \subseteq Pages, other' \subseteq Pages \ heap',
         cause' \subseteq {"hang", "lost", "stale", "swallowed", "misfreed", "unmerged", "null", "edge"}
  PROVE  HeapTypeOK'
<1>1. DOMAIN blk' = Addr /\ \A a \in Addr : blk'[a] \in Header
  BY DEF Memory
<1>2. \A a \in DOMAIN blk' : blk'[a].prev \in 0 .. Top /\ blk'[a].size \in 0 .. Top
  BY <1>1 DEF Header, Addr
<1> QED BY <1>2 DEF HeapTypeOK, Addr

(* What remains once the blocks are what they should be.                   *)
LEMMA Done ==
  ASSUME NEW x, NEW c, NEW q, NEW n \in Nat, InUse(blk, live), x \notin Used(blk), n <= c[x].size,
         \A a \in Used(blk) : c[a].size = blk[a].size,
         Fitted(blk, c, AddressesOf(heap'), free_list', q, x),
         blk' = c, live' = Live(x, n), heap' \subseteq Pages, other' \subseteq Pages \ heap',
         cause' = {}
  PROVE  IInv'
<1>1. /\ Typed(c) /\ Tile(c, AddressesOf(heap')) /\ Blank(c, AddressesOf(heap'))
      /\ Heads(c, AddressesOf(heap')) /\ NoPairs(c)
      /\ Listed(c, free_list', q) /\ Used(c) = Used(blk) \cup {x}
  BY DEF Fitted
<1>2. InUse(c, live \cup {[at |-> x, size |-> n]})
  BY <1>1, OneMore
<1>3. InUse(c, live')
  BY <1>2 DEF Live
<1>4. Tidy'
  <2>1. AddressesOf(heap)' = AddressesOf(heap')
    BY DEF AddressesOf
  <2> QED BY <1>1, <1>3, <2>1 DEF Tidy
<1>5. HeapTypeOK'
  <2>1. c \in Memory
    BY <1>1 DEF Typed
  <2>2. free_list' \in Addr
    <3>1. q \in Seq(1 .. Top) /\ free_list' = IF q = << >> THEN 0 ELSE q[1]
      BY <1>1 DEF Listed, Chain
    <3>2. q # << >> => q[1] \in 1 .. Top
      <4>1. q # << >> => 1 \in 1 .. Len(q)
        BY <3>1
      <4> QED BY <3>1, <4>1, ElementOfSeq
    <3>3. 0 \in Addr /\ 1 .. Top \subseteq Addr
      BY ConstantFacts DEF Addr
    <3> QED BY <3>1, <3>2, <3>3
  <2> QED BY <2>1, <2>2, TypeAfter
<1> QED BY <1>4, <1>5 DEF IInv

(* kmalloc from the free list keeps the heap in order.                     *)
LEMMA FitKeeps ==
  ASSUME IInv, cause = {}, NEW size \in Sizes, kmalloc_fit(size)
  PROVE  IInv'
<1> DEFINE n == size + MEM_HSIZE
           w == Search(n)
           t == take(split(blk, w.cur, n), w.cur)
<1>1. /\ w.cur # 0 /\ blk' = t.blk /\ free_list' = t.first /\ live' = Live(w.cur, n)
      /\ UNCHANGED <<heap, other, cause>>
  BY DEF kmalloc_fit
<1>2. n \in Nat \ {0}
  <2>1. size \in Nat
    BY HeapAssumption
  <2> QED BY <2>1 DEF MEM_HSIZE
<1>3. PICK q : Listed(blk, free_list, q)
  BY DEF IInv, Tidy
<1>4. Typed(blk) /\ Tile(blk, AddressesOf(heap)) /\ AddressesOf(heap) \in SUBSET (1 .. LastAddr)
  BY Arena DEF IInv, Tidy
<1>5. Chain(blk, free_list, q) /\ Len(q) < Fuel
  BY <1>3, <1>4, ListFacts DEF Listed
<1>6. PICK i \in 1 .. Len(q) : w.cur = q[i] /\ blk[q[i]].size >= n
  <2> HIDE DEF n
  <2>1. n \in Nat /\ w = Search(n)
    BY <1>2
  <2> HIDE DEF w
  <2> QED BY <1>1, <1>5, <2>1, SearchIs
<1>7. HeapTypeOK /\ InUse(blk, live) /\ q[i] \in Free(blk) /\ q[i] \in Addr /\ blk[q[i]].size \in Nat
      /\ q[i] \notin Used(blk)
  <2>1. q[i] \in Free(blk) /\ q[i] \in Addr
    <3>1. Before(q, i) = Before(q, i) /\ After(q, i) = After(q, i) /\ q[i] = q[i]
      OBVIOUS
    <3> QED BY <1>3, <3>1, FoundBlock
  <2>2. blk[q[i]] \in Header /\ Top \in Nat
    BY <1>4, <2>1, ConstantFacts DEF Typed, Memory
  <2>3. q[i] \notin Used(blk)
    BY <2>1 DEF Free, Used
  <2> QED BY <2>1, <2>2, <2>3 DEF IInv, Tidy, Header, Addr
<1>a. /\ AddressesOf(heap) = AddressesOf(heap') /\ heap' \subseteq Pages /\ other' \subseteq Pages \ heap'
      /\ cause' = {}
  BY <1>1, <1>7 DEF HeapTypeOK
<1>8. t = take(split(blk, q[i], n), q[i])
  BY <1>6
<1> HIDE DEF w
<1>9. CASE blk[q[i]].size <= n + MEM_HSIZE
  <2>1. split(blk, q[i], n) = blk
    BY <1>9 DEF split
  <2>2. t = take(blk, q[i])
    BY <1>8, <2>1
  <2> HIDE DEF t, n
  <2>3. /\ Fitted(blk, t.blk, AddressesOf(heap), t.first, RemoveAt(q, i), q[i])
        /\ \A a \in Addr : t.blk[a].size = blk[a].size
    BY <1>3, <2>2, WholeTaken
  <2>4. /\ n <= t.blk[q[i]].size /\ n \in Nat
        /\ \A a \in Used(blk) : t.blk[a].size = blk[a].size
    BY <1>2, <1>6, <1>7, <2>3 DEF Used
  <2> QED BY <1>1, <1>6, <1>7, <1>a, <2>3, <2>4, Done
<1>10. CASE blk[q[i]].size > n + MEM_HSIZE
  <2> HIDE DEF t, n
  <2>1. /\ Fitted(blk, t.blk, AddressesOf(heap), t.first, Put(q, i, q[i] + n), q[i])
        /\ Cut(blk, t.blk, q[i], q[i] + n)
    BY <1>2, <1>3, <1>8, <1>10, FrontTaken
  <2>2. q[i] \in Nat /\ (q[i] + n) - q[i] = n
    BY <1>2, <1>7, ConstantFacts DEF Addr
  <2>3. n <= t.blk[q[i]].size /\ n \in Nat
    <3>1. t.blk[q[i]].size = n
      BY <1>7, <2>1, <2>2 DEF Cut
    <3> QED BY <1>2, <3>1
  <2>4. ASSUME NEW a \in Used(blk) PROVE t.blk[a].size = blk[a].size
    <3> DEFINE x == q[i]
               r == q[i] + n
    <3>1. Cut(blk, t.blk, x, r) /\ x \in Free(blk) /\ r \in Nat /\ x < r /\ r < x + blk[x].size
      <4>1. q[i] \in Nat /\ blk[q[i]].size \in Nat /\ n \in Nat \ {0} /\ blk[q[i]].size > n + 1
        BY <1>2, <1>7, <1>10, <2>2 DEF MEM_HSIZE
      <4>2. r \in Nat /\ x < r /\ r < x + blk[q[i]].size
        BY <4>1
      <4> QED BY <1>7, <2>1, <4>2
    <3> HIDE DEF x, r
    <3>2. blk \in Memory
      BY <1>4 DEF Typed
    <3>3. \A d \in Starts(blk) : d # x => t.blk[d].size = blk[d].size
      BY <1>4, <3>1, <3>2, CutFacts
    <3>4. a \in Starts(blk) /\ a # x
      BY <3>1 DEF Starts, Used, Free
    <3> QED BY <3>3, <3>4
  <2> QED BY <1>1, <1>6, <1>7, <2>1, <1>a, <2>3, <2>4, Done
<1>11. blk[q[i]].size <= n + MEM_HSIZE \/ blk[q[i]].size > n + MEM_HSIZE
  BY <1>2, <1>7 DEF MEM_HSIZE
<1> QED BY <1>9, <1>10, <1>11

-----------------------------------------------------------------------------
(* A new chunk: as if it came as one free block behind the last one, to be *)
(* cut like any other.                                                     *)

(* The headers once a chunk at x is a free block behind block p.           *)
Added(b, d, x, p) ==
  /\ d \in Memory
  /\ \A a \in Addr :
       /\ d[a].used = IF a = x THEN "FREE" ELSE b[a].used
       /\ d[a].size = IF a = x THEN Chunk ELSE b[a].size
       /\ d[a].is_head = IF a = x THEN TRUE ELSE b[a].is_head
       /\ d[a].prev = IF a = x THEN p ELSE b[a].prev
       /\ d[a].next = IF a = x THEN 0 ELSE IF a = p THEN x ELSE b[a].next

(* What the chunk makes of the heap.                                       *)
Extended(b, d, arena, first, q, x) ==
  /\ Typed(d) /\ Tile(d, arena) /\ Blank(d, arena) /\ Heads(d, arena)
  /\ Listed(d, first, Append(q, x))
  /\ Free(d) = Free(b) \cup {x} /\ Used(d) = Used(b)
  /\ \A a \in Starts(b) : d[a].size = b[a].size

(* The list with x at its end.                                             *)
Behind(d, first, q, x) ==
  /\ Chain(d, first, Append(q, x)) /\ BackLinks(d, Append(q, x))
  /\ Range(Append(q, x)) = Range(q) \cup {x}

LEMMA ListExtended ==
  ASSUME NEW b, NEW d, NEW first, NEW q \in Seq(1 .. Top), Chain(b, first, q), BackLinks(b, q),
         IsInjective(q), q # << >>, NEW x \in 1 .. Top, x \notin Range(q), Added(b, d, x, q[Len(q)])
  PROVE  Behind(d, first, q, x)
<1> DEFINE w == Append(q, x)
           p == q[Len(q)]
           n == Len(q)
<1>0. Top \in Nat /\ 1 .. Top \subseteq Addr
  BY ConstantFacts DEF Addr
<1>1. n \in Nat /\ n # 0 /\ n = Len(q) /\ p = q[n] /\ Added(b, d, x, p)
  BY LenProperties
<1>2. w \in Seq(1 .. Top) /\ Len(w) = n + 1 /\ (\A j \in 1 .. n : w[j] = q[j]) /\ w[n + 1] = x
  BY AppendProperties
<1>3. DOMAIN q = 1 .. n /\ DOMAIN w = 1 .. n + 1
  BY <1>2, LenProperties
<1>4. /\ first = q[1]
      /\ \A k \in 1 .. n : b[q[k]].next = IF k = n THEN 0 ELSE q[k + 1]
      /\ \A k \in 1 .. n : b[q[k]].prev = IF k = 1 THEN 0 ELSE q[k - 1]
  BY DEF Chain, BackLinks
<1> HIDE DEF w, p, n
<1>5. \A k \in 1 .. n : q[k] \in Addr /\ q[k] # x /\ (q[k] = p <=> k = n)
  <2> SUFFICES ASSUME NEW k \in 1 .. n PROVE q[k] \in Addr /\ q[k] # x /\ (q[k] = p <=> k = n)
    OBVIOUS
  <2>1. q[k] \in Addr
    BY <1>0, <1>1, ElementOfSeq
  <2>2. q[k] # x
    BY <1>3 DEF Range
  <2>3. n \in 1 .. n
    BY <1>1
  <2>4. q[k] = p <=> k = n
    BY <1>1, <1>3, <2>3 DEF IsInjective
  <2> QED BY <2>1, <2>2, <2>4
<1>6. x \in Addr
  BY <1>0
<1>7. Chain(d, first, w)
  <2>1. w # << >> /\ first = w[1]
    <3>1. 1 \in 1 .. n
      BY <1>1
    <3> QED BY <1>1, <1>2, <1>4, <3>1
  <2>2. ASSUME NEW j \in 1 .. n + 1 PROVE d[w[j]].next = IF j = n + 1 THEN 0 ELSE w[j + 1]
    <3>1. CASE j = n + 1
      BY <1>1, <1>2, <1>6, <3>1 DEF Added
    <3>2. CASE j = n
      <4>1. w[j] = p /\ w[j + 1] = x /\ n # n + 1 /\ n \in 1 .. n
        BY <1>1, <1>2, <3>2
      <4>2. p \in Addr /\ p # x
        BY <1>1, <1>5, <4>1
      <4>3. d[p].next = x
        BY <1>1, <4>2 DEF Added
      <4> QED BY <3>2, <4>1, <4>3
    <3>3. CASE j # n /\ j # n + 1
      <4>1. j \in 1 .. n /\ j + 1 \in 1 .. n
        BY <1>1, <3>3
      <4>2. d[q[j]].next = b[q[j]].next
        BY <1>1, <1>5, <3>3, <4>1 DEF Added
      <4> QED BY <1>2, <1>4, <3>3, <4>1, <4>2
    <3> QED BY <3>1, <3>2, <3>3
  <2> QED BY <1>2, <2>1, <2>2 DEF Chain
<1>8. BackLinks(d, w)
  <2> SUFFICES ASSUME NEW j \in 1 .. n + 1 PROVE d[w[j]].prev = IF j = 1 THEN 0 ELSE w[j - 1]
    BY <1>2 DEF BackLinks
  <2>1. CASE j = n + 1
    <3>1. j # 1 /\ w[j - 1] = p
      <4>1. (n + 1) - 1 = n /\ n \in 1 .. n
        BY <1>1
      <4> QED BY <1>1, <1>2, <2>1, <4>1
    <3>2. d[x].prev = p
      BY <1>1, <1>6 DEF Added
    <3> QED BY <1>2, <2>1, <3>1, <3>2
  <2>2. CASE j # n + 1
    <3>1. j \in 1 .. n /\ (j # 1 => j - 1 \in 1 .. n)
      BY <1>1, <2>2
    <3>2. d[q[j]].prev = b[q[j]].prev
      BY <1>1, <1>5, <3>1 DEF Added
    <3> QED BY <1>2, <1>4, <3>1, <3>2
  <2> QED BY <2>1, <2>2
<1>9. Range(w) = Range(q) \cup {x}
  <2>1. \A a : a \in Range(w) <=> \E j \in 1 .. n + 1 : w[j] = a
    BY <1>3, Zenon DEF Range
  <2>2. \A a : a \in Range(q) <=> \E j \in 1 .. n : q[j] = a
    BY <1>3, Zenon DEF Range
  <2>3. n + 1 \in 1 .. n + 1 /\ (\A j \in 1 .. n : j \in 1 .. n + 1) /\ \A j \in 1 .. n + 1 : j = n + 1 \/ j \in 1 .. n
    BY <1>1
  <2>4. \A a : (\E j \in 1 .. n + 1 : w[j] = a) <=> (a = x \/ \E j \in 1 .. n : q[j] = a)
    BY <1>2, <2>3, Zenon
  <2> QED BY <2>1, <2>2, <2>4
<1> QED BY <1>7, <1>8, <1>9, Zenon DEF w, Behind

LEMMA ChunkAdded ==
  ASSUME NEW b, Typed(b), NEW arena \in SUBSET (1 .. LastAddr), Tile(b, arena), Blank(b, arena),
         Heads(b, arena), NEW first, NEW q, Listed(b, first, q), q # << >>,
         NEW k \in Pages, NEW x \in Nat \ {0}, x = k * Page, x + Chunk - 1 <= LastAddr,
         \A a \in x .. x + Chunk - 1 : a \notin arena,
         NEW p, p = q[Len(q)], NEW d, Added(b, d, x, p)
  PROVE  Extended(b, d, arena \cup (x .. x + Chunk - 1), first, q, x)
<1> DEFINE run == x .. x + Chunk - 1
           big == arena \cup run
<1>0. /\ b \in Memory /\ d \in Memory /\ Top \in Nat /\ LastAddr \in Nat /\ LastAddr < Top /\ 0 \in Addr
      /\ 1 .. Top \subseteq Addr /\ 0 \notin 1 .. Top /\ Chunk \in Nat \ {0}
  BY ConstantFacts DEF Typed, Addr, Added
<1>1. x \in run /\ x \in 1 .. LastAddr /\ x \in 1 .. Top /\ x \in Addr /\ x # 0 /\ x \notin arena
  BY <1>0
<1>2. /\ Len(q) \in Nat /\ q \in Seq(1 .. Top)
      /\ \A i, j \in 1 .. Len(q) : q[i] = q[j] => i = j
      /\ \A i \in 1 .. Len(q) : q[i] \in Free(b)
  BY ListFacts
<1>3. \A a \in Starts(b) : a \in Nat /\ a \in 1 .. Top /\ a \in Addr /\ a \in arena /\ a # x
                           /\ b[a].size \in Nat \ {0} /\ a + b[a].size - 1 \in arena
  <2> SUFFICES ASSUME NEW a \in Starts(b)
               PROVE  a \in Nat /\ a \in 1 .. Top /\ a \in Addr /\ a \in arena /\ a # x
                      /\ b[a].size \in Nat \ {0} /\ a + b[a].size - 1 \in arena
    OBVIOUS
  <2>1. a \in 1 .. LastAddr /\ a \in Addr /\ a \in arena /\ b[a].size \in Nat \ {0}
        /\ a + b[a].size - 1 \in arena
    BY <1>0, TileFacts
  <2> QED BY <1>0, <1>1, <2>1
<1>4. Free(b) \subseteq Starts(b) /\ Used(b) \subseteq Starts(b)
  BY DEF Starts
<1>5. p \in Free(b)
  <2>1. Len(q) \in 1 .. Len(q)
    BY <1>2
  <2> QED BY <1>2, <2>1
<1>6. Free(d) = Free(b) \cup {x}
  <2>1. \A a \in Addr : d[a].used = IF a = x THEN "FREE" ELSE b[a].used
    BY DEF Added
  <2> QED BY <1>1, <2>1 DEF Free
<1>7. Used(d) = Used(b)
  <2>1. b[x].used = "data"
    BY <1>1 DEF Blank, NoHeader
  <2>2. \A a \in Addr : d[a].used = IF a = x THEN "FREE" ELSE b[a].used
    BY DEF Added
  <2> QED BY <1>1, <2>1, <2>2 DEF Used
<1>8. Starts(d) = Starts(b) \cup {x}
  BY <1>6, <1>7 DEF Starts
<1>9. \A a \in Starts(b) : d[a].size = b[a].size /\ Extent(d, a) = Extent(b, a)
  BY <1>3 DEF Added, Extent
<1>10. d[x].size = Chunk /\ Extent(d, x) = run
  BY <1>1 DEF Added, Extent
<1>11. Typed(d)
  <2>1. d[0].used = "data" /\ d[0].next = WILD
    <3>1. 0 # p /\ 0 # x
      BY <1>1, <1>3, <1>4, <1>5
    <3>2. b[0].used = "data" /\ b[0].next = WILD
      BY DEF Typed
    <3> QED BY <1>0, <3>1, <3>2 DEF Added
  <2>2. \A z \in Addr : b[z].used # "data" => d[z].used # "data"
    BY DEF Added
  <2>3. ASSUME NEW a \in 1 .. Top PROVE d[a].next # WILD /\ (d[a].next # 0 => d[d[a].next].used # "data")
    <3>1. a \in Addr
      BY <1>0
    <3>2. b[a].next # WILD /\ (b[a].next # 0 => b[b[a].next].used # "data")
      BY DEF Typed
    <3>3. b[a].next \in Addr
      BY <1>0, <3>1, <3>2 DEF Memory, Header
    <3>4. d[a].next \in {0, x, b[a].next}
      BY <3>1 DEF Added
    <3>5. d[x].used = "FREE" /\ x # WILD /\ 0 # WILD
      <4>1. d[x].used = "FREE"
        BY <1>1 DEF Added
      <4>2. WILD = Top + 1
        BY ConstantFacts
      <4> QED BY <1>0, <1>1, <4>1, <4>2
    <3>6. \A z \in {0, x, b[a].next} : z # WILD /\ (z # 0 => d[z].used # "data")
      BY <2>2, <3>2, <3>3, <3>5
    <3> QED BY <3>4, <3>6
  <2> QED BY <1>0, <2>1, <2>3 DEF Typed
<1>12. Tile(d, big)
  <2>1. ASSUME NEW a \in Starts(d) PROVE d[a].size > 0 /\ Extent(d, a) \subseteq big
    <3>1. CASE a = x
      BY <1>0, <1>10, <3>1
    <3>2. CASE a \in Starts(b)
      <4>1. b[a].size > 0 /\ Extent(b, a) \subseteq arena
        BY <3>2 DEF Tile
      <4> QED BY <1>9, <3>2, <4>1
    <3> QED BY <1>8, <3>1, <3>2
  <2>2. ASSUME NEW z \in big PROVE \E a \in Starts(d) : z \in Extent(d, a)
    <3>1. CASE z \in run
      BY <1>8, <1>10, <3>1
    <3>2. CASE z \in arena
      <4>1. PICK a \in Starts(b) : z \in Extent(b, a)
        BY <3>2 DEF Tile
      <4> QED BY <1>8, <1>9, <4>1
    <3> QED BY <3>1, <3>2
  <2>3. ASSUME NEW a \in Starts(d), NEW e \in Starts(d), a < e PROVE a + d[a].size <= e
    <3>1. CASE a \in Starts(b) /\ e \in Starts(b)
      BY <1>9, <2>3, <3>1 DEF Tile
    <3>2. CASE a \in Starts(b) /\ e = x
      <4> DEFINE s == b[a].size
      <4>1. s \in Nat /\ a \in Nat /\ a < x /\ d[a].size = s
        BY <1>3, <1>9, <2>3, <3>2
      <4>2. x \notin a .. a + s - 1
        <5>1. Extent(b, a) \subseteq arena
          BY <3>2 DEF Tile
        <5> QED BY <1>1, <5>1 DEF Extent
      <4> HIDE DEF s
      <4>3. a + s <= x
        BY <4>1, <4>2
      <4> QED BY <3>2, <4>1, <4>3
    <3>3. CASE a = x /\ e \in Starts(b)
      <4>1. e \notin run /\ e \in Nat /\ x < e
        BY <1>3, <2>3, <3>3
      <4>2. x + Chunk <= e
        BY <1>0, <4>1
      <4> QED BY <1>10, <3>3, <4>2
    <3>4. ~(a = x /\ e = x)
      BY <2>3
    <3> QED BY <1>8, <3>1, <3>2, <3>3, <3>4
  <2> QED BY <2>1, <2>2, <2>3 DEF Tile
<1>13. Blank(d, big)
  <2> SUFFICES ASSUME NEW a \in 1 .. Top, a \notin big PROVE d[a] = NoHeader
    BY DEF Blank
  <2>1. b[a] = NoHeader /\ a \in Addr
    BY <1>0 DEF Blank
  <2>2. a # x /\ a # p
    BY <1>1, <1>3, <1>4, <1>5
  <2>3. b[a] \in Header /\ d[a] \in Header
    BY <1>0, <2>1 DEF Memory
  <2>4. /\ d[a].used = b[a].used /\ d[a].size = b[a].size /\ d[a].is_head = b[a].is_head
        /\ d[a].prev = b[a].prev /\ d[a].next = b[a].next
    BY <2>1, <2>2 DEF Added
  <2> QED BY <2>1, <2>3, <2>4 DEF Header
<1>14. Heads(d, big)
  <2>1. ASSUME NEW a \in 1 .. Top, d[a].is_head
        PROVE a \in big /\ \E j \in Pages : a = j * Page
    <3>1. CASE a = x
      BY <1>1, <3>1
    <3>2. CASE a # x
      <4>1. b[a].is_head
        BY <1>0, <2>1, <3>2 DEF Added
      <4> QED BY <4>1 DEF Heads
    <3> QED BY <3>1, <3>2
  <2>2. ASSUME NEW a \in Starts(d), ~d[a].is_head PROVE a - 1 \in big
    <3>1. a # x
      BY <1>1, <2>2 DEF Added
    <3>2. a \in Starts(b) /\ a \in Addr
      BY <1>3, <1>8, <3>1
    <3>3. ~b[a].is_head
      BY <2>2, <3>1, <3>2 DEF Added
    <3> QED BY <3>2, <3>3 DEF Heads
  <2> QED BY <2>1, <2>2 DEF Heads
<1>15. Listed(d, first, Append(q, x))
  <2>1. Chain(b, first, q) /\ BackLinks(b, q) /\ Range(q) = Free(b)
    BY DEF Listed
  <2>2. IsInjective(q)
    <3>1. DOMAIN q = 1 .. Len(q)
      BY <1>2
    <3> QED BY <1>2, <3>1 DEF IsInjective
  <2>3. x \notin Range(q)
    BY <1>3, <1>4, <2>1
  <2>4. /\ Chain(d, first, Append(q, x)) /\ BackLinks(d, Append(q, x))
        /\ Range(Append(q, x)) = Range(q) \cup {x}
    <3>1. Added(b, d, x, q[Len(q)]) /\ q \in Seq(1 .. Top) /\ x \in 1 .. Top
      BY <1>1, <1>2
    <3>2. Behind(d, first, q, x)
      BY <2>1, <2>2, <2>3, <3>1, ListExtended
    <3> QED BY <3>2, Zenon DEF Behind
  <2> QED BY <1>6, <2>1, <2>4 DEF Listed
<1> QED BY <1>6, <1>7, <1>9, <1>11, <1>12, <1>13, <1>14, <1>15 DEF Extended

(* The header of the block that is handed out of a new chunk.              *)
NewHeader(n) == [used |-> "USED", size |-> n, is_head |-> TRUE, prev |-> 0, next |-> 0]

(* The headers once block x of size n is in use and its rest at r is       *)
(* behind p; the null pointer behind p has been followed.                  *)
Grown(b, c, x, n, p, r) ==
  /\ c \in Memory
  /\ \A a \in Addr :
       /\ c[a].used = IF a = r THEN "FREE" ELSE IF a = x THEN "USED" ELSE b[a].used
       /\ c[a].size = IF a = r THEN Chunk - n ELSE IF a = x THEN n ELSE b[a].size
       /\ c[a].is_head = IF a = r THEN FALSE ELSE IF a = x THEN TRUE ELSE b[a].is_head
       /\ c[a].prev = IF a = 0 THEN r ELSE IF a = r THEN p ELSE IF a = x THEN 0 ELSE b[a].prev
       /\ c[a].next = IF a = p THEN r ELSE IF a = r THEN 0 ELSE IF a = x THEN 0 ELSE b[a].next

(* The headers once the rest of a chunk is linked in behind block p.       *)
RestLinked(l, n, p, r) ==
  [l EXCEPT ![r] = [used |-> "FREE", size |-> Chunk - n, is_head |-> FALSE,
                    prev |-> p, next |-> 0],
            ![0].prev = r, ![p].next = r]

LEMMA GrownIs ==
  ASSUME NEW b \in Memory, NEW x \in Addr, NEW n \in Nat, n <= Chunk, NEW p \in Addr,
         NEW r \in Addr, r # 0, r # x, NEW l, l = WithHeader(b, x, NewHeader(n)),
         NEW c, c = RestLinked(l, n, p, r)
  PROVE  Grown(b, c, x, n, p, r)
<1> DEFINE h == [used |-> "FREE", size |-> Chunk - n, is_head |-> FALSE, prev |-> p, next |-> 0]
           g == NewHeader(n)
           v == WithHeader(l, r, h)
           w == WithPrev(v, 0, r)
           z == WithNext(w, p, r)
<1>0. n \in Addr /\ Chunk - n \in Addr /\ 0 \in Addr /\ r \in Links
  BY ConstantFacts DEF Addr, Links
<1>1. c = z
  <2>1. c = [l EXCEPT ![r] = h, ![0].prev = r, ![p].next = r]
    BY DEF RestLinked
  <2> HIDE DEF h
  <2>2. c = [[[l EXCEPT ![r] = h] EXCEPT ![0].prev = r] EXCEPT ![p].next = r]
    BY <2>1
  <2>3. c = [[v EXCEPT ![0].prev = r] EXCEPT ![p].next = r]
    BY <2>2 DEF WithHeader
  <2> HIDE DEF v
  <2>4. c = [w EXCEPT ![p].next = r]
    BY <2>3 DEF WithPrev
  <2> HIDE DEF w
  <2> QED BY <2>4 DEF WithNext
<1>2. h \in Header /\ h.used = "FREE" /\ h.size = Chunk - n /\ h.is_head = FALSE /\ h.prev = p /\ h.next = 0
  BY <1>0 DEF Header, Flags
<1>3. g \in Header /\ g.used = "USED" /\ g.size = n /\ g.is_head = TRUE /\ g.prev = 0 /\ g.next = 0
  BY <1>0 DEF Header, Flags, NewHeader
<1> HIDE DEF h, g
<1>4. l \in Memory /\ \A a \in Addr : l[a] = IF a = x THEN g ELSE b[a]
  <2>1. l = WithHeader(b, x, g)
    BY DEF g
  <2> QED BY <1>3, <2>1, HeaderSet
<1>5. v \in Memory /\ \A a \in Addr : v[a] = IF a = r THEN h ELSE l[a]
  <2>1. v = WithHeader(l, r, h)
    OBVIOUS
  <2> HIDE DEF v
  <2> QED BY <1>2, <1>4, <2>1, HeaderSet
<1> HIDE DEF v
<1>6. /\ w \in Memory
      /\ \A a \in Addr :
           /\ w[a].used = v[a].used /\ w[a].size = v[a].size /\ w[a].is_head = v[a].is_head
           /\ w[a].next = v[a].next /\ w[a].prev = IF a = 0 THEN r ELSE v[a].prev
  <2>1. w = WithPrev(v, 0, r)
    OBVIOUS
  <2> HIDE DEF w
  <2> QED BY <1>0, <1>5, <2>1, PrevSet
<1> HIDE DEF w
<1>7. /\ z \in Memory
      /\ \A a \in Addr :
           /\ z[a].used = w[a].used /\ z[a].size = w[a].size /\ z[a].is_head = w[a].is_head
           /\ z[a].prev = w[a].prev /\ z[a].next = IF a = p THEN r ELSE w[a].next
  <2>1. z = WithNext(w, p, r)
    OBVIOUS
  <2> HIDE DEF z
  <2> QED BY <1>0, <1>6, <2>1, NextSet
<1> HIDE DEF z
<1>8. ASSUME NEW a \in Addr
      PROVE  /\ z[a].used = IF a = r THEN "FREE" ELSE IF a = x THEN "USED" ELSE b[a].used
             /\ z[a].size = IF a = r THEN Chunk - n ELSE IF a = x THEN n ELSE b[a].size
             /\ z[a].is_head = IF a = r THEN FALSE ELSE IF a = x THEN TRUE ELSE b[a].is_head
             /\ z[a].prev = IF a = 0 THEN r ELSE IF a = r THEN p ELSE IF a = x THEN 0 ELSE b[a].prev
             /\ z[a].next = IF a = p THEN r ELSE IF a = r THEN 0 ELSE IF a = x THEN 0 ELSE b[a].next
  <2>1. CASE a = r
    <3>1. v[a] = h
      BY <1>5, <2>1
    <3>2. /\ v[a].used = "FREE" /\ v[a].size = Chunk - n /\ v[a].is_head = FALSE
          /\ v[a].prev = p /\ v[a].next = 0
      BY <1>2, <3>1
    <3>3. /\ z[a].used = "FREE" /\ z[a].size = Chunk - n /\ z[a].is_head = FALSE
          /\ z[a].prev = (IF a = 0 THEN r ELSE p) /\ z[a].next = (IF a = p THEN r ELSE 0)
      BY <1>6, <1>7, <3>2
    <3> QED BY <2>1, <3>3
  <2>2. CASE a # r /\ a = x
    <3>1. v[a] = g
      BY <1>4, <1>5, <2>2
    <3>2. /\ v[a].used = "USED" /\ v[a].size = n /\ v[a].is_head = TRUE
          /\ v[a].prev = 0 /\ v[a].next = 0
      BY <1>3, <3>1
    <3>3. /\ z[a].used = "USED" /\ z[a].size = n /\ z[a].is_head = TRUE
          /\ z[a].prev = (IF a = 0 THEN r ELSE 0) /\ z[a].next = (IF a = p THEN r ELSE 0)
      BY <1>6, <1>7, <3>2
    <3> QED BY <2>2, <3>3
  <2>3. CASE a # r /\ a # x
    <3>1. v[a] = b[a]
      BY <1>4, <1>5, <2>3
    <3> QED BY <1>6, <1>7, <2>3, <3>1
  <2> QED BY <2>1, <2>2, <2>3
<1>9. Grown(b, z, x, n, p, r)
  BY <1>7, <1>8, Zenon DEF Grown
<1> QED BY <1>1, <1>4, <1>9

(* A chunk behind p, if it were free.                                      *)
LEMMA AddedIs ==
  ASSUME NEW b \in Memory, NEW x \in Addr, NEW p \in Addr, p # x
  PROVE  \E d : Added(b, d, x, p)
<1> DEFINE h == [used |-> "FREE", size |-> Chunk, is_head |-> TRUE, prev |-> p, next |-> 0]
           u == WithHeader(b, x, h)
           z == WithNext(u, p, x)
<1>0. Chunk \in Addr /\ 0 \in Addr /\ x \in Links
  BY ConstantFacts DEF Addr, Links
<1>1. h \in Header /\ h.used = "FREE" /\ h.size = Chunk /\ h.is_head = TRUE /\ h.prev = p /\ h.next = 0
  BY <1>0 DEF Header, Flags
<1> HIDE DEF h
<1>2. u \in Memory /\ \A a \in Addr : u[a] = IF a = x THEN h ELSE b[a]
  <2>1. u = WithHeader(b, x, h)
    OBVIOUS
  <2> HIDE DEF u
  <2> QED BY <1>1, <2>1, HeaderSet
<1> HIDE DEF u
<1>3. /\ z \in Memory
      /\ \A a \in Addr :
           /\ z[a].used = u[a].used /\ z[a].size = u[a].size /\ z[a].is_head = u[a].is_head
           /\ z[a].prev = u[a].prev /\ z[a].next = IF a = p THEN x ELSE u[a].next
  <2>1. z = WithNext(u, p, x)
    OBVIOUS
  <2> HIDE DEF z
  <2> QED BY <1>0, <1>2, <2>1, NextSet
<1> HIDE DEF z
<1>4. ASSUME NEW a \in Addr
      PROVE  /\ z[a].used = IF a = x THEN "FREE" ELSE b[a].used
             /\ z[a].size = IF a = x THEN Chunk ELSE b[a].size
             /\ z[a].is_head = IF a = x THEN TRUE ELSE b[a].is_head
             /\ z[a].prev = IF a = x THEN p ELSE b[a].prev
             /\ z[a].next = IF a = x THEN 0 ELSE IF a = p THEN x ELSE b[a].next
  <2>1. CASE a = x
    <3>1. u[a] = h
      BY <1>2, <2>1
    <3> QED BY <1>1, <1>3, <2>1, <3>1
  <2>2. CASE a # x
    <3>1. u[a] = b[a]
      BY <1>2, <2>2
    <3> QED BY <1>3, <2>2, <3>1
  <2> QED BY <2>1, <2>2
<1>5. Added(b, z, x, p)
  BY <1>3, <1>4, Zenon DEF Added
<1> QED BY <1>5

(* Taking the front of the chunk that was added is what kmalloc does.      *)
LEMMA GrownCut ==
  ASSUME NEW b \in Memory, NEW x \in Nat, x \in Addr, x # 0, NEW n \in Nat \ {0}, n < Chunk,
         NEW p \in Addr, p # 0, p # x, NEW r \in Addr, r = x + n, r # 0, r # p,
         NEW c, Grown(b, c, x, n, p, r), NEW d, Added(b, d, x, p)
  PROVE  Cut(d, c, x, r) /\ Relinked(d, c, x, r, p, 0)
<1>1. r # x /\ r - x = n /\ x + Chunk - r = Chunk - n /\ 0 \in Addr
  BY ConstantFacts DEF Addr
<1>2. d[x].size = Chunk
  BY DEF Added
<1>3. \A a \in Addr :
       /\ c[a].used = IF a = r THEN "FREE" ELSE IF a = x THEN "USED" ELSE b[a].used
       /\ c[a].size = IF a = r THEN Chunk - n ELSE IF a = x THEN n ELSE b[a].size
       /\ c[a].is_head = IF a = r THEN FALSE ELSE IF a = x THEN TRUE ELSE b[a].is_head
  BY Zenon DEF Grown
<1>4. \A a \in Addr :
       /\ d[a].used = IF a = x THEN "FREE" ELSE b[a].used
       /\ d[a].size = IF a = x THEN Chunk ELSE b[a].size
       /\ d[a].is_head = IF a = x THEN TRUE ELSE b[a].is_head
  BY Zenon DEF Added
<1>5. ASSUME NEW a \in Addr
      PROVE /\ c[a].used = IF a = x THEN "USED" ELSE IF a = r THEN "FREE" ELSE d[a].used
            /\ c[a].size = IF a = x THEN r - x ELSE IF a = r THEN x + d[x].size - r ELSE d[a].size
            /\ c[a].is_head = IF a = r THEN FALSE ELSE d[a].is_head
  <2>1. /\ c[a].used = IF a = r THEN "FREE" ELSE IF a = x THEN "USED" ELSE b[a].used
        /\ c[a].size = IF a = r THEN Chunk - n ELSE IF a = x THEN n ELSE b[a].size
        /\ c[a].is_head = IF a = r THEN FALSE ELSE IF a = x THEN TRUE ELSE b[a].is_head
    BY <1>3, Zenon
  <2>2. /\ d[a].used = IF a = x THEN "FREE" ELSE b[a].used
        /\ d[a].size = IF a = x THEN Chunk ELSE b[a].size
        /\ d[a].is_head = IF a = x THEN TRUE ELSE b[a].is_head
    BY <1>4, Zenon
  <2>3. r # x /\ x + d[x].size - r = Chunk - n /\ r - x = n
    BY <1>1, <1>2
  <2> QED BY <2>1, <2>2, <2>3, Zenon
<1>6. Cut(d, c, x, r)
  BY <1>5, Zenon DEF Cut
<1>7. \A a \in Addr :
       /\ c[a].prev = IF a = 0 THEN r ELSE IF a = r THEN p ELSE IF a = x THEN 0 ELSE b[a].prev
       /\ c[a].next = IF a = p THEN r ELSE IF a = r THEN 0 ELSE IF a = x THEN 0 ELSE b[a].next
  BY Zenon DEF Grown
<1>8. \A a \in Addr :
       /\ d[a].prev = IF a = x THEN p ELSE b[a].prev
       /\ d[a].next = IF a = x THEN 0 ELSE IF a = p THEN x ELSE b[a].next
  BY Zenon DEF Added
<1>9. ASSUME NEW a \in Addr \ {0, x}
      PROVE /\ c[a].prev = IF a = r THEN p ELSE IF a = 0 THEN r ELSE d[a].prev
            /\ c[a].next = IF a = p THEN r ELSE IF a = r THEN 0 ELSE d[a].next
  BY <1>7, <1>8
<1>10. c[x].next = 0 /\ c[0].next = d[0].next
  BY <1>1, <1>7, <1>8
<1>11. Relinked(d, c, x, r, p, 0)
  BY <1>9, <1>10 DEF Relinked
<1> QED BY <1>6, <1>11

(* Where kmalloc puts a chunk.                                             *)
LEMMA NewChunk ==
  ASSUME IInv, cause = {}, NEW k, k = alloc_pages(ChunkPages), k # 0, NEW x, x = k * Page,
         NEW big, big = heap \cup (k .. k + ChunkPages - 1)
  PROVE  /\ k \in Pages /\ x \in Nat \ {0} /\ x \in Addr /\ x + Chunk - 1 <= LastAddr
         /\ big \subseteq Pages /\ other \subseteq Pages \ big
         /\ AddressesOf(k .. k + ChunkPages - 1) = x .. x + Chunk - 1
         /\ AddressesOf(big) = AddressesOf(heap) \cup (x .. x + Chunk - 1)
         /\ \A a \in x .. x + Chunk - 1 : a \notin AddressesOf(heap)
<1> DEFINE run == k .. k + ChunkPages - 1
<1>0. /\ Page \in Nat \ {0} /\ NPages \in Nat \ {0} /\ ChunkPages \in Nat \ {0} /\ Chunk \in Nat \ {0}
      /\ LastAddr \in Nat /\ Top \in Nat /\ LastAddr < Top /\ ChunkPages <= NPages
  BY ConstantFacts
<1>1. k \in 1 .. NPages - ChunkPages + 1 /\ run \cap (heap \cup other) = {}
  BY <1>0, RunFound
<1>2. k \in Nat /\ k \in Pages /\ k # 0
  BY <1>0, <1>1 DEF Pages
<1>3. run \subseteq Pages
  BY <1>0, <1>1 DEF Pages
<1>4. x \in Nat /\ AddressesOf(run) = x .. x + Chunk - 1
  BY <1>2, RunOfPages
<1>5. heap \subseteq Pages /\ other \subseteq Pages \ heap
  BY DEF IInv, HeapTypeOK
<1> HIDE DEF run
<1>6. x .. x + Chunk - 1 \subseteq 1 .. LastAddr
  BY <1>3, <1>4, ArenaIn
<1>7. x \in 1 .. LastAddr /\ x + Chunk - 1 \in 1 .. LastAddr
  <2>1. x \in x .. x + Chunk - 1 /\ x + Chunk - 1 \in x .. x + Chunk - 1
    BY <1>0, <1>4
  <2> QED BY <1>6, <2>1
<1>8. x \in Nat \ {0} /\ x \in Addr /\ x + Chunk - 1 <= LastAddr
  BY <1>0, <1>7 DEF Addr
<1>9. big = heap \cup run
  BY DEF run
<1>10. big \subseteq Pages /\ other \subseteq Pages \ big
  BY <1>1, <1>3, <1>5, <1>9
<1>11. AddressesOf(big) = AddressesOf(heap) \cup AddressesOf(run)
  BY <1>9 DEF AddressesOf
<1>12. ASSUME NEW a \in x .. x + Chunk - 1, a \in AddressesOf(heap) PROVE FALSE
  <2>1. a \in Nat /\ a \in AddressesOf(run)
    BY <1>0, <1>4, <1>12
  <2>2. heap \in SUBSET Nat /\ run \in SUBSET Nat
    BY <1>0, <1>3, <1>5 DEF Pages
  <2>3. a \div Page \in heap /\ a \div Page \in run
    BY <1>12, <2>1, <2>2, PageOf
  <2> QED BY <1>1, <2>3
<1> QED BY <1>2, <1>4, <1>8, <1>10, <1>11, <1>12 DEF run

(* kmalloc from a new chunk keeps the heap in order, or says what is wrong.*)
LEMMA GrowKeeps ==
  ASSUME IInv, cause = {}, NEW size \in Sizes, kmalloc_grow(size)
  PROVE  IInv'
<1> DEFINE n == size + MEM_HSIZE
           w == Search(n)
           k == alloc_pages(ChunkPages)
           x == k * Page
           r == x + n
           run == k .. k + ChunkPages - 1
           arena == AddressesOf(heap)
           big == AddressesOf(heap \cup run)
           l == [blk EXCEPT ![x] = [used |-> "USED", size |-> n, is_head |-> TRUE,
                                    prev |-> 0, next |-> 0]]
           y == l[w.prev].next
<1>1. /\ n <= Chunk /\ w.cur = 0 /\ k # 0
      /\ blk' = IF y = WILD THEN l
                ELSE [l EXCEPT ![r] = [used |-> "FREE", size |-> Chunk - n, is_head |-> FALSE,
                                       prev |-> w.prev, next |-> y],
                               ![y].prev = r, ![w.prev].next = r]
      /\ heap' = heap \cup run /\ live' = Live(x, n) /\ free_list' = free_list /\ other' = other
      /\ cause' = cause \cup (IF y = WILD THEN {"null"} ELSE {})
                        \cup (IF r \notin AddressesOf(run) THEN {"edge"} ELSE {})
                        \cup (IF y # WILD /\ x + Chunk \in FreeBlocks THEN {"unmerged"} ELSE {})
  BY DEF kmalloc_grow
<1>2. /\ w = Search(n) /\ k = alloc_pages(ChunkPages) /\ x = k * Page /\ r = x + n
      /\ run = k .. k + ChunkPages - 1 /\ l = WithHeader(blk, x, NewHeader(n)) /\ y = l[w.prev].next
      /\ arena = AddressesOf(heap) /\ big = AddressesOf(heap')
  BY <1>1 DEF WithHeader, NewHeader
<1>3. n \in Nat \ {0}
  <2>1. size \in Nat
    BY HeapAssumption
  <2> QED BY <2>1 DEF MEM_HSIZE
<1> HIDE DEF n, w, k, x, r, run, arena, big, l, y
<1>4. /\ Typed(blk) /\ Tile(blk, arena) /\ Blank(blk, arena) /\ Heads(blk, arena) /\ NoPairs(blk)
      /\ InUse(blk, live) /\ arena \in SUBSET (1 .. LastAddr) /\ blk \in Memory /\ HeapTypeOK
      /\ blk[0].next = WILD
  BY <1>2, Arena DEF IInv, Tidy, Typed
<1>5. PICK q : Listed(blk, free_list, q)
  BY DEF IInv, Tidy
<1>6. Chain(blk, free_list, q) /\ Len(q) < Fuel /\ Len(q) \in Nat /\ free_list \in Addr
      /\ (\A i \in 1 .. Len(q) : q[i] \in Free(blk)) /\ ListOf(blk, free_list) = q
      /\ Range(q) = Free(blk) /\ q \in Seq(1 .. Top)
  BY <1>4, <1>5, ListFacts DEF Listed
<1>7. w.prev = IF q = << >> THEN 0 ELSE q[Len(q)]
  BY <1>1, <1>2, <1>3, <1>6, SearchIs
<1>8. /\ k \in Pages /\ x \in Nat \ {0} /\ x \in Addr /\ x + Chunk - 1 <= LastAddr
      /\ heap' \subseteq Pages /\ other' \subseteq Pages \ heap'
      /\ AddressesOf(run) = x .. x + Chunk - 1
      /\ big = arena \cup (x .. x + Chunk - 1)
      /\ \A a \in x .. x + Chunk - 1 : a \notin arena
  <2>1. k = alloc_pages(ChunkPages) /\ k # 0 /\ x = k * Page
    BY <1>1, <1>2
  <2>2. run = k .. k + ChunkPages - 1 /\ heap' = heap \cup run /\ other' = other
    BY <1>1, <1>2
  <2> DEFINE h == heap'
  <2>3. h = heap \cup (k .. k + ChunkPages - 1)
    BY <2>2
  <2> HIDE DEF h
  <2>4. /\ k \in Pages /\ x \in Nat \ {0} /\ x \in Addr /\ x + Chunk - 1 <= LastAddr
        /\ h \subseteq Pages /\ other \subseteq Pages \ h
        /\ AddressesOf(k .. k + ChunkPages - 1) = x .. x + Chunk - 1
        /\ AddressesOf(h) = AddressesOf(heap) \cup (x .. x + Chunk - 1)
        /\ \A a \in x .. x + Chunk - 1 : a \notin AddressesOf(heap)
    BY <2>1, <2>3, NewChunk
  <2> QED BY <1>2, <2>2, <2>4, Zenon DEF h
<1>9. /\ Chunk \in Nat \ {0} /\ LastAddr \in Nat /\ Top \in Nat /\ Top = LastAddr + 1 + Chunk
      /\ 0 \in Addr /\ WILD # 0
  BY ConstantFacts DEF Addr
<1>10. /\ r \in Nat /\ r \in Addr /\ r # 0 /\ r # x /\ x < r /\ r <= x + Chunk
  <2>1. r \in Nat /\ r # 0 /\ r # x /\ x < r /\ r <= x + Chunk
    <3>1. r = x + n /\ n <= Chunk
      BY <1>1, <1>2
    <3>2. x \in Nat \ {0}
      BY <1>8
    <3> QED BY <1>3, <1>9, <3>1, <3>2
  <2>2. r <= Top
    BY <1>8, <1>9, <2>1
  <2> QED BY <2>1, <2>2 DEF Addr
<1>11. l \in Memory /\ \A a \in Addr : l[a] = IF a = x THEN NewHeader(n) ELSE blk[a]
  <2>1. NewHeader(n) \in Header
    <3>1. n \in Addr
      BY <1>1, <1>3, <1>9 DEF Addr
    <3> QED BY <1>9, <3>1 DEF Header, NewHeader, Flags
  <2> QED BY <1>2, <1>4, <1>8, <2>1, HeaderSet
<1>12. cause' \subseteq {"hang", "lost", "stale", "swallowed", "misfreed", "unmerged", "null", "edge"}
  BY <1>1
<1>13. CASE q = << >>
  <2>1. w.prev = 0 /\ x # 0
    BY <1>7, <1>8, <1>13
  <2>2. y = WILD
    BY <1>2, <1>4, <1>9, <1>11, <2>1
  <2>3. blk' \in Memory /\ cause' # {}
    BY <1>1, <1>11, <2>2
  <2>4. HeapTypeOK'
    BY <1>1, <1>6, <1>8, <1>12, <2>3, TypeAfter
  <2> QED BY <2>3, <2>4 DEF IInv
<1>14. CASE q # << >>
  <2> DEFINE p == q[Len(q)]
  <2>1. p = q[Len(q)] /\ w.prev = p /\ Len(q) \in 1 .. Len(q)
    BY <1>6, <1>7, <1>14
  <2> HIDE DEF p
  <2>2. p \in Free(blk) /\ p \in Addr
    BY <1>6, <2>1 DEF Free
  <2>3. p \in arena /\ p # 0 /\ p # x /\ blk[p].next = 0
    <3>1. p \in Starts(blk)
      BY <2>2 DEF Starts
    <3>2. p \in arena /\ p # 0
      BY <1>4, <3>1, TileFacts
    <3>3. x \in x .. x + Chunk - 1
      BY <1>8, <1>9
    <3>4. blk[p].next = 0
      BY <1>6, <2>1 DEF Chain
    <3> QED BY <1>8, <3>2, <3>3, <3>4
  <2>4. y = 0
    BY <1>2, <1>11, <2>1, <2>2, <2>3
  <2>5. blk' = RestLinked(l, n, p, r)
    BY <1>1, <1>9, <2>1, <2>4 DEF RestLinked
  <2>6. Grown(blk, blk', x, n, p, r)
    <3> DEFINE c == blk'
    <3>1. c = RestLinked(l, n, p, r)
      BY <2>5
    <3>2. /\ n \in Nat /\ blk \in Memory /\ x \in Addr /\ n <= Chunk /\ p \in Addr /\ r \in Addr
          /\ r # 0 /\ r # x /\ l = WithHeader(blk, x, NewHeader(n))
      BY <1>1, <1>2, <1>3, <1>4, <1>8, <1>10, <2>2
    <3> HIDE DEF c
    <3>3. Grown(blk, c, x, n, p, r)
      BY <3>1, <3>2, GrownIs
    <3> QED BY <3>3 DEF c
  <2>7. HeapTypeOK'
    <3>1. blk' \in Memory
      BY <2>6 DEF Grown
    <3> QED BY <1>1, <1>6, <1>8, <1>12, <3>1, TypeAfter
  <2>8. ASSUME cause' = {} PROVE Tidy'
    <3> DEFINE c == blk'
               q1 == Append(q, x)
               i == Len(q) + 1
    <3>1. r \in x .. x + Chunk - 1 /\ x + Chunk \notin Free(blk)
      <4>1. r \in AddressesOf(run) /\ x + Chunk \notin FreeBlocks
        BY <1>1, <1>9, <2>4, <2>8
      <4>2. FreeBlocks = Free(blk)
        BY <1>6 DEF FreeBlocks
      <4> QED BY <1>8, <4>1, <4>2
    <3>2. n < Chunk /\ r # p /\ n \in Nat
      <4>1. n < Chunk
        BY <1>2, <1>3, <1>8, <1>9, <3>1
      <4>2. r # p
        BY <1>8, <2>3, <3>1
      <4> QED BY <1>3, <4>1, <4>2
    <3>3. PICK d : Added(blk, d, x, p)
      BY <1>4, <1>8, <2>2, <2>3, AddedIs
    <3>4. Extended(blk, d, big, free_list, q, x)
      <4>1. Extended(blk, d, arena \cup (x .. x + Chunk - 1), free_list, q, x)
        BY <1>2, <1>4, <1>5, <1>8, <1>14, <2>1, <3>3, ChunkAdded
      <4> QED BY <1>8, <4>1
    <3>5. /\ Typed(d) /\ Tile(d, big) /\ Blank(d, big) /\ Heads(d, big) /\ Listed(d, free_list, q1)
          /\ Free(d) = Free(blk) \cup {x} /\ Used(d) = Used(blk)
          /\ \A a \in Starts(blk) : d[a].size = blk[a].size
      BY <3>4 DEF Extended
    <3>6. d[x].size = Chunk
      BY <1>8, <3>3 DEF Added
    <3>7. \A a \in Free(d) : a + d[a].size \notin Free(d) \ {x}
      <4> SUFFICES ASSUME NEW a \in Free(d) PROVE a + d[a].size \notin Free(blk)
        BY <3>5
      <4>1. CASE a = x
        BY <3>1, <3>6, <4>1
      <4>2. CASE a \in Free(blk)
        <5>1. d[a].size = blk[a].size
          BY <3>5, <4>2 DEF Starts
        <5> QED BY <1>4, <4>2, <5>1 DEF NoPairs
      <4> QED BY <3>5, <4>1, <4>2
    <3>8. Cut(d, c, x, r) /\ Relinked(d, c, x, r, p, 0)
      <4>1. c = blk' /\ Grown(blk, c, x, n, p, r)
        BY <2>6
      <4> HIDE DEF c
      <4> QED BY <1>2, <1>3, <1>4, <1>8, <1>10, <2>2, <2>3, <3>2, <3>3, <4>1, GrownCut
    <3>9. /\ i \in 1 .. Len(q1) /\ x = q1[i] /\ p = Before(q1, i) /\ 0 = After(q1, i)
          /\ free_list = FirstThen(free_list, p, r)
      <4>1. x \in 1 .. Top
        BY <1>8, <1>9 DEF Addr
      <4>2. /\ Len(q1) = Len(q) + 1 /\ q1[Len(q) + 1] = x
            /\ \A j \in 1 .. Len(q) : q1[j] = q[j]
        BY <1>6, <4>1, AppendProperties
      <4>3. i \in 1 .. Len(q1) /\ i # 1 /\ i - 1 = Len(q) /\ i = Len(q1)
        BY <1>6, <2>1, <4>2
      <4> HIDE DEF q1
      <4> QED BY <2>1, <2>3, <4>2, <4>3 DEF Before, After, FirstThen
    <3>10. big \in SUBSET (1 .. LastAddr)
      BY <1>2, <1>8, ArenaIn
    <3>11. c \in Memory
      BY <2>6 DEF Grown
    <3>12. r \in Nat /\ x < r /\ r < x + d[x].size
      BY <1>8, <1>9, <1>10, <3>1, <3>6
    <3>13. Fitted(d, c, big, free_list, Put(q1, i, r), x)
      <4> HIDE DEF c, q1, i
      <4> QED BY <3>5, <3>7, <3>8, <3>9, <3>10, <3>11, <3>12, CutKeeps
    <3>14. Fitted(blk, c, AddressesOf(heap'), free_list', Put(q1, i, r), x)
      <4> HIDE DEF c, q1, i
      <4> QED BY <1>1, <1>2, <3>5, <3>13 DEF Fitted
    <3>15. n <= c[x].size /\ \A a \in Used(blk) : c[a].size = blk[a].size
      <4>1. \A a \in Addr : c[a].size = IF a = r THEN Chunk - n ELSE IF a = x THEN n ELSE blk[a].size
        BY <2>6 DEF Grown
      <4>2. \A a \in Used(blk) : a \in Addr /\ a \in arena
        BY <1>4, TileFacts DEF Starts
      <4>3. r \notin arena /\ x \notin arena
        <5>1. x \in x .. x + Chunk - 1
          BY <1>8, <1>9
        <5> QED BY <1>8, <3>1, <5>1
      <4> HIDE DEF c
      <4>4. c[x].size = n
        BY <1>8, <1>10, <4>1
      <4>5. n <= c[x].size
        BY <1>3, <4>4
      <4> QED BY <4>1, <4>2, <4>3, <4>5
    <3>16. x \notin Used(blk)
      <4>1. blk[x].used = "data"
        <5>1. x \in 1 .. Top /\ x \notin arena
          <6>1. x \in x .. x + Chunk - 1
            BY <1>8, <1>9
          <6> QED BY <1>8, <1>9, <6>1 DEF Addr
        <5> QED BY <1>4, <5>1 DEF Blank, NoHeader
      <4> QED BY <4>1 DEF Used
    <3>17. blk' = c
      OBVIOUS
    <3>18. IInv'
      <4> HIDE DEF c, q1, i
      <4> QED BY <1>1, <1>4, <1>8, <2>8, <3>2, <3>14, <3>15, <3>16, <3>17, Done
    <3> QED BY <2>8, <3>18 DEF IInv
  <2> QED BY <2>7, <2>8 DEF IInv
<1> QED BY <1>13, <1>14

-----------------------------------------------------------------------------
(* The heap at boot: one free block.                                       *)
LEMMA InitIInv == Init => IInv
<1> SUFFICES ASSUME Init PROVE IInv
  OBVIOUS
<1> DEFINE arena == AddressesOf(heap)
           q == << Page >>
           first == [NoHeader EXCEPT !.used = "FREE", !.size = Chunk, !.is_head = TRUE]
           null == [NoHeader EXCEPT !.next = WILD]
<1>0. /\ Page \in Nat \ {0} /\ NPages \in Nat \ {0} /\ ChunkPages \in Nat \ {0} /\ ChunkPages <= NPages
      /\ Chunk \in Nat \ {0} /\ LastAddr \in Nat /\ Top \in Nat
      /\ Top = LastAddr + 1 + Chunk /\ Page <= LastAddr /\ WILD = Top + 1
  BY ConstantFacts
<1>1. /\ heap = 1 .. ChunkPages /\ other = {} /\ free_list = Page /\ live = {} /\ cause = {}
      /\ blk = [a \in Addr |-> IF a = Page THEN first ELSE IF a = 0 THEN null ELSE NoHeader]
  BY DEF Init, Addr
<1>2. /\ first.used = "FREE" /\ first.size = Chunk /\ first.is_head = TRUE /\ first.prev = 0
      /\ first.next = 0 /\ first \in Header
      /\ null.used = "data" /\ null.size = 0 /\ null.is_head = FALSE /\ null.prev = 0
      /\ null.next = WILD /\ null \in Header
      /\ NoHeader.used = "data" /\ NoHeader.size = 0 /\ NoHeader.is_head = FALSE /\ NoHeader.prev = 0
      /\ NoHeader.next = 0 /\ NoHeader \in Header
  <2>1. 0 \in Addr /\ Chunk \in Addr
    BY <1>0 DEF Addr
  <2>2. /\ NoHeader.used = "data" /\ NoHeader.size = 0 /\ NoHeader.is_head = FALSE
        /\ NoHeader.prev = 0 /\ NoHeader.next = 0 /\ NoHeader \in Header
    BY <2>1 DEF NoHeader, Header, Flags
  <2>3. /\ first.used = "FREE" /\ first.size = Chunk /\ first.is_head = TRUE /\ first.prev = 0
        /\ first.next = 0 /\ first \in Header
    BY <2>1, <2>2 DEF Header, Flags
  <2>4. /\ null.used = "data" /\ null.size = 0 /\ null.is_head = FALSE /\ null.prev = 0
        /\ null.next = WILD /\ null \in Header
    BY <2>1, <2>2 DEF Header, Flags
  <2> QED BY <2>2, <2>3, <2>4
<1>3. /\ arena = Page .. Page + Chunk - 1 /\ heap \subseteq Pages /\ arena \in SUBSET (1 .. LastAddr)
  <2>1. AddressesOf(1 .. 1 + ChunkPages - 1) = 1 * Page .. 1 * Page + Chunk - 1
    BY RunOfPages
  <2>2. 1 .. 1 + ChunkPages - 1 = heap /\ 1 * Page = Page
    BY <1>0, <1>1
  <2>3. heap \subseteq Pages
    BY <1>0, <1>1 DEF Pages
  <2> QED BY <2>1, <2>2, <2>3, ArenaIn
<1> HIDE DEF arena, first, null
<1>4. /\ blk \in Memory /\ blk[Page] = first /\ blk[0] = null
      /\ \A a \in Addr : a # Page /\ a # 0 => blk[a] = NoHeader
  <2>1. Page \in Addr /\ 0 \in Addr /\ Page # 0
    BY <1>0 DEF Addr
  <2> QED BY <1>1, <1>2, <2>1 DEF Memory
<1>5. Free(blk) = {Page} /\ Used(blk) = {} /\ Starts(blk) = {Page}
  <2>1. \A a \in Addr : blk[a].used = IF a = Page THEN "FREE" ELSE "data"
    BY <1>2, <1>4
  <2>2. Page \in Addr
    BY <1>0 DEF Addr
  <2> QED BY <2>1, <2>2 DEF Free, Used, Starts
<1>6. Typed(blk)
  <2>1. \A a \in 1 .. Top : blk[a].next = 0
    BY <1>2, <1>4 DEF Addr
  <2> QED BY <1>0, <1>2, <1>4, <2>1 DEF Typed
<1>7. Tile(blk, arena)
  <2>1. Extent(blk, Page) = Page .. Page + Chunk - 1
    BY <1>2, <1>4 DEF Extent
  <2> QED BY <1>0, <1>2, <1>3, <1>4, <1>5, <2>1 DEF Tile
<1>8. Blank(blk, arena)
  <2>1. Page \in arena
    BY <1>0, <1>3
  <2> QED BY <1>4, <2>1 DEF Blank, Addr
<1>9. Heads(blk, arena)
  <2>1. \A a \in 1 .. Top : blk[a].is_head => a = Page
    BY <1>2, <1>4 DEF Addr
  <2>2. Page \in arena /\ 1 \in Pages /\ Page = 1 * Page
    BY <1>0, <1>3 DEF Pages
  <2> QED BY <1>2, <1>4, <1>5, <2>1, <2>2 DEF Heads
<1>10. InUse(blk, live)
  BY <1>1, <1>5 DEF InUse
<1>11. NoPairs(blk)
  BY <1>0, <1>2, <1>4, <1>5 DEF NoPairs
<1>12. Listed(blk, free_list, q)
  <2>1. q \in Seq(1 .. Top) /\ Len(q) = 1 /\ q[1] = Page /\ q # << >>
    BY <1>0
  <2>2. Range(q) = {Page}
    BY <2>1 DEF Range
  <2>3. Chain(blk, free_list, q)
    BY <1>1, <1>2, <1>4, <2>1 DEF Chain
  <2>4. BackLinks(blk, q)
    BY <1>2, <1>4, <2>1 DEF BackLinks
  <2> QED BY <1>5, <2>2, <2>3, <2>4 DEF Listed
<1>13. Tidy
  BY <1>6, <1>7, <1>8, <1>9, <1>10, <1>11, <1>12 DEF Tidy, arena
<1>14. HeapTypeOK
  <2>1. \A a \in Addr : blk[a] \in Header
    BY <1>4 DEF Memory
  <2>2. \A a \in DOMAIN blk : blk[a].prev \in 0 .. Top /\ blk[a].size \in 0 .. Top
    BY <1>4, <2>1 DEF Memory, Header, Addr
  <2> QED BY <1>0, <1>1, <1>3, <2>2 DEF HeapTypeOK
<1> QED BY <1>13, <1>14 DEF IInv

(* Every call keeps the heap in order, or says what has gone wrong.        *)
LEMMA NextIInv == IInv /\ [Next]_vars => IInv'
<1> SUFFICES ASSUME IInv, [Next]_vars PROVE IInv'
  OBVIOUS
<1>1. CASE UNCHANGED vars
  BY <1>1 DEF IInv, HeapTypeOK, Tidy, AddressesOf, vars
<1>2. CASE Next
  <2>1. cause = {}
    BY <1>2 DEF Next
  <2>2. CASE \E size \in Sizes : kmalloc_fit(size)
    BY <2>1, <2>2, FitKeeps
  <2>3. CASE \E size \in Sizes : kmalloc_grow(size)
    BY <2>1, <2>3, GrowKeeps
  <2>4. CASE \E b \in live : kfree(b)
    BY <2>1, <2>4, FreeKeeps
  <2>5. CASE alloc_page
    BY <2>1, <2>5, PageKeeps
  <2>6. CASE \E p \in Pages : free_page(p)
    BY <2>1, <2>6, FreePageKeeps
  <2> QED BY <1>2, <2>2, <2>3, <2>4, <2>5, <2>6 DEF Next
<1> QED BY <1>1, <1>2

(* Until something goes wrong the blocks in use and the free blocks tile   *)
(* the heap's pages, the free list is doubly linked and holds the free     *)
(* blocks alone, and no free neighbours are left unmerged: through every   *)
(* splitting, growth and merging of kmalloc and kfree, for any pages,      *)
(* chunks and sizes.                                                       *)
THEOREM HeapCorrect == Spec => []HeapInv
<1>1. IInv => HeapInv
  BY InvariantImplies
<1> QED BY <1>1, InitIInv, NextIInv, PTL DEF Spec

-----------------------------------------------------------------------------
(* What callers rely on.                                                   *)

(* A block in use lies in its extent.                                      *)
LEMMA InExtent ==
  ASSUME NEW b, Typed(b), NEW arena \in SUBSET (1 .. LastAddr), Tile(b, arena),
         NEW l, InUse(b, l), NEW c \in l
  PROVE  /\ c.at \in Used(b) /\ c.at \in Starts(b)
         /\ Promise!Space(c) \subseteq Extent(b, c.at) /\ Promise!Space(c) \subseteq arena
<1>1. c.at \in Used(b) /\ c.size \in Nat /\ c.size <= b[c.at].size
  BY DEF InUse
<1>2. c.at \in Starts(b)
  BY <1>1 DEF Starts
<1>3. c.at \in Nat /\ b[c.at].size \in Nat
  <2>1. LastAddr \in Nat /\ b \in Memory
    BY ConstantFacts DEF Typed
  <2> QED BY <1>2, <2>1, TileFacts
<1>4. Promise!Space(c) \subseteq Extent(b, c.at)
  <2> DEFINE x == c.at
             n == c.size
             s == b[c.at].size
  <2>1. x \in Nat /\ n \in Nat /\ s \in Nat /\ n <= s
    BY <1>1, <1>3
  <2>2. Promise!Space(c) = x .. x + n - 1 /\ Extent(b, c.at) = x .. x + s - 1
    BY DEF Promise!Space, Extent
  <2> HIDE DEF x, n, s
  <2>3. x .. x + n - 1 \subseteq x .. x + s - 1
    BY <2>1
  <2> QED BY <2>2, <2>3
<1>5. Extent(b, c.at) \subseteq arena
  BY <1>2 DEF Tile
<1> QED BY <1>1, <1>2, <1>4, <1>5

(* Two blocks have no address in common.                                   *)
LEMMA ExtentsApart ==
  ASSUME NEW b, Typed(b), NEW arena \in SUBSET (1 .. LastAddr), Tile(b, arena),
         NEW a \in Starts(b), NEW d \in Starts(b), a # d
  PROVE  Extent(b, a) \cap Extent(b, d) = {}
<1>1. LastAddr \in Nat /\ b \in Memory
  BY ConstantFacts DEF Typed
<1>2. a \in Nat /\ d \in Nat /\ b[a].size \in Nat /\ b[d].size \in Nat
  BY <1>1, TileFacts
<1>3. a + b[a].size <= d \/ d + b[d].size <= a
  <2>1. a < d \/ d < a
    BY <1>2
  <2> QED BY <2>1 DEF Tile
<1> DEFINE s == b[a].size
           t == b[d].size
<1>4. s \in Nat /\ t \in Nat /\ (a + s <= d \/ d + t <= a)
  BY <1>2, <1>3
<1>5. Extent(b, a) = a .. a + s - 1 /\ Extent(b, d) = d .. d + t - 1
  BY DEF Extent
<1> HIDE DEF s, t
<1>6. (a .. a + s - 1) \cap (d .. d + t - 1) = {}
  BY <1>2, <1>4
<1> QED BY <1>5, <1>6

(* kmalloc's block is its caller's alone, from the list ...                *)
LEMMA FitAllocates ==
  ASSUME IInv, cause = {}, NEW size \in Sizes, kmalloc_fit(size)
  PROVE  cause' = {} /\ Promise!Alloc
<1> DEFINE n == size + MEM_HSIZE
           w == Search(n)
           d == [at |-> w.cur, size |-> n]
           arena == AddressesOf(heap)
<1>1. w.cur # 0 /\ live' = Live(w.cur, n) /\ heap' = heap /\ cause' = {}
  BY DEF kmalloc_fit
<1>2. n \in Nat \ {0}
  <2>1. size \in Nat
    BY HeapAssumption
  <2> QED BY <2>1 DEF MEM_HSIZE
<1>3. /\ Typed(blk) /\ Tile(blk, arena) /\ InUse(blk, live) /\ arena \in SUBSET (1 .. LastAddr)
  BY Arena DEF IInv, Tidy
<1>4. w.cur \in Free(blk)
  <2>1. PICK q : Listed(blk, free_list, q)
    BY DEF IInv, Tidy
  <2>2. Chain(blk, free_list, q) /\ Len(q) < Fuel /\ \A i \in 1 .. Len(q) : q[i] \in Free(blk)
    BY <1>3, <2>1, ListFacts DEF Listed
  <2>3. w = Search(n)
    OBVIOUS
  <2> HIDE DEF n, w
  <2> QED BY <1>1, <1>2, <1>3, <2>2, <2>3, SearchIs DEF Typed
<1>5. IInv'
  BY FitKeeps
<1>6. /\ Typed(blk') /\ Tile(blk', arena) /\ InUse(blk', live')
  <2>1. AddressesOf(heap)' = arena
    BY <1>1 DEF AddressesOf
  <2> QED BY <1>1, <1>5, <2>1 DEF IInv, Tidy
<1>7. live' = live \cup {d} /\ d \in live' /\ d.at = w.cur
  BY <1>1 DEF Live
<1> HIDE DEF d, n, w, arena
<1>8. Promise!Space(d) \subseteq arena
  BY <1>3, <1>6, <1>7, InExtent
<1>9. ASSUME NEW c \in live PROVE Promise!Space(d) \cap Promise!Space(c) = {}
  <2>1. c.at \in Used(blk)
    BY <1>3 DEF InUse
  <2>2. c.at # d.at
    BY <1>4, <1>7, <2>1 DEF Used, Free
  <2>3. /\ c.at \in Starts(blk') /\ d.at \in Starts(blk')
        /\ Promise!Space(c) \subseteq Extent(blk', c.at) /\ Promise!Space(d) \subseteq Extent(blk', d.at)
    BY <1>3, <1>6, <1>7, InExtent
  <2>4. Extent(blk', c.at) \cap Extent(blk', d.at) = {}
    BY <1>3, <1>6, <2>2, <2>3, ExtentsApart
  <2> QED BY <2>3, <2>4
<1>10. AddressesOf(heap) = arena /\ AddressesOf(heap)' = arena
  BY <1>1 DEF AddressesOf, arena
<1> QED BY <1>1, <1>7, <1>8, <1>9, <1>10 DEF Promise!Alloc

(* ... and from a new chunk, wherever the rest of it is linked.            *)
LEMMA GrowAllocates ==
  ASSUME IInv, cause = {}, NEW size \in Sizes, kmalloc_grow(size)
  PROVE  "misfreed" \notin cause' /\ Promise!Alloc
<1> DEFINE n == size + MEM_HSIZE
           k == alloc_pages(ChunkPages)
           x == k * Page
           d == [at |-> x, size |-> n]
           big == heap \cup (k .. k + ChunkPages - 1)
           arena == AddressesOf(heap)
<1>1. /\ n <= Chunk /\ k # 0 /\ heap' = big /\ live' = Live(x, n)
      /\ "misfreed" \notin cause'
  BY DEF kmalloc_grow
<1>2. n \in Nat \ {0}
  <2>1. size \in Nat
    BY HeapAssumption
  <2> QED BY <2>1 DEF MEM_HSIZE
<1>3. /\ Typed(blk) /\ Tile(blk, arena) /\ InUse(blk, live) /\ arena \in SUBSET (1 .. LastAddr)
  BY Arena DEF IInv, Tidy
<1>4. live' = live \cup {d} /\ d \in live' /\ Promise!Space(d) = x .. x + n - 1
  BY <1>1 DEF Live, Promise!Space
<1>5. k = alloc_pages(ChunkPages) /\ x = k * Page /\ big = heap \cup (k .. k + ChunkPages - 1)
  OBVIOUS
<1> HIDE DEF d, n, k, x, big
<1>6. /\ x \in Nat \ {0}
      /\ AddressesOf(big) = arena \cup (x .. x + Chunk - 1)
      /\ \A a \in x .. x + Chunk - 1 : a \notin arena
  BY <1>1, <1>5, NewChunk
<1>7. Promise!Space(d) \subseteq x .. x + Chunk - 1
  <2>1. Chunk \in Nat
    BY ConstantFacts
  <2> QED BY <1>1, <1>2, <1>4, <1>6, <2>1
<1>8. ASSUME NEW c \in live PROVE Promise!Space(d) \cap Promise!Space(c) = {}
  <2>1. Promise!Space(c) \subseteq arena
    BY <1>3, InExtent
  <2> HIDE DEF arena
  <2> QED BY <1>6, <1>7, <2>1
<1>9. AddressesOf(heap)' = AddressesOf(big)
  BY <1>1 DEF AddressesOf
<1> QED BY <1>1, <1>4, <1>6, <1>7, <1>8, <1>9 DEF Promise!Alloc

(* Free blocks linked to by free blocks are all that the list has.         *)
LEMMA ListInFree ==
  ASSUME NEW p, NEW arena, NEW b, Kept(p, arena, b), NEW x \in Free(p), x \in 1 .. Top,
         NEW list, list = ListOf(b, x)
  PROVE  \A a \in Range(list) : a \in Free(p)
<1>1. Typed(b) /\ b \in Memory /\ \A a \in Free(p) : b[a].next \in Free(p) \cup {0}
  BY DEF Kept, Typed
<1>2. /\ list \in Seq(1 .. Top) /\ (list # << >> => list[1] = x)
      /\ \A i \in 1 .. Len(list) - 1 : b[list[i]].next = list[i + 1]
  <2>1. b \in Memory /\ x \in Addr /\ \A a \in 1 .. Top : b[a].next # WILD
    BY <1>1, ConstantFacts DEF Typed, Addr
  <2> QED BY <2>1, ListOfIs
<1>3. Len(list) \in Nat /\ DOMAIN list = 1 .. Len(list)
  BY <1>2
<1> DEFINE T == {k \in Nat : k + 1 <= Len(list) => list[k + 1] \in Free(p)}
<1>4. 0 \in T
  <2>1. ASSUME 0 + 1 <= Len(list) PROVE list[0 + 1] \in Free(p)
    <3>1. list # << >>
      BY <1>2, <1>3, <2>1
    <3> QED BY <1>2, <3>1
  <2> QED BY <2>1
<1>5. ASSUME NEW k \in Nat, k \in T PROVE k + 1 \in T
  <2>1. ASSUME k + 1 + 1 <= Len(list) PROVE list[k + 1 + 1] \in Free(p)
    <3>1. k + 1 \in 1 .. Len(list) - 1 /\ k + 1 + 1 \in 1 .. Len(list) /\ k + 1 \in 1 .. Len(list)
      BY <1>3, <2>1
    <3>2. list[k + 1] \in Free(p)
      BY <1>3, <1>5, <3>1
    <3>3. b[list[k + 1]].next = list[k + 1 + 1] /\ list[k + 1 + 1] \in 1 .. Top
      BY <1>2, <3>1, ElementOfSeq
    <3>4. list[k + 1 + 1] # 0
      BY <3>3, ConstantFacts
    <3> QED BY <1>1, <3>2, <3>3, <3>4
  <2> QED BY <2>1
<1>6. \A k \in Nat : k \in T
  <2> HIDE DEF T
  <2> QED BY <1>4, <1>5, Induction
<1>7. \A i \in 1 .. Len(list) : list[i] \in Free(p)
  <2> SUFFICES ASSUME NEW i \in 1 .. Len(list) PROVE list[i] \in Free(p)
    OBVIOUS
  <2>1. i - 1 \in Nat /\ i - 1 + 1 = i /\ i <= Len(list)
    BY <1>3
  <2>2. i - 1 \in T
    BY <1>6, <2>1
  <2> QED BY <2>1, <2>2
<1> QED BY <1>3, <1>7 DEF Range

(* A run of addresses one longer than a chunk reaches into a page more.    *)
LEMMA TooManyPages ==
  ASSUME NEW ps \in SUBSET Pages, NEW a \in Nat \ {0}, a - 1 .. a + Chunk - 1 \subseteq AddressesOf(ps)
  PROVE  \E k \in Pages : k .. k + ChunkPages \subseteq ps
<1>0. /\ Page \in Nat \ {0} /\ NPages \in Nat \ {0} /\ ChunkPages \in Nat \ {0} /\ Chunk \in Nat \ {0}
      /\ Chunk = ChunkPages * Page
  BY ConstantFacts DEF Chunk
<1>1. a - 1 \in Nat /\ ps \in SUBSET Nat
  BY <1>0 DEF Pages
<1>2. PICK k \in Nat, r \in 0 .. Page - 1 : k = (a - 1) \div Page /\ a - 1 = k * Page + r
  BY <1>0, <1>1, Division
<1>3. ASSUME NEW j \in 0 .. ChunkPages PROVE k + j \in ps
  <2>1. /\ j \in Nat /\ j * Page \in Nat /\ j * Page <= ChunkPages * Page
        /\ (k + j) * Page = k * Page + j * Page /\ k * Page \in Nat /\ k + j \in Nat
    BY <1>0
  <2> DEFINE y == a - 1 + j * Page
  <2>2. y \in Nat /\ y \in a - 1 .. a + Chunk - 1
    BY <1>0, <1>1, <2>1
  <2>3. y = (k + j) * Page + r
    BY <1>2, <2>1
  <2> HIDE DEF y
  <2>4. y \div Page = k + j
    BY <1>0, <2>1, <2>3, Quotient
  <2>5. y \div Page \in ps
    BY <1>1, <2>2, PageOf
  <2> QED BY <2>4, <2>5
<1>4. k .. k + ChunkPages \subseteq ps
  <2> SUFFICES ASSUME NEW i \in k .. k + ChunkPages PROVE i \in ps
    OBVIOUS
  <2>1. i - k \in 0 .. ChunkPages /\ k + (i - k) = i
    BY <1>0
  <2> QED BY <1>3, <2>1
<1>5. k \in Pages
  <2>1. k \in k .. k + ChunkPages
    BY <1>0
  <2> QED BY <1>4, <2>1
<1> QED BY <1>4, <1>5

(* What kfree gives back are addresses of free blocks: the pages of chunks *)
(* that are free, unless what it takes for a chunk begins inside one.      *)
LEMMA FreeReleases ==
  ASSUME IInv, cause = {}, NEW c \in live, kfree(c)
  PROVE  IF "misfreed" \in cause'
         THEN \E k \in Pages : k .. k + ChunkPages \subseteq heap
         ELSE Promise!Free
<1> DEFINE x == c.at
           arena == AddressesOf(heap)
           p == Freed(blk, free_list, c.at)
           m == Merged(p, c.at)
           b == m.blk
           list == ListOf(m.blk, c.at)
           whole == {a \in Range(list) : m.blk[a].size = Chunk}
           gone == UNION {a \div Page .. a \div Page + ChunkPages - 1 : a \in whole}
<1>1. /\ p = Freed(blk, free_list, c.at) /\ m = Merged(p, c.at) /\ list = ListOf(m.blk, c.at)
      /\ whole = {a \in Range(list) : m.blk[a].size = Chunk}
      /\ x = c.at /\ b = m.blk /\ arena = AddressesOf(heap)
      /\ gone = UNION {a \div Page .. a \div Page + ChunkPages - 1 : a \in whole}
  OBVIOUS
<1> HIDE DEF x, arena, p, m, b, list, whole, gone
<1>2. FreeEffect(c, m, list, whole)
  BY <1>1, FreeDoes
<1>3. /\ live' = live \ {c}
      /\ heap' = heap \/ heap' = heap \ gone
      /\ "misfreed" \in cause' => \E a \in whole : ~blk[a].is_head
      /\ heap' # heap => ((\E a \in whole : ~blk[a].is_head) => "misfreed" \in cause')
  BY <1>1, <1>2 DEF FreeEffect
<1>4. /\ x \in Used(blk) /\ x \in 1 .. Top /\ p \in Memory
      /\ Walk(p, arena, m)
      /\ Free(p) = Free(blk) \cup {x} /\ Used(p) = Used(blk) \ {x}
      /\ \A a \in Addr : p[a].size = blk[a].size /\ p[a].is_head = blk[a].is_head
  BY <1>1, FreeMerges
<1>5. /\ Typed(blk) /\ Tile(blk, arena) /\ Heads(blk, arena)
      /\ InUse(blk, live) /\ arena \in SUBSET (1 .. LastAddr)
      /\ blk \in Memory /\ heap \subseteq Pages
  BY <1>1, Arena DEF IInv, Tidy, Typed, HeapTypeOK
<1>6. /\ Kept(p, arena, b) /\ \A a \in Free(p) : Extent(b, a) \subseteq Area(p)
  BY <1>1, <1>4 DEF Walk, Kept
<1>7. \A a \in Range(list) : a \in Free(p)
  <2>1. x \in Free(p) /\ x \in 1 .. Top /\ list = ListOf(b, x)
    BY <1>1, <1>4
  <2> QED BY <1>6, <2>1, ListInFree
<1>8. \A a \in Addr : Extent(p, a) = Extent(blk, a)
  BY <1>4 DEF Extent
<1>9. Free(p) \subseteq Starts(blk) /\ Free(p) \subseteq Addr /\ Free(p) \cap Used(p) = {}
  BY <1>4 DEF Starts, Free, Used
<1>10. Area(p) \subseteq arena
  <2>1. \A a \in Free(p) : Extent(p, a) \subseteq arena
    BY <1>5, <1>8, <1>9 DEF Tile
  <2> QED BY <2>1 DEF Area
<1>11. /\ Page \in Nat \ {0} /\ ChunkPages \in Nat \ {0} /\ Chunk \in Nat \ {0} /\ LastAddr \in Nat
       /\ heap \in SUBSET Nat
  BY <1>5, ConstantFacts DEF Pages
<1>12. ASSUME NEW a \in whole
       PROVE  a \in Nat \ {0} /\ a \in Starts(blk) /\ a .. a + Chunk - 1 \subseteq Area(p)
  <2>1. a \in Free(p) /\ b[a].size = Chunk
    BY <1>1, <1>7
  <2>2. a \in Starts(blk) /\ a \in 1 .. LastAddr
    BY <1>5, <1>9, <2>1, TileFacts
  <2>3. Extent(b, a) = a .. a + Chunk - 1
    BY <2>1 DEF Extent
  <2> QED BY <1>6, <1>11, <2>1, <2>2, <2>3
<1>13. ASSUME NEW a \in whole, ~blk[a].is_head
       PROVE  \E k \in Pages : k .. k + ChunkPages \subseteq heap
  <2>1. a \in Nat \ {0} /\ a \in Starts(blk) /\ a .. a + Chunk - 1 \subseteq arena
    BY <1>10, <1>12
  <2>2. a - 1 \in arena
    BY <1>5, <1>13, <2>1 DEF Heads
  <2>3. a - 1 .. a + Chunk - 1 \subseteq arena
    <3> SUFFICES ASSUME NEW y \in a - 1 .. a + Chunk - 1 PROVE y \in arena
      OBVIOUS
    <3>1. y = a - 1 \/ y \in a .. a + Chunk - 1
      BY <1>11, <2>1
    <3> QED BY <2>1, <2>2, <3>1
  <2> QED BY <1>1, <1>5, <2>1, <2>3, TooManyPages
<1>14. ASSUME NEW d \in live \ {c}, NEW y \in Promise!Space(d)
       PROVE  y \in arena /\ y \in Nat /\ y \notin Area(p)
  <2>1. d \in live /\ d.at \in Used(blk) /\ y \in Extent(blk, d.at) /\ y \in arena
    BY <1>5, InExtent
  <2>2. d.at # x
    BY <1>1, <1>5 DEF InUse
  <2>3. ASSUME NEW a \in Free(p), y \in Extent(p, a) PROVE FALSE
    <3>1. a \in Starts(blk) /\ d.at \in Starts(blk) /\ a # d.at
      BY <1>4, <1>9, <2>1, <2>2 DEF Starts
    <3>2. Extent(blk, a) \cap Extent(blk, d.at) = {}
      BY <1>5, <3>1, ExtentsApart
    <3>3. y \in Extent(blk, a)
      BY <1>8, <1>9, <2>3
    <3> QED BY <2>1, <3>2, <3>3
  <2>4. y \notin Area(p)
    BY <2>3 DEF Area
  <2>5. y \in Nat
    BY <1>5, <1>11, <2>1
  <2> QED BY <2>1, <2>4, <2>5
<1>15. ASSUME "misfreed" \notin cause', heap' # heap,
              NEW y \in Nat, y \in arena, y \notin Area(p)
       PROVE  y \div Page \in heap'
  <2>1. heap' = heap \ gone /\ \A a \in whole : blk[a].is_head
    BY <1>3, <1>15
  <2>2. y \div Page \in heap /\ y \div Page \in Nat
    BY <1>1, <1>11, <1>15, PageOf
  <2>3. ASSUME NEW a \in whole, y \div Page \in a \div Page .. a \div Page + ChunkPages - 1
        PROVE  FALSE
    <3>1. a \in Nat \ {0} /\ a \in Starts(blk) /\ a .. a + Chunk - 1 \subseteq Area(p)
      BY <1>12
    <3>2. a \in 1 .. Top /\ blk[a].is_head
      BY <1>5, <2>1, <3>1, TileFacts, ConstantFacts
    <3>3. PICK k \in Pages : a = k * Page
      BY <1>5, <3>2 DEF Heads
    <3>4. k \in Nat /\ a \div Page = k
      <4>1. k \in Nat /\ 0 \in 0 .. Page - 1 /\ a = k * Page + 0
        BY <1>11, <3>3, ConstantFacts DEF Pages
      <4> QED BY <1>11, <4>1, Quotient
    <3>5. AddressesOf(k .. k + ChunkPages - 1) = a .. a + Chunk - 1
      BY <3>3, <3>4, RunOfPages
    <3>6. k .. k + ChunkPages - 1 \in SUBSET Nat
      BY <1>11, <3>4
    <3>7. y \div Page \in k .. k + ChunkPages - 1
      BY <2>3, <3>4
    <3>8. y \in AddressesOf(k .. k + ChunkPages - 1)
      BY <1>15, <3>6, <3>7, PageOf
    <3> QED BY <1>15, <3>1, <3>5, <3>8
  <2>4. y \div Page \notin gone
    BY <1>1, <2>3
  <2> QED BY <2>1, <2>2, <2>4
<1>16. ASSUME "misfreed" \notin cause' PROVE Promise!Free
  <2>1. heap' \subseteq heap /\ heap' \in SUBSET Nat
    BY <1>3, <1>11
  <2>2. AddressesOf(heap)' = AddressesOf(heap')
    BY DEF AddressesOf
  <2>3. AddressesOf(heap') \subseteq arena
    BY <1>1, <2>1 DEF AddressesOf
  <2>4. ASSUME NEW d \in live' PROVE Promise!Space(d) \subseteq AddressesOf(heap')
    <3> SUFFICES ASSUME NEW y \in Promise!Space(d) PROVE y \in AddressesOf(heap')
      OBVIOUS
    <3>1. y \in arena /\ y \in Nat /\ y \notin Area(p)
      BY <1>3, <1>14, <2>4
    <3>2. CASE heap' = heap
      BY <1>1, <3>1, <3>2
    <3>3. CASE heap' # heap
      <4>1. y \div Page \in heap'
        BY <1>15, <1>16, <3>1, <3>3
      <4> QED BY <2>1, <3>1, <4>1, PageOf
    <3> QED BY <3>2, <3>3
  <2>5. c \in live /\ live' = live \ {c}
    BY <1>3
  <2> QED BY <1>1, <2>2, <2>3, <2>4, <2>5 DEF Promise!Free
<1> QED BY <1>3, <1>13, <1>16

(* Every call is one of the allocator's, but for the one exception.        *)
LEMMA NextPromise ==
  IInv /\ [Next]_vars =>
    [IF "misfreed" \in cause'
     THEN \E p \in Pages : p .. p + ChunkPages \subseteq heap
     ELSE Promise!Alloc \/ Promise!Free]_<<heap, live>>
<1> DEFINE Kind == IF "misfreed" \in cause'
                   THEN \E p \in Pages : p .. p + ChunkPages \subseteq heap
                   ELSE Promise!Alloc \/ Promise!Free
<1> SUFFICES ASSUME IInv, [Next]_vars PROVE Kind \/ UNCHANGED <<heap, live>>
  OBVIOUS
<1>1. CASE UNCHANGED vars
  BY <1>1 DEF vars
<1>2. CASE Next
  <2>1. cause = {}
    BY <1>2 DEF Next
  <2>2. CASE \E size \in Sizes : kmalloc_fit(size)
    BY <2>1, <2>2, FitAllocates
  <2>3. CASE \E size \in Sizes : kmalloc_grow(size)
    BY <2>1, <2>3, GrowAllocates
  <2>4. CASE \E b \in live : kfree(b)
    BY <2>1, <2>4, FreeReleases
  <2>5. CASE alloc_page
    BY <2>5 DEF alloc_page
  <2>6. CASE \E p \in Pages : free_page(p)
    BY <2>6 DEF free_page
  <2> HIDE DEF Kind
  <2> QED BY <1>2, <2>2, <2>3, <2>4, <2>5, <2>6 DEF Next
<1> QED BY <1>1, <1>2

(* The heap's calls are those of the allocator it promises to be: a block  *)
(* handed out is in the heap's pages and apart from all others, and pages  *)
(* are given back only when no block in use is in them.  This holds of the *)
(* calls that end a history, too, save for the one in which kfree takes a  *)
(* block that begins inside a chunk for a chunk; then a chunk's pages and  *)
(* one more lie together in the heap.                                      *)
THEOREM PromiseKept == Spec => KeepsPromise
<1>1. IInv /\ [Next]_vars =>
        [IF "misfreed" \in cause'
         THEN \E p \in Pages : p .. p + ChunkPages \subseteq heap
         ELSE Promise!Alloc \/ Promise!Free]_<<heap, live>>
  BY NextPromise
<1> QED BY InitIInv, NextIInv, <1>1, PTL DEF Spec, KeepsPromise

-----------------------------------------------------------------------------
(* Where kfree's walk ends.  The free list is q; the block behind the freed *)
(* block x is its i-th, or in use and i is 0.                              *)

(* Memory once x is merged with what is behind it: the walk goes on along  *)
(* the list behind i, and merges no more but a block in front of x.        *)
Entry(q, k) == IF k = Len(q) + 1 THEN 0 ELSE q[k]
Ahead(q, i, x, X) ==
  /\ X \in Memory /\ q \in Seq(1 .. Top) /\ Len(q) \in Nat /\ i \in 0 .. Len(q)
  /\ x \in 1 .. Top /\ x + X[x].size \in Addr /\ X[x + X[x].size].used # "FREE"
  /\ X[x].used = "FREE" /\ X[x].next = Entry(q, i + 1)
  /\ \A k \in i + 1 .. Len(q) :
       /\ q[k] \in Addr \ {0, x} /\ X[q[k]].used = "FREE" /\ X[q[k]].next = Entry(q, k + 1)
       /\ q[k] + X[q[k]].size \in Addr
       /\ X[q[k] + X[q[k]].size].used = "FREE" => q[k] + X[q[k]].size = x

LEMMA AheadIs ==
  ASSUME IInv, cause = {}, NEW c \in live, NEW x, x = c.at,
         NEW q, Listed(blk, free_list, q), NEW i, i = RightAt(c),
         NEW p, p = Freed(blk, free_list, x), NEW X, X = Once(p, x)
  PROVE  /\ Ahead(q, i, x, X)
         /\ Typed(X) /\ Tile(X, AddressesOf(heap)) /\ x \in Free(X)
         /\ Free(X) = {x} \cup (Free(blk) \ (IF i = 0 THEN {} ELSE {q[i]}))
         /\ \A a \in Free(X) : a # x => X[a].size = blk[a].size
         /\ IF i = 0 THEN X = p
            ELSE p[x + p[x].size].used = "FREE" /\ X = join(p, x, x + p[x].size)
         /\ LeftStays(c) <=> \E k \in i + 1 .. Len(q) : q[k] + X[q[k]].size = x
         /\ Strays(c) <=> X[x + X[x].size].is_head /\ (i # 0 \/ LeftStays(c))
<1> DEFINE arena == AddressesOf(heap)
           r == x + p[x].size
<1>1. /\ Typed(blk) /\ Tile(blk, arena) /\ Blank(blk, arena) /\ NoPairs(blk) /\ InUse(blk, live)
      /\ arena \in SUBSET (1 .. LastAddr) /\ blk \in Memory
  BY Arena DEF IInv, Tidy, Typed
<1>2. x \in Used(blk)
  BY <1>1 DEF InUse
<1> HIDE DEF arena
<1>3. /\ ListOf(blk, free_list) = q /\ Len(q) \in Nat /\ q \in Seq(1 .. Top)
      /\ \A j, k \in 1 .. Len(q) : q[j] = q[k] => j = k
      /\ \A j \in 1 .. Len(q) : q[j] \in Free(blk)
      /\ \A a \in Free(blk) : \E j \in 1 .. Len(q) : q[j] = a
  BY <1>1, ListFacts
<1>4. /\ Kept(p, arena, p) /\ p \in Memory
      /\ Free(p) = Free(blk) \cup {x}
      /\ x \in 1 .. Top /\ x \in Addr /\ x \notin Free(blk)
      /\ \A a \in Addr : /\ p[a].used = IF a = x THEN "FREE" ELSE blk[a].used
                         /\ p[a].size = blk[a].size /\ p[a].is_head = blk[a].is_head
  BY <1>1, <1>2, FreedFacts
<1>5. /\ Typed(p) /\ Tile(p, arena) /\ x \in Starts(p) /\ x \in Free(p)
  BY <1>4 DEF Kept, Starts
<1>6. p[x].size \in Nat \ {0} /\ r \in Addr /\ x \in Nat /\ r # x /\ r = x + blk[x].size
  <2>1. p[x].size \in Nat \ {0} /\ x + p[x].size \in Addr /\ x \in 1 .. LastAddr
    BY <1>1, <1>4, <1>5, TileFacts
  <2> QED BY <1>4, <2>1, ConstantFacts
<1>7. /\ OnlyPair(X, x)
      /\ \E j \in 0 .. Len(q) :
              /\ Free(X) = {x} \cup (Free(blk) \ (IF j = 0 THEN {} ELSE {q[j]}))
              /\ X[x].next = IF j = Len(q) THEN 0 ELSE q[j + 1]
              /\ \A k \in 1 .. Len(q) : k # j => X[q[k]].next = IF k = Len(q) THEN 0 ELSE q[k + 1]
  BY <1>1, <1>2, OnceFacts
<1>8. PICK j \in 0 .. Len(q) :
              /\ Free(X) = {x} \cup (Free(blk) \ (IF j = 0 THEN {} ELSE {q[j]}))
              /\ X[x].next = IF j = Len(q) THEN 0 ELSE q[j + 1]
              /\ \A k \in 1 .. Len(q) : k # j => X[q[k]].next = IF k = Len(q) THEN 0 ELSE q[k + 1]
  BY <1>7
<1>9. RightAt(c) = IF \E k \in 1 .. Len(q) : q[k] = r THEN CHOOSE k \in 1 .. Len(q) : q[k] = r ELSE 0
  <2>1. ListOf(blk, free_list) = q /\ c.at + blk[c.at].size = r
    BY <1>3, <1>6
  <2> HIDE DEF r
  <2> QED BY <2>1, Zenon DEF RightAt
<1> HIDE DEF r
(* What x is merged with.                                                  *)
<1>10. /\ i = j /\ (i # 0 => q[i] = r /\ r \in Free(blk))
       /\ Typed(X) /\ Tile(X, arena) /\ x \in Free(X) /\ X \in Memory
       /\ \A a \in Addr : X[a].is_head = p[a].is_head /\ (a # x => X[a].size = p[a].size)
       /\ X[x].size = IF i = 0 THEN p[x].size ELSE p[x].size + p[r].size
       /\ IF i = 0 THEN X = p ELSE p[r].used = "FREE" /\ X = join(p, x, r)
  <2>1. CASE p[r].used # "FREE"
    <3>1. X = p
      BY <2>1 DEF Once, r
    <3>2. r \notin Free(blk)
      BY <1>4, <1>6, <2>1 DEF Free
    <3>3. i = 0
      BY <1>3, <1>9, <3>2
    <3>4. j = 0
      <4> SUFFICES ASSUME j # 0 PROVE FALSE
        OBVIOUS
      <4>1. j \in 1 .. Len(q)
        BY <1>3
      <4>2. q[j] \in Free(blk) /\ q[j] # x
        BY <1>3, <1>4, <4>1
      <4>3. q[j] \in Free(X)
        BY <1>4, <3>1, <4>2
      <4>4. Free(X) = {x} \cup (Free(blk) \ {q[j]})
        BY <1>8
      <4> QED BY <4>2, <4>3, <4>4
    <3> QED BY <1>4, <1>5, <3>1, <3>3, <3>4
  <2>2. CASE p[r].used = "FREE"
    <3>1. X = join(p, x, r) /\ r = x + p[x].size
      BY <2>2 DEF Once, r
    <3>2. /\ Typed(X) /\ Tile(X, arena) /\ r \in Free(p) /\ Free(X) = Free(p) \ {r}
          /\ \A a \in Addr : /\ X[a].size = IF a = x THEN p[x].size + p[r].size ELSE p[a].size
                             /\ X[a].is_head = p[a].is_head
      BY <1>1, <1>5, <2>2, <3>1, JoinTile
    <3>3. r \in Free(blk)
      BY <1>4, <1>6, <3>2
    <3>4. \E k \in 1 .. Len(q) : q[k] = r
      BY <1>3, <3>3
    <3>5. i \in 1 .. Len(q) /\ q[i] = r
      BY <1>9, <3>4
    <3>6. r \notin Free(X)
      BY <3>2
    <3>7. j # 0 /\ q[j] = r
      BY <1>8, <3>3, <3>6
    <3>8. j \in 1 .. Len(q)
      BY <1>3, <3>7
    <3>9. i = j /\ i # 0
      BY <1>3, <3>5, <3>7, <3>8
    <3>10. x \in Free(X) /\ X \in Memory
      BY <1>8, <3>2 DEF Typed
    <3> QED BY <1>4, <2>2, <3>1, <3>2, <3>3, <3>5, <3>9, <3>10
  <2> QED BY <2>1, <2>2
<1>11. i \in 0 .. Len(q) /\ Free(X) = {x} \cup (Free(blk) \ (IF i = 0 THEN {} ELSE {q[i]}))
  BY <1>8, <1>10
<1>12. \A a \in Free(X) : a \in Addr /\ a # 0 /\ X[a].used = "FREE" /\ a + X[a].size \in Addr /\ X[a].size \in Nat \ {0}
  <2> TAKE a \in Free(X)
  <2>1. a \in Starts(X) /\ a \in Addr /\ X[a].used = "FREE"
    BY DEF Starts, Free
  <2> QED BY <1>1, <1>10, <2>1, TileFacts
<1>13. \A a \in Free(X) : a # x => X[a].size = blk[a].size
  BY <1>4, <1>10, <1>12
<1>14. \A k \in i + 1 .. Len(q) : k \in 1 .. Len(q) /\ k # i /\ q[k] \in Free(X) /\ q[k] # x
  <2> TAKE k \in i + 1 .. Len(q)
  <2>1. k \in 1 .. Len(q) /\ k # i
    BY <1>3, <1>11
  <2>2. q[k] \in Free(blk)
    BY <1>3, <2>1
  <2>3. q[k] # x
    BY <1>4, <2>2
  <2>4. i # 0 => i \in 1 .. Len(q) /\ q[k] # q[i]
    BY <1>3, <1>11, <2>1
  <2> QED BY <1>11, <2>1, <2>2, <2>3, <2>4
<1>15. X[x + X[x].size].used # "FREE"
  <2>1. x + X[x].size \in Addr /\ x + X[x].size # x
    BY <1>6, <1>10, <1>12
  <2>2. x + X[x].size \notin Free(X)
    BY <1>7, <1>10, <2>1 DEF OnlyPair
  <2> QED BY <2>1, <2>2 DEF Free
<1>16. Ahead(q, i, x, X)
  <2>1. X[x].next = Entry(q, i + 1)
    BY <1>3, <1>8, <1>10, <1>11 DEF Entry
  <2>2. ASSUME NEW k \in i + 1 .. Len(q)
        PROVE  /\ q[k] \in Addr \ {0, x} /\ X[q[k]].used = "FREE" /\ X[q[k]].next = Entry(q, k + 1)
               /\ q[k] + X[q[k]].size \in Addr
               /\ X[q[k] + X[q[k]].size].used = "FREE" => q[k] + X[q[k]].size = x
    <3>1. k \in 1 .. Len(q) /\ k # j /\ q[k] \in Free(X) /\ q[k] # x
      BY <1>10, <1>14
    <3>2. X[q[k]].next = Entry(q, k + 1)
      BY <1>3, <1>8, <3>1 DEF Entry
    <3>3. X[q[k] + X[q[k]].size].used = "FREE" => q[k] + X[q[k]].size \in Free(X)
      BY <1>12, <3>1 DEF Free
    <3>4. q[k] + X[q[k]].size \in Free(X) => q[k] + X[q[k]].size = x
      BY <1>7, <3>1 DEF OnlyPair
    <3> QED BY <1>12, <3>1, <3>2, <3>3, <3>4
  <2>3. X[x].used = "FREE" /\ x + X[x].size \in Addr
    BY <1>10, <1>12
  <2> QED BY <1>3, <1>4, <1>10, <1>11, <1>15, <2>1, <2>2, <2>3 DEF Ahead
(* The same in terms of the free list before the call.                     *)
<1>17. LeftStays(c) <=> \E k \in i + 1 .. Len(q) : q[k] + X[q[k]].size = x
  <2>1. LeftStays(c) <=> \E k \in i + 1 .. Len(q) : q[k] + blk[q[k]].size = x
    BY <1>3 DEF LeftStays
  <2>2. \A k \in i + 1 .. Len(q) : X[q[k]].size = blk[q[k]].size
    BY <1>13, <1>14
  <2> QED BY <2>1, <2>2
<1>18. Strays(c) <=> X[x + X[x].size].is_head /\ (i # 0 \/ LeftStays(c))
  <2> DEFINE end == IF i > 0 THEN r + blk[r].size ELSE r
  <2>1. Strays(c) <=> blk[end].is_head /\ (i > 0 \/ LeftStays(c))
    BY <1>6 DEF Strays
  <2>2. i > 0 <=> i # 0
    BY <1>3, <1>11
  <2>3. end = x + X[x].size
    <3>1. CASE i = 0
      BY <1>10, <2>2, <3>1 DEF r
    <3>2. CASE i # 0
      <4>1. r \in Free(blk) /\ X[x].size = p[x].size + p[r].size
        BY <1>10, <3>2
      <4>2. r \in Starts(blk) /\ r \in Addr
        BY <4>1 DEF Free, Starts
      <4>3. p[r].size = blk[r].size
        BY <1>4, <4>2
      <4>4. blk[r].size \in Nat
        BY <1>1, <4>2, TileFacts
      <4>5. x + (p[x].size + p[r].size) = (x + p[x].size) + p[r].size
        BY <1>6, <4>3, <4>4
      <4> QED BY <2>2, <3>2, <4>1, <4>3, <4>5 DEF r
    <3> QED BY <3>1, <3>2
  <2> HIDE DEF end
  <2>4. blk[end].is_head = X[x + X[x].size].is_head
    <3>1. end \in Addr
      BY <1>10, <1>12, <2>3
    <3> QED BY <1>4, <1>10, <2>3, <3>1
  <2> QED BY <2>1, <2>2, <2>4
<1> QED BY <1>10, <1>11, <1>13, <1>16, <1>17, <1>18 DEF arena, r

(* The walk's steps from there.                                            *)
At(b, a, w) == [blk |-> b, cur |-> a, at |-> w]

LEMMA AtIs ==
  ASSUME NEW b \in Memory, NEW a \in Addr, NEW w \in {"block", "nb", "skip", "done"}
  PROVE  At(b, a, w) \in States /\ At(b, a, w).blk = b /\ At(b, a, w).cur = a /\ At(b, a, w).at = w
BY DEF At, States

LEMMA AtNext ==
  ASSUME NEW b, NEW a, NEW c
  PROVE  [At(b, a, "nb") EXCEPT !.cur = c, !.at = "skip"] = At(b, c, "skip")
<1>1. [At(b, a, "nb") EXCEPT !.cur = c] = At(b, c, "nb")
  BY DEF At
<1>2. [At(b, c, "nb") EXCEPT !.at = "skip"] = At(b, c, "skip")
  BY DEF At
<1> QED BY <1>1, <1>2

(* Until x is merged with the block behind it.                             *)
LEMMA Begins ==
  ASSUME NEW q, NEW i, NEW x, NEW X, Ahead(q, i, x, X), NEW p \in Memory,
         IF i = 0 THEN X = p
         ELSE /\ p[x + p[x].size].used = "FREE" /\ X = join(p, x, x + p[x].size)
              /\ ~X[x + X[x].size].is_head
  PROVE  /\ merge_step(At(p, x, "block")) = At(p, x, "nb")
         /\ i # 0 => merge_step(At(p, x, "nb")) = At(X, x, "nb")
         /\ merge_step(At(X, x, "nb")) = At(X, Entry(q, i + 1), "skip")
<1>1. /\ X \in Memory /\ x \in Addr /\ x # 0
      /\ X[x + X[x].size].used # "FREE" /\ X[x].next = Entry(q, i + 1)
  BY ConstantFacts DEF Ahead, Addr
<1>2. merge_step(At(p, x, "block")) = At(p, x, "nb")
  <2> DEFINE s == At(p, x, "block")
  <2>1. s \in States /\ s.cur = x /\ s.at = "block"
    BY <1>1, AtIs
  <2>2. [s EXCEPT !.at = "nb"] = At(p, x, "nb")
    BY DEF At
  <2> HIDE DEF s
  <2>3. merge_step(s) = [s EXCEPT !.at = "nb"]
    BY <1>1, <2>1, StepIs
  <2> QED BY <2>2, <2>3 DEF s
<1>3. ASSUME i # 0 PROVE merge_step(At(p, x, "nb")) = At(X, x, "nb")
  <2> DEFINE s == At(p, x, "nb")
  <2>1. s \in States /\ s.blk = p /\ s.cur = x /\ s.at = "nb"
    BY <1>1, AtIs
  <2> HIDE DEF s
  <2>2. Right(s) = x + p[x].size
    BY <2>1 DEF Right
  <2>3. p[Right(s)].used = "FREE" /\ X = join(p, x, Right(s)) /\ ~X[x + X[x].size].is_head
    BY <1>3, <2>2
  <2>4. merge_step(s) = IF X[x + X[x].size].is_head THEN [blk |-> X, cur |-> x + X[x].size, at |-> "block"]
                        ELSE [blk |-> X, cur |-> x, at |-> "nb"]
    BY <2>1, <2>3, StepIs
  <2> QED BY <2>3, <2>4 DEF At, s
<1>4. merge_step(At(X, x, "nb")) = At(X, Entry(q, i + 1), "skip")
  <2> DEFINE s == At(X, x, "nb")
  <2>1. s \in States /\ s.blk = X /\ s.cur = x /\ s.at = "nb"
    BY <1>1, AtIs
  <2>2. [s EXCEPT !.cur = Entry(q, i + 1), !.at = "skip"] = At(X, Entry(q, i + 1), "skip")
    BY AtNext
  <2> HIDE DEF s
  <2>3. s.blk[Right(s)].used # "FREE" /\ s.blk[s.cur].next = Entry(q, i + 1)
    BY <1>1, <2>1 DEF Right
  <2>4. merge_step(s) = [s EXCEPT !.cur = Entry(q, i + 1), !.at = "skip"]
    BY <2>1, <2>3, StepIs
  <2> QED BY <2>2, <2>4 DEF s
<1> QED BY <1>2, <1>3, <1>4

(* At a free block, nothing is skipped and the walk goes on.               *)
LEMMA AtBlock ==
  ASSUME NEW b \in Memory, NEW a \in Addr \ {0}, b[a].used = "FREE", b[a].next \in Addr
  PROVE  /\ merge_step(At(b, a, "skip")) = At(b, a, "block")
         /\ merge_step(At(b, a, "block")) = At(b, a, "nb")
         /\ b[a + b[a].size].used # "FREE" => merge_step(At(b, a, "nb")) = At(b, b[a].next, "skip")
<1>1. merge_step(At(b, a, "skip")) = At(b, a, "block")
  <2> DEFINE s == At(b, a, "skip")
  <2>1. s \in States /\ s.blk = b /\ s.cur = a /\ s.at = "skip"
    BY AtIs
  <2>2. [s EXCEPT !.at = "block"] = At(b, a, "block")
    BY DEF At
  <2> HIDE DEF s
  <2>3. merge_step(s) = [s EXCEPT !.at = "block"]
    BY <2>1, StepIs
  <2> QED BY <2>2, <2>3 DEF s
<1>2. merge_step(At(b, a, "block")) = At(b, a, "nb")
  <2> DEFINE s == At(b, a, "block")
  <2>1. s \in States /\ s.cur = a /\ s.at = "block"
    BY AtIs
  <2>2. [s EXCEPT !.at = "nb"] = At(b, a, "nb")
    BY DEF At
  <2> HIDE DEF s
  <2>3. merge_step(s) = [s EXCEPT !.at = "nb"]
    BY <2>1, StepIs
  <2> QED BY <2>2, <2>3 DEF s
<1>3. ASSUME b[a + b[a].size].used # "FREE"
      PROVE  merge_step(At(b, a, "nb")) = At(b, b[a].next, "skip")
  <2> DEFINE s == At(b, a, "nb")
  <2>1. s \in States /\ s.blk = b /\ s.cur = a /\ s.at = "nb"
    BY AtIs
  <2>2. [s EXCEPT !.cur = b[a].next, !.at = "skip"] = At(b, b[a].next, "skip")
    BY AtNext
  <2> HIDE DEF s
  <2>3. s.blk[Right(s)].used # "FREE" /\ s.blk[s.cur].next = b[a].next
    BY <1>3, <2>1 DEF Right
  <2>4. merge_step(s) = [s EXCEPT !.cur = b[a].next, !.at = "skip"]
    BY <2>1, <2>3, StepIs
  <2> QED BY <2>2, <2>4 DEF s
<1> QED BY <1>1, <1>2, <1>3

(* At the end of the list it is over.                                      *)
LEMMA AtEnd ==
  ASSUME NEW b \in Memory
  PROVE  /\ merge_step(At(b, 0, "skip")) = At(b, 0, "block")
         /\ merge_step(At(b, 0, "block")) = At(b, 0, "done")
         /\ merge_step(At(b, 0, "done")) = At(b, 0, "done")
<1>0. 0 \in Addr
  BY ConstantFacts DEF Addr
<1>1. merge_step(At(b, 0, "skip")) = At(b, 0, "block")
  <2> DEFINE s == At(b, 0, "skip")
  <2>1. s \in States /\ s.blk = b /\ s.cur = 0 /\ s.at = "skip"
    BY <1>0, AtIs
  <2>2. [s EXCEPT !.at = "block"] = At(b, 0, "block")
    BY DEF At
  <2> HIDE DEF s
  <2>3. merge_step(s) = [s EXCEPT !.at = "block"]
    BY <2>1, StepIs
  <2> QED BY <2>2, <2>3 DEF s
<1>2. merge_step(At(b, 0, "block")) = At(b, 0, "done")
  <2> DEFINE s == At(b, 0, "block")
  <2>1. s \in States /\ s.cur = 0 /\ s.at = "block"
    BY <1>0, AtIs
  <2>2. [s EXCEPT !.at = "done"] = At(b, 0, "done")
    BY DEF At
  <2> HIDE DEF s
  <2>3. merge_step(s) = [s EXCEPT !.at = "done"]
    BY <2>1, StepIs
  <2> QED BY <2>2, <2>3 DEF s
<1>3. merge_step(At(b, 0, "done")) = At(b, 0, "done")
  <2>1. At(b, 0, "done") \in States /\ At(b, 0, "done").at = "done"
    BY <1>0, AtIs
  <2> QED BY <2>1, StepIs
<1> QED BY <1>1, <1>2, <1>3

(* With no block in front of x behind it on the list, each step leaves     *)
(* fewer to take: n is how many at most.                                   *)
Togo(q, i, x, p, X, s, n) ==
  \/ s = At(p, x, "block") /\ n >= 3 * Len(q) + 5
  \/ s = At(p, x, "nb") /\ n >= 3 * Len(q) + 4
  \/ s = At(X, x, "nb") /\ n >= 3 * Len(q) + 3
  \/ \E k \in i + 1 .. Len(q) + 1 :
       \/ s = At(X, Entry(q, k), "skip") /\ n >= 3 * (Len(q) - k) + 5
       \/ s = At(X, Entry(q, k), "block") /\ n >= 3 * (Len(q) - k) + 4
       \/ k # Len(q) + 1 /\ s = At(X, Entry(q, k), "nb") /\ n >= 3 * (Len(q) - k) + 3
  \/ s = At(X, 0, "done")

LEMMA OneLess ==
  ASSUME NEW q, NEW i, NEW x, NEW X, Ahead(q, i, x, X), NEW p \in Memory,
         IF i = 0 THEN X = p
         ELSE /\ p[x + p[x].size].used = "FREE" /\ X = join(p, x, x + p[x].size)
              /\ ~X[x + X[x].size].is_head,
         \A k \in i + 1 .. Len(q) : q[k] + X[q[k]].size # x,
         NEW s, NEW n \in Int, Togo(q, i, x, p, X, s, n)
  PROVE  Togo(q, i, x, p, X, merge_step(s), n - 1)
<1> DEFINE L == Len(q)
           t == merge_step(s)
<1>1. L \in Nat /\ i \in 0 .. L /\ X \in Memory
  BY DEF Ahead
<1>2. /\ merge_step(At(p, x, "block")) = At(p, x, "nb")
      /\ i # 0 => merge_step(At(p, x, "nb")) = At(X, x, "nb")
      /\ merge_step(At(X, x, "nb")) = At(X, Entry(q, i + 1), "skip")
  BY Begins
<1>3. i + 1 \in i + 1 .. L + 1 /\ n - 1 \in Int
  BY <1>1
<1>4. ASSUME NEW k \in i + 1 .. L, k # L + 1
      PROVE  /\ Entry(q, k) = q[k] /\ q[k] \in Addr \ {0} /\ X[q[k]].used = "FREE"
             /\ X[q[k]].next = Entry(q, k + 1) /\ X[q[k]].next \in Addr
             /\ X[q[k] + X[q[k]].size].used # "FREE"
  <2>1. /\ q[k] \in Addr \ {0, x} /\ X[q[k]].used = "FREE" /\ X[q[k]].next = Entry(q, k + 1)
        /\ X[q[k] + X[q[k]].size].used # "FREE"
    BY DEF Ahead
  <2>2. Entry(q, k) = q[k]
    BY <1>4 DEF Entry
  <2>3. Entry(q, k + 1) \in Addr
    <3>1. CASE k = L
      BY <1>1, <3>1, ConstantFacts DEF Entry, Addr
    <3>2. CASE k # L
      <4>1. k + 1 \in i + 1 .. L /\ k + 1 # L + 1
        BY <1>1, <3>2
      <4>2. q[k + 1] \in Addr
        BY <4>1 DEF Ahead
      <4> QED BY <4>1, <4>2 DEF Entry
    <3> QED BY <3>1, <3>2
  <2> QED BY <2>1, <2>2, <2>3
<1>5. Entry(q, L + 1) = 0
  BY DEF Entry
<1> HIDE DEF L, t
<1>6. CASE s = At(p, x, "block") /\ n >= 3 * Len(q) + 5
  <2>1. t = At(p, x, "nb")
    BY <1>2, <1>6 DEF t
  <2>2. n - 1 >= 3 * Len(q) + 4
    BY <1>1, <1>6 DEF L
  <2> QED BY <2>1, <2>2 DEF Togo, t
<1>7. CASE s = At(p, x, "nb") /\ n >= 3 * Len(q) + 4
  <2>1. CASE i # 0
    <3>1. t = At(X, x, "nb")
      BY <1>2, <1>7, <2>1 DEF t
    <3>2. n - 1 >= 3 * Len(q) + 3
      BY <1>1, <1>7 DEF L
    <3> QED BY <3>1, <3>2 DEF Togo, t
  <2>2. CASE i = 0
    <3>1. t = At(X, Entry(q, i + 1), "skip")
      BY <1>2, <1>7, <2>2 DEF t
    <3>2. n - 1 >= 3 * (Len(q) - (i + 1)) + 5
      BY <1>1, <1>7, <2>2 DEF L
    <3> QED BY <1>3, <3>1, <3>2 DEF Togo, t, L
  <2> QED BY <2>1, <2>2
<1>8. CASE s = At(X, x, "nb") /\ n >= 3 * Len(q) + 3
  <2>1. t = At(X, Entry(q, i + 1), "skip")
    BY <1>2, <1>8 DEF t
  <2>2. n - 1 >= 3 * (Len(q) - (i + 1)) + 5
    BY <1>1, <1>8 DEF L
  <2> QED BY <1>3, <2>1, <2>2 DEF Togo, t, L
<1>9. ASSUME NEW k \in i + 1 .. Len(q) + 1, s = At(X, Entry(q, k), "skip"), n >= 3 * (Len(q) - k) + 5
      PROVE  Togo(q, i, x, p, X, t, n - 1)
  <2>1. t = At(X, Entry(q, k), "block")
    <3>1. CASE k = L + 1
      BY <1>1, <1>5, <1>9, <3>1, AtEnd DEF t
    <3>2. CASE k # L + 1
      <4>1. k \in i + 1 .. L
        BY <1>1, <3>2 DEF L
      <4>2. merge_step(At(X, Entry(q, k), "skip")) = At(X, Entry(q, k), "block")
        BY <1>1, <1>4, <3>2, <4>1, AtBlock
      <4> QED BY <1>9, <4>2 DEF t
    <3> QED BY <3>1, <3>2
  <2>2. n - 1 >= 3 * (Len(q) - k) + 4
    BY <1>1, <1>9 DEF L
  <2> QED BY <2>1, <2>2 DEF Togo
<1>10. ASSUME NEW k \in i + 1 .. Len(q) + 1, s = At(X, Entry(q, k), "block"), n >= 3 * (Len(q) - k) + 4
       PROVE  Togo(q, i, x, p, X, t, n - 1)
  <2>1. CASE k = L + 1
    <3>1. t = At(X, 0, "done")
      BY <1>1, <1>5, <1>10, <2>1, AtEnd DEF t
    <3> QED BY <3>1 DEF Togo
  <2>2. CASE k # L + 1
    <3>1. k \in i + 1 .. L
      BY <1>1, <2>2 DEF L
    <3>2. merge_step(At(X, Entry(q, k), "block")) = At(X, Entry(q, k), "nb")
      BY <1>1, <1>4, <2>2, <3>1, AtBlock
    <3>3. t = At(X, Entry(q, k), "nb")
      BY <1>10, <3>2 DEF t
    <3>4. n - 1 >= 3 * (Len(q) - k) + 3 /\ k # Len(q) + 1
      BY <1>1, <1>10, <2>2 DEF L
    <3> QED BY <3>3, <3>4 DEF Togo
  <2> QED BY <2>1, <2>2
<1>11. ASSUME NEW k \in i + 1 .. Len(q) + 1, k # Len(q) + 1,
              s = At(X, Entry(q, k), "nb"), n >= 3 * (Len(q) - k) + 3
       PROVE  Togo(q, i, x, p, X, t, n - 1)
  <2>1. k \in i + 1 .. L /\ k # L + 1
    BY <1>1, <1>11 DEF L
  <2>2. merge_step(At(X, q[k], "nb")) = At(X, X[q[k]].next, "skip")
    BY <1>1, <1>4, <2>1, AtBlock
  <2>3. t = At(X, Entry(q, k + 1), "skip")
    BY <1>4, <1>11, <2>1, <2>2 DEF t
  <2>4. k + 1 \in i + 1 .. Len(q) + 1 /\ n - 1 >= 3 * (Len(q) - (k + 1)) + 5
    BY <1>1, <1>11, <2>1 DEF L
  <2> QED BY <2>3, <2>4 DEF Togo
<1>12. CASE s = At(X, 0, "done")
  BY <1>1, <1>12, AtEnd DEF Togo
<1> QED BY <1>6, <1>7, <1>8, <1>9, <1>10, <1>11, <1>12 DEF Togo, t

(* With one, the j-th, the walk never leaves the blocks from i to j: the   *)
(* j-th goes on where x did.                                               *)
Round(q, i, j, x, p, X, s) ==
  \/ s \in {At(p, x, "block"), At(p, x, "nb"), At(X, x, "nb")}
  \/ \E k \in i + 1 .. j, w \in {"skip", "block", "nb"} :
       s \in {At(X, q[k], w), At(join(X, q[j], x), q[k], w)}

LEMMA StaysRound ==
  ASSUME NEW q, NEW i, NEW x, NEW X, Ahead(q, i, x, X), NEW p \in Memory,
         IF i = 0 THEN X = p
         ELSE /\ p[x + p[x].size].used = "FREE" /\ X = join(p, x, x + p[x].size)
              /\ ~X[x + X[x].size].is_head,
         ~X[x + X[x].size].is_head,
         NEW arena \in SUBSET (1 .. LastAddr), Typed(X), Tile(X, arena),
         NEW j \in i + 1 .. Len(q), q[j] + X[q[j]].size = x,
         \A k, l \in 1 .. Len(q) : q[k] = q[l] => k = l,
         NEW s, Round(q, i, j, x, p, X, s)
  PROVE  Round(q, i, j, x, p, X, merge_step(s))
<1> DEFINE L == Len(q)
           t == merge_step(s)
           J == join(X, q[j], x)
           next(k) == IF k = j THEN i + 1 ELSE k + 1
<1>1. L \in Nat /\ i \in 0 .. L /\ X \in Memory /\ q \in Seq(1 .. Top)
  BY DEF Ahead
<1>2. /\ merge_step(At(p, x, "block")) = At(p, x, "nb")
      /\ i # 0 => merge_step(At(p, x, "nb")) = At(X, x, "nb")
      /\ merge_step(At(X, x, "nb")) = At(X, Entry(q, i + 1), "skip")
  BY Begins
<1>3. \A k \in i + 1 .. j : /\ k \in i + 1 .. L /\ k \in 1 .. L /\ next(k) \in i + 1 .. j
                            /\ k # j => k + 1 \in i + 1 .. j /\ k # L /\ k + 1 # L + 1
  BY <1>1
<1>4. i + 1 \in i + 1 .. j /\ i + 1 # L + 1 /\ j \in i + 1 .. j
  BY <1>1
<1>5. \A k \in i + 1 .. j :
        /\ q[k] \in Addr \ {0, x} /\ q[k] \in Free(X) /\ X[q[k]].used = "FREE"
        /\ k # j => X[q[k]].next = q[k + 1]
        /\ q[k] + X[q[k]].size \in Addr
        /\ X[q[k] + X[q[k]].size].used = "FREE" => q[k] + X[q[k]].size = x
  <2> TAKE k \in i + 1 .. j
  <2>1. /\ q[k] \in Addr \ {0, x} /\ X[q[k]].used = "FREE" /\ X[q[k]].next = Entry(q, k + 1)
        /\ q[k] + X[q[k]].size \in Addr
        /\ X[q[k] + X[q[k]].size].used = "FREE" => q[k] + X[q[k]].size = x
    BY <1>3 DEF Ahead
  <2>2. k # j => Entry(q, k + 1) = q[k + 1]
    BY <1>3 DEF Entry
  <2> QED BY <2>1, <2>2 DEF Free
<1>6. Entry(q, i + 1) = q[i + 1]
  BY <1>4 DEF Entry
(* Two blocks do not end where x begins.                                   *)
<1>7. ASSUME NEW k \in i + 1 .. j, k # j PROVE q[k] + X[q[k]].size # x
  <2> SUFFICES ASSUME q[k] + X[q[k]].size = x PROVE FALSE
    OBVIOUS
  <2>1. q[k] \in Starts(X) /\ q[j] \in Starts(X)
    BY <1>4, <1>5 DEF Starts
  <2>2. q[k] # q[j]
    BY <1>3, <1>4, <1>7
  <2>3. q[k] \in Nat /\ q[j] \in Nat /\ X[q[k]].size \in Nat \ {0} /\ X[q[j]].size \in Nat \ {0}
    <3>1. \A a \in Starts(X) : a \in 1 .. LastAddr /\ X[a].size \in Nat \ {0}
      BY <1>1, TileFacts
    <3> QED BY <2>1, <3>1
  <2>4. /\ q[k] < q[j] => q[k] + X[q[k]].size <= q[j]
        /\ q[j] < q[k] => q[j] + X[q[j]].size <= q[k]
    BY <2>1 DEF Tile
  <2> QED BY <2>2, <2>3, <2>4
(* Memory when x is merged with the j-th.                                  *)
<1>8. /\ J \in Memory
      /\ \A a \in Addr : /\ J[a].used = IF a = x THEN "0" ELSE X[a].used
                         /\ J[a].size = IF a = q[j] THEN X[q[j]].size + X[x].size ELSE X[a].size
                         /\ J[a].is_head = X[a].is_head
                         /\ J[a].next = IF a = q[j] THEN X[x].next ELSE X[a].next
  <2>1. q[j] \in Starts(X) /\ x = q[j] + X[q[j]].size /\ X[x].used = "FREE"
    BY <1>4, <1>5 DEF Starts, Ahead
  <2> HIDE DEF J
  <2>2. /\ Typed(J)
        /\ \A a \in Addr :
              /\ J[a].used = IF a = x THEN "0" ELSE X[a].used
              /\ J[a].size = IF a = q[j] THEN X[q[j]].size + X[x].size ELSE X[a].size
              /\ J[a].is_head = X[a].is_head
              /\ J[a].prev = IF a = X[x].next THEN q[j] ELSE X[a].prev
              /\ J[a].next = IF a = q[j] THEN X[x].next ELSE X[a].next
    <3> DEFINE u == q[j]
    <3>1. J = join(X, u, x) /\ u \in Starts(X) /\ x = u + X[u].size /\ X[x].used = "FREE"
      BY <2>1 DEF J
    <3> HIDE DEF u
    <3>2. /\ Typed(J)
          /\ \A a \in Addr :
              /\ J[a].used = IF a = x THEN "0" ELSE X[a].used
              /\ J[a].size = IF a = u THEN X[u].size + X[x].size ELSE X[a].size
              /\ J[a].is_head = X[a].is_head
              /\ J[a].prev = IF a = X[x].next THEN u ELSE X[a].prev
              /\ J[a].next = IF a = u THEN X[x].next ELSE X[a].next
      BY <3>1, JoinTile
    <3> QED BY <3>2, Zenon DEF u
  <2> QED BY <2>2 DEF Typed
<1>9. q[j] + J[q[j]].size = x + X[x].size
  <2>1. q[j] \in Starts(X) /\ x \in Starts(X) /\ q[j] \in Addr
    <3>1. x \in Addr /\ X[x].used = "FREE"
      BY ConstantFacts DEF Ahead, Addr
    <3> QED BY <1>4, <1>5, <3>1 DEF Starts, Free
  <2>2. q[j] \in Nat /\ X[q[j]].size \in Nat /\ X[x].size \in Nat
    <3>1. \A a \in Starts(X) : a \in 1 .. LastAddr /\ X[a].size \in Nat \ {0}
      BY <1>1, TileFacts
    <3> QED BY <2>1, <3>1
  <2>3. J[q[j]].size = X[q[j]].size + X[x].size
    BY <1>8, <2>1
  <2> QED BY <2>2, <2>3
<1>10. /\ ~J[q[j] + J[q[j]].size].is_head
       /\ \A k \in i + 1 .. j : /\ J[q[k]].used = "FREE" /\ J[q[k]].next = q[next(k)]
                                /\ J[q[k] + J[q[k]].size].used # "FREE"
  <2>1. x + X[x].size \in Addr /\ X[x + X[x].size].used # "FREE" /\ X[x].next = q[i + 1]
    BY <1>6 DEF Ahead
  <2>2. ~J[q[j] + J[q[j]].size].is_head
    BY <1>8, <1>9, <2>1
  <2> SUFFICES ASSUME NEW k \in i + 1 .. j
               PROVE  /\ J[q[k]].used = "FREE" /\ J[q[k]].next = q[next(k)]
                      /\ J[q[k] + J[q[k]].size].used # "FREE"
    BY <2>2
  <2>3. q[k] \in Addr /\ q[k] # x /\ X[q[k]].used = "FREE"
    BY <1>5
  <2>4. J[q[k]].used = "FREE"
    BY <1>8, <2>3
  <2>5. CASE k = j
    <3>1. J[q[k]].next = q[i + 1]
      BY <1>8, <2>1, <2>3, <2>5
    <3>2. J[x + X[x].size].used # "FREE"
      BY <1>8, <2>1
    <3> QED BY <1>9, <2>4, <2>5, <3>1, <3>2
  <2>6. CASE k # j
    <3>1. q[k] # q[j]
      BY <1>3, <1>4, <2>6
    <3>2. J[q[k]].next = q[k + 1] /\ J[q[k]].size = X[q[k]].size
      BY <1>5, <1>8, <2>3, <2>6, <3>1
    <3>3. /\ q[k] + X[q[k]].size \in Addr
          /\ X[q[k] + X[q[k]].size].used # "FREE"
      BY <1>5, <1>7, <2>6
    <3>4. J[q[k] + X[q[k]].size].used # "FREE"
      BY <1>8, <3>3
    <3> QED BY <2>4, <2>6, <3>2, <3>4
  <2> QED BY <2>5, <2>6
<1> HIDE DEF L, t, J
<1>11. \A k \in i + 1 .. j : /\ Round(q, i, j, x, p, X, At(X, q[k], "skip"))
                             /\ Round(q, i, j, x, p, X, At(X, q[k], "block"))
                             /\ Round(q, i, j, x, p, X, At(X, q[k], "nb"))
                             /\ Round(q, i, j, x, p, X, At(J, q[k], "skip"))
                             /\ Round(q, i, j, x, p, X, At(J, q[k], "block"))
                             /\ Round(q, i, j, x, p, X, At(J, q[k], "nb"))
  BY DEF Round, J
<1>12. CASE s \in {At(p, x, "block"), At(p, x, "nb"), At(X, x, "nb")}
  <2>1. t \in {At(p, x, "nb"), At(X, x, "nb"), At(X, q[i + 1], "skip")}
    <3>1. i = 0 => X = p
      OBVIOUS
    <3>2. CASE i = 0
      BY <1>2, <1>6, <1>12, <3>1, <3>2 DEF t
    <3>3. CASE i # 0
      BY <1>2, <1>6, <1>12, <3>3 DEF t
    <3> QED BY <3>2, <3>3
  <2>2. Round(q, i, j, x, p, X, t)
    BY <1>4, <1>11, <2>1 DEF Round
  <2> QED BY <2>2 DEF t
<1>13. ASSUME NEW k \in i + 1 .. j, NEW w \in {"skip", "block", "nb"}, s = At(X, q[k], w)
       PROVE  Round(q, i, j, x, p, X, t)
  <2>1. /\ q[k] \in Addr \ {0} /\ X[q[k]].used = "FREE" /\ X[q[k]].next \in Addr
    <3>1. k # j => X[q[k]].next \in Addr
      BY <1>3, <1>5
    <3>2. X[q[j]].next \in Addr
      <4>1. X[q[j]].next = Entry(q, j + 1)
        BY DEF Ahead
      <4>2. CASE j = L
        BY <4>1, <4>2, ConstantFacts DEF Entry, Addr, L
      <4>3. CASE j # L
        <5>1. j + 1 \in i + 1 .. Len(q) /\ j + 1 # Len(q) + 1
          BY <1>1, <4>3 DEF L
        <5>2. q[j + 1] \in Addr
          BY <5>1 DEF Ahead
        <5> QED BY <4>1, <5>1, <5>2 DEF Entry
      <4> QED BY <4>2, <4>3
    <3> QED BY <1>5, <3>1, <3>2
  <2>2. /\ merge_step(At(X, q[k], "skip")) = At(X, q[k], "block")
        /\ merge_step(At(X, q[k], "block")) = At(X, q[k], "nb")
        /\ X[q[k] + X[q[k]].size].used # "FREE" =>
             merge_step(At(X, q[k], "nb")) = At(X, X[q[k]].next, "skip")
    BY <1>1, <2>1, AtBlock
  <2>3. CASE w # "nb"
    <3>1. t \in {At(X, q[k], "block"), At(X, q[k], "nb")}
      BY <1>13, <2>2, <2>3 DEF t
    <3> QED BY <1>11, <3>1
  <2>4. CASE w = "nb" /\ k # j
    <3>1. X[q[k] + X[q[k]].size].used # "FREE"
      BY <1>5, <1>7, <2>4
    <3>2. t = At(X, q[k + 1], "skip") /\ k + 1 \in i + 1 .. j
      BY <1>3, <1>5, <1>13, <2>2, <2>4, <3>1 DEF t
    <3> QED BY <1>11, <3>2
  <2>5. CASE w = "nb" /\ k = j
    <3>1. s \in States /\ s.blk = X /\ s.cur = q[j] /\ s.at = "nb" /\ s = At(X, q[j], "nb")
      BY <1>1, <1>13, <2>1, <2>5, AtIs
    <3>2. Right(s) = x
      BY <3>1 DEF Right
    <3>3. X[x].used = "FREE"
      BY DEF Ahead
    <3>4. t = IF J[q[j] + J[q[j]].size].is_head
              THEN [blk |-> J, cur |-> q[j] + J[q[j]].size, at |-> "block"]
              ELSE [blk |-> J, cur |-> q[j], at |-> "nb"]
      BY <3>1, <3>2, <3>3, StepIs DEF t, J
    <3>5. t = At(J, q[j], "nb")
      BY <1>10, <3>4 DEF At
    <3> QED BY <1>4, <1>11, <3>5
  <2> QED BY <2>3, <2>4, <2>5
<1>14. ASSUME NEW k \in i + 1 .. j, NEW w \in {"skip", "block", "nb"}, s = At(J, q[k], w)
       PROVE  Round(q, i, j, x, p, X, t)
  <2>1. next(k) \in i + 1 .. j
    BY <1>3
  <2>2. /\ q[k] \in Addr \ {0} /\ J[q[k]].used = "FREE" /\ J[q[k]].next = q[next(k)]
        /\ J[q[k]].next \in Addr /\ J[q[k] + J[q[k]].size].used # "FREE"
    BY <1>5, <1>10, <2>1
  <2>3. /\ merge_step(At(J, q[k], "skip")) = At(J, q[k], "block")
        /\ merge_step(At(J, q[k], "block")) = At(J, q[k], "nb")
        /\ merge_step(At(J, q[k], "nb")) = At(J, q[next(k)], "skip")
    BY <1>8, <2>2, AtBlock
  <2>4. t \in {At(J, q[k], "block"), At(J, q[k], "nb"), At(J, q[next(k)], "skip")}
    BY <1>14, <2>3 DEF t
  <2> QED BY <1>11, <2>1, <2>4
<1> QED BY <1>12, <1>13, <1>14 DEF Round, t, J

(* Free blocks are not neighbours, so there are at most half as many as    *)
(* there are addresses.                                                    *)
LEMMA HalfList ==
  ASSUME NEW b, Typed(b), NEW arena \in SUBSET (1 .. LastAddr), Tile(b, arena), NoPairs(b),
         NEW first, NEW q, Listed(b, first, q)
  PROVE  Len(q) \in Nat /\ 2 * Len(q) <= LastAddr + 1
<1> DEFINE n == Len(q)
           end(a) == a + b[a].size
           g == [k \in 1 .. n + n |-> IF k <= n THEN q[k] ELSE end(q[k - n])]
<1>0. LastAddr \in Nat /\ LastAddr + 1 \in Nat
  BY ConstantFacts
<1>1. /\ n \in Nat
      /\ \A i, j \in 1 .. n : q[i] = q[j] => i = j
      /\ \A i \in 1 .. n : q[i] \in Free(b)
  BY ListFacts
<1>2. \A a \in Free(b) : a \in Starts(b) /\ a \in 1 .. LastAddr /\ b[a].size \in Nat \ {0}
                         /\ end(a) \in 1 .. LastAddr + 1 /\ end(a) \notin Free(b)
  <2> TAKE a \in Free(b)
  <2>1. a \in Starts(b) /\ b \in Memory
    BY DEF Starts, Typed
  <2>2. a \in 1 .. LastAddr /\ b[a].size \in Nat \ {0} /\ a + b[a].size - 1 \in 1 .. LastAddr
    BY <2>1, TileFacts
  <2>3. end(a) \in 1 .. LastAddr + 1
    BY <1>0, <2>2
  <2>4. end(a) \notin Free(b)
    BY DEF NoPairs
  <2> QED BY <2>1, <2>2, <2>3, <2>4
<1>3. \A a, c \in Free(b) : end(a) = end(c) => a = c
  <2> TAKE a, c \in Free(b)
  <2>1. a < c => a + b[a].size <= c
    BY <1>2 DEF Tile
  <2>2. c < a => c + b[c].size <= a
    BY <1>2 DEF Tile
  <2>3. a \in Nat /\ c \in Nat /\ b[a].size \in Nat \ {0} /\ b[c].size \in Nat \ {0}
    BY <1>2
  <2> QED BY <2>1, <2>2, <2>3
<1> HIDE DEF end
<1>4. \A k \in 1 .. n + n : g[k] \in 1 .. LastAddr + 1
  <2> TAKE k \in 1 .. n + n
  <2>1. CASE k <= n
    <3>1. k \in 1 .. n
      BY <1>1, <2>1
    <3>2. q[k] \in 1 .. LastAddr
      BY <1>1, <1>2, <3>1
    <3> QED BY <1>0, <2>1, <3>2
  <2>2. CASE ~(k <= n)
    <3>1. k - n \in 1 .. n
      BY <1>1, <2>2
    <3>2. end(q[k - n]) \in 1 .. LastAddr + 1
      BY <1>1, <1>2, <3>1
    <3> QED BY <2>2, <3>2
  <2> QED BY <2>1, <2>2
<1>5. \A k, l \in 1 .. n + n : g[k] = g[l] => k = l
  <2> TAKE k, l \in 1 .. n + n
  <2>1. /\ k <= n => k \in 1 .. n /\ g[k] = q[k] /\ g[k] \in Free(b)
        /\ ~(k <= n) => k - n \in 1 .. n /\ g[k] = end(q[k - n]) /\ g[k] \notin Free(b)
    <3>1. k <= n => k \in 1 .. n
      BY <1>1
    <3>2. ~(k <= n) => k - n \in 1 .. n
      BY <1>1
    <3> QED BY <1>1, <1>2, <3>1, <3>2
  <2>2. /\ l <= n => l \in 1 .. n /\ g[l] = q[l] /\ g[l] \in Free(b)
        /\ ~(l <= n) => l - n \in 1 .. n /\ g[l] = end(q[l - n]) /\ g[l] \notin Free(b)
    <3>1. l <= n => l \in 1 .. n
      BY <1>1
    <3>2. ~(l <= n) => l - n \in 1 .. n
      BY <1>1
    <3> QED BY <1>1, <1>2, <3>1, <3>2
  <2> HIDE DEF g
  <2> SUFFICES ASSUME g[k] = g[l] PROVE k = l
    OBVIOUS
  <2>3. CASE k <= n
    <3>1. l <= n
      BY <2>1, <2>2, <2>3
    <3> QED BY <1>1, <2>1, <2>2, <2>3, <3>1
  <2>4. CASE ~(k <= n)
    <3>1. ~(l <= n)
      BY <2>1, <2>2, <2>4
    <3>2. q[k - n] \in Free(b) /\ q[l - n] \in Free(b) /\ end(q[k - n]) = end(q[l - n])
      BY <1>1, <2>1, <2>2, <2>4, <3>1
    <3>3. q[k - n] = q[l - n]
      BY <1>3, <3>2
    <3>4. k - n = l - n
      BY <1>1, <2>1, <2>2, <2>4, <3>1, <3>3
    <3> QED BY <1>1, <3>4
  <2> QED BY <2>3, <2>4
<1>6. n + n \in Nat
  BY <1>1
<1>7. g \in Injection(1 .. n + n, 1 .. LastAddr + 1)
  <2>1. g \in [1 .. n + n -> 1 .. LastAddr + 1]
    BY <1>4
  <2>2. DOMAIN g = 1 .. n + n
    OBVIOUS
  <2> HIDE DEF g
  <2> QED BY <1>5, <2>1, <2>2 DEF Injection, IsInjective
<1> HIDE DEF g
<1>8. \A k \in Nat : IsFiniteSet(1 .. k) /\ Cardinality(1 .. k) = k
  <2>1. \A k \in Nat : IsFiniteSet(1 .. k) /\ Cardinality(1 .. k) = IF 1 > k THEN 0 ELSE k - 1 + 1
    BY FS_Interval
  <2> QED BY <2>1
<1>9. Cardinality(1 .. n + n) <= Cardinality(1 .. LastAddr + 1)
  BY <1>0, <1>6, <1>7, <1>8, FS_Injection
<1> QED BY <1>0, <1>1, <1>6, <1>8, <1>9

(* What the walk of a call starts from.                                    *)
LEMMA WalkBegins ==
  ASSUME IInv, cause = {}, NEW c \in live, ~Strays(c), NEW x, x = c.at,
         NEW p, p = Freed(blk, free_list, x), NEW X, X = Once(p, x)
  PROVE  \E q, i :
           /\ Listed(blk, free_list, q) /\ Ahead(q, i, x, X) /\ p \in Memory
           /\ IF i = 0 THEN X = p
              ELSE /\ p[x + p[x].size].used = "FREE" /\ X = join(p, x, x + p[x].size)
                   /\ ~X[x + X[x].size].is_head
           /\ LeftStays(c) => ~X[x + X[x].size].is_head
           /\ LeftStays(c) <=> \E k \in i + 1 .. Len(q) : q[k] + X[q[k]].size = x
           /\ Typed(X) /\ Tile(X, AddressesOf(heap)) /\ AddressesOf(heap) \in SUBSET (1 .. LastAddr)
           /\ \A k, l \in 1 .. Len(q) : q[k] = q[l] => k = l
           /\ 2 * Len(q) <= LastAddr + 1
<1> DEFINE arena == AddressesOf(heap)
<1>1. /\ Typed(blk) /\ Tile(blk, arena) /\ Blank(blk, arena) /\ NoPairs(blk) /\ InUse(blk, live)
      /\ arena \in SUBSET (1 .. LastAddr) /\ \E q : Listed(blk, free_list, q)
  BY Arena DEF IInv, Tidy
<1>2. PICK q : Listed(blk, free_list, q)
  BY <1>1
<1> DEFINE i == RightAt(c)
<1>3. x \in Used(blk)
  BY <1>1 DEF InUse
<1>4. p \in Memory
  BY <1>1, <1>2, <1>3, FreedFacts
<1>5. /\ Ahead(q, i, x, X)
      /\ Typed(X) /\ Tile(X, arena)
      /\ IF i = 0 THEN X = p
         ELSE p[x + p[x].size].used = "FREE" /\ X = join(p, x, x + p[x].size)
      /\ LeftStays(c) <=> \E k \in i + 1 .. Len(q) : q[k] + X[q[k]].size = x
      /\ Strays(c) <=> X[x + X[x].size].is_head /\ (i # 0 \/ LeftStays(c))
  <2> HIDE DEF i
  <2>1. i = RightAt(c)
    BY DEF i
  <2> QED BY <1>2, <2>1, AheadIs
<1>6. 2 * Len(q) <= LastAddr + 1
  BY <1>1, <1>2, HalfList
<1>7. \A k, l \in 1 .. Len(q) : q[k] = q[l] => k = l
  BY <1>1, <1>2, ListFacts
<1> HIDE DEF i, arena
<1>8. /\ IF i = 0 THEN X = p
         ELSE /\ p[x + p[x].size].used = "FREE" /\ X = join(p, x, x + p[x].size)
              /\ ~X[x + X[x].size].is_head
      /\ LeftStays(c) => ~X[x + X[x].size].is_head
  BY <1>5
<1> QED BY <1>1, <1>2, <1>4, <1>5, <1>6, <1>7, <1>8 DEF arena

(* With a block in front of x that stays, the walk never ends.             *)
LEMMA GoesRound ==
  ASSUME IInv, cause = {}, NEW c \in live, ~Strays(c), LeftStays(c), NEW x, x = c.at,
         NEW p, p = Freed(blk, free_list, x), NEW m, m = Merged(p, x)
  PROVE  m.at # "done"
<1> DEFINE X == Once(p, x)
           arena == AddressesOf(heap)
<1>0. X = Once(p, x)
  OBVIOUS
<1> HIDE DEF X
<1>1. PICK q, i :
           /\ Listed(blk, free_list, q) /\ Ahead(q, i, x, X) /\ p \in Memory
           /\ IF i = 0 THEN X = p
              ELSE /\ p[x + p[x].size].used = "FREE" /\ X = join(p, x, x + p[x].size)
                   /\ ~X[x + X[x].size].is_head
           /\ LeftStays(c) => ~X[x + X[x].size].is_head
           /\ LeftStays(c) <=> \E k \in i + 1 .. Len(q) : q[k] + X[q[k]].size = x
           /\ Typed(X) /\ Tile(X, arena) /\ arena \in SUBSET (1 .. LastAddr)
           /\ \A k, l \in 1 .. Len(q) : q[k] = q[l] => k = l
           /\ 2 * Len(q) <= LastAddr + 1
  BY <1>0, WalkBegins
<1>2. PICK j \in i + 1 .. Len(q) : q[j] + X[q[j]].size = x
  BY <1>1
<1>3. PICK f : /\ f[0] = [blk |-> p, cur |-> x, at |-> "block"]
               /\ \A k \in 1 .. Fuel : f[k] = merge_step(f[k - 1])
               /\ m = f[Fuel]
  BY MergedLoop
<1> DEFINE S == {k \in 0 .. Fuel : Round(q, i, j, x, p, X, f[k])}
           g == [k \in 0 .. Fuel |-> k]
<1> HIDE DEF arena
<1>4. Fuel \in Nat /\ 0 \in 0 .. Fuel /\ Fuel \in 0 .. Fuel
  BY ConstantFacts
<1>5. g[0] \in S
  <2>1. f[0] = At(p, x, "block")
    BY <1>3 DEF At
  <2>2. Round(q, i, j, x, p, X, f[0])
    BY <2>1 DEF Round
  <2> QED BY <1>4, <2>2
<1>6. ASSUME NEW k \in 1 .. Fuel, g[k - 1] \in S PROVE g[k] \in S
  <2>1. k - 1 \in 0 .. Fuel /\ k \in 0 .. Fuel
    BY <1>4
  <2>2. Round(q, i, j, x, p, X, f[k - 1])
    BY <1>6, <2>1
  <2>3. ~X[x + X[x].size].is_head
    BY <1>1
  <2>4. Round(q, i, j, x, p, X, merge_step(f[k - 1]))
    BY <1>1, <1>2, <2>2, <2>3, StaysRound
  <2>5. Round(q, i, j, x, p, X, f[k])
    BY <1>3, <2>4
  <2> QED BY <2>1, <2>5
<1>7. Round(q, i, j, x, p, X, m)
  <2> HIDE DEF S, g
  <2>1. g[Fuel] \in S
    BY <1>4, <1>5, <1>6, RoundsIn
  <2> QED BY <1>3, <1>4, <2>1 DEF S, g
<1>8. \A b, a, w : At(b, a, w).at = w
  BY DEF At
<1> QED BY <1>7, <1>8 DEF Round

(* Without one, it ends in time, and the list does, too.                   *)
LEMMA ComesToAnEnd ==
  ASSUME IInv, cause = {}, NEW c \in live, ~Strays(c), ~LeftStays(c), NEW x, x = c.at,
         NEW p, p = Freed(blk, free_list, x), NEW m, m = Merged(p, x),
         NEW list, list = ListOf(m.blk, x)
  PROVE  m.at = "done" /\ Len(list) # Fuel
<1> DEFINE X == Once(p, x)
           arena == AddressesOf(heap)
<1>0. X = Once(p, x)
  OBVIOUS
<1> HIDE DEF X
<1>1. PICK q, i :
           /\ Listed(blk, free_list, q) /\ Ahead(q, i, x, X) /\ p \in Memory
           /\ IF i = 0 THEN X = p
              ELSE /\ p[x + p[x].size].used = "FREE" /\ X = join(p, x, x + p[x].size)
                   /\ ~X[x + X[x].size].is_head
           /\ LeftStays(c) => ~X[x + X[x].size].is_head
           /\ LeftStays(c) <=> \E k \in i + 1 .. Len(q) : q[k] + X[q[k]].size = x
           /\ Typed(X) /\ Tile(X, arena) /\ arena \in SUBSET (1 .. LastAddr)
           /\ \A k, l \in 1 .. Len(q) : q[k] = q[l] => k = l
           /\ 2 * Len(q) <= LastAddr + 1
  BY <1>0, WalkBegins
<1>2. \A k \in i + 1 .. Len(q) : q[k] + X[q[k]].size # x
  BY <1>1
<1>3. PICK f : /\ f[0] = [blk |-> p, cur |-> x, at |-> "block"]
               /\ \A k \in 1 .. Fuel : f[k] = merge_step(f[k - 1])
               /\ m = f[Fuel]
  BY MergedLoop
<1> DEFINE S == {k \in 0 .. Fuel : Togo(q, i, x, p, X, f[k], Fuel - k)}
           g == [k \in 0 .. Fuel |-> k]
<1> HIDE DEF arena
<1>4. /\ Fuel \in Nat /\ 0 \in 0 .. Fuel /\ Fuel \in 0 .. Fuel /\ Fuel - 0 = Fuel
      /\ Len(q) \in Nat /\ Fuel >= 3 * Len(q) + 5 /\ i \in 0 .. Len(q)
  <2>1. Fuel \in Nat /\ LastAddr \in Nat /\ 2 * Fuel > 3 * (LastAddr + 1) + 10
    BY ConstantFacts
  <2>2. Len(q) \in Nat /\ 2 * Len(q) <= LastAddr + 1 /\ i \in 0 .. Len(q)
    BY <1>1 DEF Ahead
  <2> QED BY <2>1, <2>2
<1>5. g[0] \in S
  <2>1. f[0] = At(p, x, "block")
    BY <1>3 DEF At
  <2>2. Togo(q, i, x, p, X, f[0], Fuel - 0)
    BY <1>4, <2>1 DEF Togo
  <2> QED BY <1>4, <2>2
<1>6. ASSUME NEW k \in 1 .. Fuel, g[k - 1] \in S PROVE g[k] \in S
  <2>1. k - 1 \in 0 .. Fuel /\ k \in 0 .. Fuel /\ Fuel - (k - 1) \in Int /\ (Fuel - (k - 1)) - 1 = Fuel - k
    BY <1>4
  <2>2. Togo(q, i, x, p, X, f[k - 1], Fuel - (k - 1))
    BY <1>6, <2>1
  <2>3. Togo(q, i, x, p, X, merge_step(f[k - 1]), (Fuel - (k - 1)) - 1)
    BY <1>1, <1>2, <2>1, <2>2, OneLess
  <2>4. Togo(q, i, x, p, X, f[k], Fuel - k)
    BY <1>3, <2>1, <2>3
  <2> QED BY <2>1, <2>4
<1>7. Togo(q, i, x, p, X, m, 0)
  <2> HIDE DEF S, g
  <2>1. g[Fuel] \in S
    BY <1>4, <1>5, <1>6, RoundsIn
  <2>2. Togo(q, i, x, p, X, f[Fuel], Fuel - Fuel) /\ Fuel - Fuel = 0
    BY <1>4, <2>1 DEF S, g
  <2> QED BY <1>3, <2>2
<1>8. m = At(X, 0, "done")
  <2>1. ~(0 >= 3 * Len(q) + 5) /\ ~(0 >= 3 * Len(q) + 4) /\ ~(0 >= 3 * Len(q) + 3)
    BY <1>4
  <2>2. \A k \in i + 1 .. Len(q) + 1 : /\ ~(0 >= 3 * (Len(q) - k) + 5) /\ ~(0 >= 3 * (Len(q) - k) + 4)
                                       /\ k # Len(q) + 1 => ~(0 >= 3 * (Len(q) - k) + 3)
    BY <1>4
  <2> QED BY <1>7, <2>1, <2>2 DEF Togo
(* The list is x and what is on the old one behind i.                      *)
<1> DEFINE r == [k \in 1 .. Len(q) - i + 1 |-> IF k = 1 THEN x ELSE q[i + k - 1]]
<1>9. Len(q) - i + 1 \in Nat \ {0} /\ Len(q) - i + 1 < Fuel
  BY <1>4
<1>10. Chain(X, x, r) /\ Len(r) = Len(q) - i + 1
  <2>1. \A k \in 1 .. Len(q) - i + 1 : r[k] \in 1 .. Top
    <3> TAKE k \in 1 .. Len(q) - i + 1
    <3>1. k # 1 => i + k - 1 \in 1 .. Len(q)
      BY <1>4
    <3>2. \A l \in 1 .. Len(q) : q[l] \in 1 .. Top
      BY <1>1, ElementOfSeq DEF Ahead
    <3>3. x \in 1 .. Top
      BY <1>1 DEF Ahead
    <3> QED BY <3>1, <3>2, <3>3
  <2>2. r \in [1 .. Len(q) - i + 1 -> 1 .. Top]
    BY <2>1
  <2>3. r \in Seq(1 .. Top) /\ Len(r) = Len(q) - i + 1
    <3> HIDE DEF r
    <3>1. r \in Seq(1 .. Top)
      BY <1>9, <2>2, SeqDef
    <3>2. DOMAIN r = 1 .. Len(r) /\ DOMAIN r = 1 .. Len(q) - i + 1 /\ Len(r) \in Nat
      BY <2>2, <3>1
    <3> QED BY <1>9, <3>1, <3>2
  <2>4. 1 \in 1 .. Len(q) - i + 1 /\ r # << >>
    BY <1>9, <2>3
  <2>5. r[1] = x
    BY <2>4
  <2>6. ASSUME NEW k \in 1 .. Len(q) - i + 1
        PROVE  X[r[k]].next = IF k = Len(q) - i + 1 THEN 0 ELSE r[k + 1]
    <3>1. X[r[k]].next = Entry(q, i + k)
      <4>1. CASE k = 1
        BY <1>1, <2>5, <4>1 DEF Ahead
      <4>2. CASE k # 1
        <5>1. i + k - 1 \in i + 1 .. Len(q) /\ (i + k - 1) + 1 = i + k
          BY <1>4, <4>2
        <5>2. r[k] = q[i + k - 1]
          BY <4>2
        <5>3. X[q[i + k - 1]].next = Entry(q, (i + k - 1) + 1)
          BY <1>1, <5>1 DEF Ahead
        <5> QED BY <5>1, <5>2, <5>3
      <4> QED BY <4>1, <4>2
    <3>2. CASE k = Len(q) - i + 1
      <4>1. i + k = Len(q) + 1
        BY <1>4, <3>2
      <4> QED BY <3>1, <3>2, <4>1 DEF Entry
    <3>3. CASE k # Len(q) - i + 1
      <4>1. k + 1 \in 1 .. Len(q) - i + 1 /\ k + 1 # 1 /\ i + (k + 1) - 1 = i + k /\ i + k # Len(q) + 1
        BY <1>4, <3>3
      <4>2. r[k + 1] = q[i + k]
        BY <4>1
      <4> QED BY <3>1, <3>3, <4>1, <4>2 DEF Entry
    <3> QED BY <3>2, <3>3
  <2> HIDE DEF r
  <2> QED BY <2>3, <2>4, <2>5, <2>6 DEF Chain
<1> HIDE DEF r
<1>11. list = r
  <2>1. X \in Memory /\ x \in Addr /\ (\A a \in 1 .. Top : X[a].next # WILD) /\ m.blk = X
    BY <1>1, <1>8, ConstantFacts DEF Ahead, Typed, At, Addr
  <2>2. Chain(X, x, r) /\ Len(r) < Fuel
    BY <1>9, <1>10
  <2> QED BY <2>1, <2>2, ChainUnique
<1> QED BY <1>8, <1>9, <1>10, <1>11 DEF At

LEMMA FreeHangs ==
  ASSUME IInv, cause = {}, NEW c \in live, kfree(c), ~Strays(c)
  PROVE  "hang" \in cause' <=> LeftStays(c)
<1> DEFINE p == Freed(blk, free_list, c.at)
           m == Merged(p, c.at)
           list == ListOf(m.blk, c.at)
           whole == {a \in Range(list) : m.blk[a].size = Chunk}
<1>1. /\ p = Freed(blk, free_list, c.at) /\ m = Merged(p, c.at) /\ list = ListOf(m.blk, c.at)
      /\ whole = {a \in Range(list) : m.blk[a].size = Chunk}
  OBVIOUS
<1> HIDE DEF p, m, list, whole
<1>2. FreeEffect(c, m, list, whole)
  BY <1>1, FreeDoes
<1>3. "hang" \in cause' <=> m.at # "done" \/ Len(list) = Fuel
  BY <1>2 DEF FreeEffect
<1>4. LeftStays(c) => m.at # "done"
  BY <1>1, GoesRound
<1>5. ~LeftStays(c) => m.at = "done" /\ Len(list) # Fuel
  BY <1>1, ComesToAnEnd
<1> QED BY <1>3, <1>4, <1>5

LEMMA NextHangs ==
  ASSUME IInv, [Next]_vars
  PROVE  \A b \in live \ live' : ~Strays(b) => (("hang" \in cause') <=> LeftStays(b))
<1> SUFFICES ASSUME NEW b \in live, b \notin live', ~Strays(b)
             PROVE  "hang" \in cause' <=> LeftStays(b)
  OBVIOUS
<1>1. Next
  BY DEF vars
<1>2. cause = {}
  BY <1>1 DEF Next
<1>3. ~(\E size \in Sizes : kmalloc_fit(size) \/ kmalloc_grow(size))
  BY DEF kmalloc_fit, kmalloc_grow, Live
<1>4. ~alloc_page /\ ~(\E p \in Pages : free_page(p))
  BY DEF alloc_page, free_page
<1>5. PICK c \in live : kfree(c)
  BY <1>1, <1>3, <1>4 DEF Next
<1>6. live' = live \ {c}
  BY <1>5 DEF kfree
<1>7. b = c
  BY <1>6
<1> QED BY <1>2, <1>5, <1>7, FreeHangs

(* kfree hangs exactly when the block in front of the freed one is free and*)
(* stays on its list: then the walk, once it has merged the two, follows   *)
(* links that lead round.  Otherwise it takes at most three steps for each *)
(* free block.  A walk that strays into the next chunk is not covered.     *)
THEOREM HangsExactly == Spec => HangsOnLeftMerge
<1>1. IInv /\ [Next]_vars =>
        [\A b \in live \ live' : ~Strays(b) => (("hang" \in cause') <=> LeftStays(b))]_vars
  BY NextHangs
<1> QED BY InitIInv, NextIInv, <1>1, PTL DEF Spec, HangsOnLeftMerge
=============================================================================
