----------------------------- MODULE PageLemmas ------------------------------
(***************************************************************************)
(* Facts about the operators of Frames and Space: words and frames, the    *)
(* bitmap, the loops, their types; who owns which frame when one is mapped,*)
(* filled or given back; and what a directory owns while exec loads a      *)
(* program into it.                                                        *)
(***************************************************************************)
EXTENDS Space, BasicLemmas

-----------------------------------------------------------------------------
(* Division.                                                               *)

(* Division and multiplication keep the order of numbers.                  *)
LEMMA Multiples ==
  ASSUME NEW n \in Nat \ {0}, NEW a \in Nat, NEW b \in Nat
  PROVE  /\ (a \div n) * n <= a /\ a < (a \div n) * n + n
         /\ a % n = a - (a \div n) * n
         /\ a <= b => a \div n <= b \div n
         /\ a < b <=> a * n < b * n
         /\ a <= b <=> a * n <= b * n
<1>1. /\ a \div n \in Nat /\ a % n \in 0 .. n - 1 /\ a = (a \div n) * n + (a % n)
      /\ b \div n \in Nat /\ b % n \in 0 .. n - 1 /\ b = (b \div n) * n + (b % n)
  BY Division
<1> DEFINE p == a \div n
           q == b \div n
           r == a % n
<1> HIDE DEF p, q, r
<1>2. p \in Nat /\ q \in Nat /\ r \in 0 .. n - 1 /\ b % n \in 0 .. n - 1
      /\ a = p * n + r /\ b = q * n + (b % n)
  BY <1>1, Zenon DEF p, q, r
<1>3. p * n \in Nat /\ q * n \in Nat
  BY <1>2
<1>4. p * n <= a /\ a < p * n + n /\ r = a - p * n
  BY <1>2, <1>3
<1>5. a <= b => p <= q
  <2> SUFFICES ASSUME a <= b, p > q PROVE FALSE
    BY <1>2
  <2>1. (q + 1) * n <= p * n /\ (q + 1) * n = q * n + n
    BY <1>2
  <2> QED BY <1>2, <1>3, <1>4, <2>1
<1>6. a < b <=> a * n < b * n
  OBVIOUS
<1>7. a <= b <=> a * n <= b * n
  OBVIOUS
<1> QED BY <1>4, <1>5, <1>6, <1>7, Zenon DEF p, q, r

(* A quotient rounded up.                                                  *)
LEMMA RoundUp ==
  ASSUME NEW n \in Nat \ {0}, NEW a \in Nat, NEW q, q = DivUp(a, n)
  PROVE  q \in Nat /\ a <= q * n /\ q * n < a + n
<1>1. a + n - 1 \in Nat
  OBVIOUS
<1>2. q = (a + n - 1) \div n
  BY DEF DivUp
<1>3. q \in Nat /\ q * n <= a + n - 1 /\ a + n - 1 < q * n + n
  BY <1>1, <1>2, Multiples, Division, Zenon
<1>4. q * n \in Nat
  BY <1>3
<1> QED BY <1>3, <1>4

(* A stretch that ends before a multiple spans no more than its whole parts.*)
LEMMA Span ==
  ASSUME NEW n \in Nat \ {0}, NEW a \in Nat, NEW size \in Nat, NEW q \in Nat, a + size <= q * n
  PROVE  (a \div n) + DivUp(size, n) <= q
<1>1. PICK d \in Nat : d = a \div n /\ d * n <= a
  BY Multiples, Division, Zenon
<1>2. PICK c \in Nat : c = DivUp(size, n) /\ c * n < size + n
  BY RoundUp, Zenon
<1>3. (d + c) * n = d * n + c * n /\ (q + 1) * n = q * n + n /\ d * n \in Nat /\ c * n \in Nat /\ q * n \in Nat
  OBVIOUS
<1>4. (d + c) * n < (q + 1) * n
  BY <1>1, <1>2, <1>3
<1>5. d + c < q + 1
  <2>1. d + c \in Nat /\ q + 1 \in Nat
    OBVIOUS
  <2> QED BY <1>4, <2>1, Multiples
<1> QED BY <1>1, <1>2, <1>5

(* An address some pages on lies those pages on, in the same slot.         *)
LEMMA PagesOn ==
  ASSUME NEW n \in Nat \ {0}, NEW a \in Nat, NEW k \in Nat
  PROVE  (a + k * n) \div n = (a \div n) + k /\ (a + k * n) % n = a % n
<1>1. PICK d \in Nat, r \in 0 .. n - 1 : d = a \div n /\ r = a % n /\ a = d * n + r
  BY Division, Zenon
<1>2. a + k * n = (d + k) * n + r /\ d + k \in Nat
  BY <1>1
<1>3. ((d + k) * n + r) \div n = d + k /\ ((d + k) * n + r) % n = r
  BY <1>2, Quotient, Zenon
<1> QED BY <1>1, <1>2, <1>3

-----------------------------------------------------------------------------
(* Words and the frames they lie in.                                       *)

Words == 0 .. NFrames * Entries - 1
FrameOf(w) == w \div Entries
SlotOf(w) == w % Entries
Mem == [Words -> Frames]
State == [used : SUBSET Frames, mem : Mem]

(* What the assumptions on the constants come to.                          *)
LEMMA Sizes ==
  /\ Entries \in Nat \ {0} /\ NFrames \in Nat \ {0} /\ ByteBits \in Nat \ {0}
  /\ PAGE_SIZE \in Nat \ {0} /\ FreeMemStart \in Nat \ {0}
  /\ Entries > 1 /\ ByteBits <= FreeMemStart /\ FreeMemStart < NFrames
  /\ 0 \in Frames /\ KernelTable \in Frames \ {0} /\ 0 \in Slots
  /\ Frames \subseteq Nat /\ Slots \subseteq Nat
  /\ NONE \notin Frames
BY FramesAssumption, SpaceAssumption DEF Frames, Slots

(* A word of memory has one frame and one slot in it.                      *)
LEMMA WordOf ==
  /\ Words \subseteq Nat
  /\ \A f \in Frames, s \in Slots :
       Word(f, s) \in Words /\ FrameOf(Word(f, s)) = f /\ SlotOf(Word(f, s)) = s
  /\ \A w \in Words :
       FrameOf(w) \in Frames /\ SlotOf(w) \in Slots /\ Word(FrameOf(w), SlotOf(w)) = w
<1>0. Entries \in Nat \ {0} /\ NFrames \in Nat \ {0} /\ NFrames * Entries \in Nat
  BY Sizes
<1>1. ASSUME NEW f \in Frames, NEW s \in Slots
      PROVE  Word(f, s) \in Words /\ FrameOf(Word(f, s)) = f /\ SlotOf(Word(f, s)) = s
  <2>0. f \in Nat /\ f + 1 <= NFrames /\ s \in 0 .. Entries - 1
    BY <1>0 DEF Frames, Slots
  <2>1. f * Entries + s \in Nat /\ f * Entries + s < NFrames * Entries
    <3>1. (f + 1) * Entries <= NFrames * Entries  BY <1>0, <2>0
    <3>2. (f + 1) * Entries = f * Entries + Entries  BY <1>0, <2>0
    <3> QED BY <1>0, <2>0, <3>1, <3>2
  <2>2. (f * Entries + s) \div Entries = f /\ (f * Entries + s) % Entries = s
    BY <1>0, <2>0, Quotient, Zenon
  <2>3. f * Entries + s \in 0 .. NFrames * Entries - 1
    BY <1>0, <2>0, <2>1
  <2> QED BY <2>3, <2>2, Zenon DEF Word, Words, FrameOf, SlotOf
<1>2. ASSUME NEW w \in Words
      PROVE  FrameOf(w) \in Frames /\ SlotOf(w) \in Slots /\ Word(FrameOf(w), SlotOf(w)) = w
  <2>1. w \in Nat /\ w < NFrames * Entries
    BY <1>0 DEF Words
  <2>2. /\ w \div Entries \in Nat /\ w % Entries \in 0 .. Entries - 1
        /\ w = (w \div Entries) * Entries + (w % Entries)
    BY <1>0, <2>1, Division, Zenon
  <2>3. PICK q \in Nat : q = w \div Entries
    BY <2>2
  <2>4. q < NFrames
    <3> SUFFICES ASSUME q >= NFrames PROVE FALSE
      BY <1>0, <2>3
    <3>1. q * Entries >= NFrames * Entries  BY <1>0, <2>3
    <3> QED BY <1>0, <2>1, <2>2, <2>3, <3>1
  <2>5. w \div Entries \in 0 .. NFrames - 1
    BY <1>0, <2>3, <2>4
  <2> QED BY <2>2, <2>5, Zenon DEF Word, FrameOf, SlotOf, Slots, Frames
<1>3. Words \subseteq Nat
  BY <1>0 DEF Words
<1> QED BY <1>1, <1>2, <1>3

(* Two words of the frames are the same in the same slot of the same frame.*)
LEMMA WordsOfFrame ==
  ASSUME NEW f \in Frames
  PROVE  /\ WordsOf(f) \subseteq Words
         /\ \A w \in Words : w \in WordsOf(f) <=> FrameOf(w) = f
BY WordOf DEF WordsOf

(* The words of memory after a frame was filled, or a word was stored.     *)
LEMMA FillMem ==
  ASSUME NEW mm \in Mem, NEW f, NEW text \in [Slots -> Frames]
  PROVE  /\ Fill(mm, f, text) \in Mem
         /\ \A w \in Words :
              Fill(mm, f, text)[w] = IF FrameOf(w) = f THEN text[SlotOf(w)] ELSE mm[w]
<1>1. DOMAIN mm = Words  BY DEF Mem
<1>2. Fill(mm, f, text) = [w \in Words |-> IF FrameOf(w) = f THEN text[SlotOf(w)] ELSE mm[w]]
  BY <1>1 DEF Fill, FrameOf, SlotOf
<1>3. \A w \in Words : SlotOf(w) \in Slots
  BY WordOf
<1> QED BY <1>2, <1>3 DEF Mem

(* The words of memory after words were read into it.                      *)
LEMMA ReadMem ==
  ASSUME NEW mm \in Mem, NEW at, NEW n, NEW text \in [Slots -> Frames]
  PROVE  /\ Read(mm, at, n, text) \in Mem
         /\ \A w \in Words :
              Read(mm, at, n, text)[w] = IF w \in at .. at + n - 1 THEN text[SlotOf(w)] ELSE mm[w]
<1>1. DOMAIN mm = Words  BY DEF Mem
<1> DEFINE to == at .. at + n - 1
<1>2. Read(mm, at, n, text) = [w \in Words |-> IF w \in to THEN text[SlotOf(w)] ELSE mm[w]]
  BY <1>1 DEF Read, SlotOf
<1> HIDE DEF to
<1>3. \A w \in Words : SlotOf(w) \in Slots
  BY WordOf
<1>4. \A w \in Words : (IF w \in to THEN text[SlotOf(w)] ELSE mm[w]) \in Frames
  BY <1>3 DEF Mem
<1> QED BY <1>2, <1>4 DEF Mem, to

(* The words of memory after one was stored.                               *)
LEMMA PutMem ==
  ASSUME NEW mm \in Mem, NEW u, NEW v \in Frames
  PROVE  /\ Put(mm, u, v) \in Mem
         /\ \A w \in Words : Put(mm, u, v)[w] = IF w = u THEN v ELSE mm[w]
<1>1. DOMAIN mm = Words  BY DEF Mem
<1> QED BY <1>1 DEF Put, Mem

(* What a frame holds, slot by slot.                                       *)
LEMMA ContentMem ==
  ASSUME NEW mm \in Mem, NEW f \in Frames
  PROVE  /\ Content(mm, f) \in [Slots -> Frames]
         /\ \A s \in Slots : Content(mm, f)[s] = mm[Word(f, s)]
BY WordOf DEF Content, Mem

-----------------------------------------------------------------------------
(* The bitmap.                                                             *)

(* bitmap_alloc_bits finds the lowest run of clear bits, or says that there*)
(* is none.                                                                *)
LEMMA FirstRun ==
  ASSUME NEW u, NEW n \in Nat, NEW count \in Nat \ {0},
         NEW i, i = bitmap_alloc_bits(u, n, count)
  PROVE  \/ /\ i = -1
            /\ ~ \E j \in 0 .. n - count : (j .. j + count - 1) \cap u = {}
         \/ /\ i \in 0 .. n - count
            /\ (i .. i + count - 1) \cap u = {}
            /\ \A j \in 0 .. n - count : (j .. j + count - 1) \cap u = {} => i <= j
<1> DEFINE runs == {j \in 0 .. n - count : (j .. j + count - 1) \cap u = {}}
<1>1. i = IF runs = {} THEN -1 ELSE CHOOSE j \in runs : \A k \in runs : j <= k
  BY DEF bitmap_alloc_bits
<1>2. CASE runs = {}
  BY <1>1, <1>2
<1>3. CASE runs # {}
  <2>1. \E j \in runs : \A k \in runs : j <= k
    <3>1. runs \subseteq Nat
      OBVIOUS
    <3> HIDE DEF runs
    <3> QED BY <3>1, <1>3, LeastElement
  <2>2. i \in runs /\ \A k \in runs : i <= k
    <3> HIDE DEF runs
    <3> QED BY <1>1, <1>3, <2>1
  <2> QED BY <2>2
<1> QED BY <1>2, <1>3

(* A run of pages is free, inside the bitmap, and marked; a failure leaves *)
(* the bitmap alone as long as frame 0 is marked.                          *)
LEMMA AllocPages ==
  ASSUME NEW u \in SUBSET Frames, NEW n \in 0 .. NFrames, NEW count \in Nat \ {0},
         NEW p, p = alloc_pages(u, n, count)
  PROVE  /\ p.used \in SUBSET Frames /\ p.page \in Frames
         /\ u \subseteq p.used
         /\ p.page = 0 /\ 0 \in u => p.used = u
         /\ p.page # 0 => /\ p.used = u \cup (p.page .. p.page + count - 1)
                          /\ p.page .. p.page + count - 1 \subseteq Frames
                          /\ (p.page .. p.page + count - 1) \cap u = {}
                          /\ 0 \notin p.page .. p.page + count - 1
                          /\ p.page \in p.page .. p.page + count - 1
<1> DEFINE i == bitmap_alloc_bits(u, n, count)
<1>1. /\ p.used = IF i = -1 THEN u ELSE u \cup (i .. i + count - 1)
      /\ p.page = IF i > 0 THEN i ELSE 0
  BY DEF alloc_pages
<1>2. n \in Nat /\ n <= NFrames /\ 0 \in Frames
  BY Sizes
<1>3. \/ i = -1
      \/ /\ i \in 0 .. n - count
         /\ (i .. i + count - 1) \cap u = {}
  BY <1>2, FirstRun, Zenon
<1> HIDE DEF i
<1>4. CASE i = -1
  BY <1>1, <1>2, <1>4
<1>5. CASE i \in 0 .. n - count /\ (i .. i + count - 1) \cap u = {}
  <2>1. i .. i + count - 1 \subseteq Frames /\ i \in i .. i + count - 1
    BY <1>2, <1>5, Sizes DEF Frames
  <2>2. CASE i = 0
    BY <1>1, <1>2, <1>5, <2>1, <2>2
  <2>3. CASE i > 0
    BY <1>1, <1>2, <1>5, <2>1, <2>3
  <2> QED BY <1>5, <2>2, <2>3
<1> QED BY <1>3, <1>4, <1>5

(* A page: as above, and a failure means that there was none.              *)
LEMMA AllocPage ==
  ASSUME NEW u \in SUBSET Frames, NEW n \in 0 .. NFrames, n > 0,
         NEW p, p = alloc_pages(u, n, 1)
  PROVE  /\ p.used \in SUBSET Frames /\ p.page \in Frames
         /\ u \subseteq p.used
         /\ p.page = 0 => p.used = u \cup {0}
         /\ p.page = 0 /\ 0 \in u => 0 .. n - 1 \subseteq u
         /\ p.page # 0 => p.used = u \cup {p.page} /\ p.page \notin u
         /\ 0 \notin u => p.page = 0
<1> DEFINE i == bitmap_alloc_bits(u, n, 1)
<1>1. /\ p.used = IF i = -1 THEN u ELSE u \cup (i .. i + 1 - 1)
      /\ p.page = IF i > 0 THEN i ELSE 0
  BY DEF alloc_pages
<1>2. n \in Nat /\ n <= NFrames /\ 0 \in Frames
  BY Sizes
<1>3. \/ /\ i = -1
         /\ ~ \E j \in 0 .. n - 1 : (j .. j + 1 - 1) \cap u = {}
      \/ /\ i \in 0 .. n - 1
         /\ (i .. i + 1 - 1) \cap u = {}
         /\ \A j \in 0 .. n - 1 : (j .. j + 1 - 1) \cap u = {} => i <= j
  <2>1. 1 \in Nat \ {0}
    OBVIOUS
  <2> QED BY <1>2, <2>1, FirstRun, Zenon
<1>4. \A j \in 0 .. n - 1 : j .. j + 1 - 1 = {j}
  BY <1>2
<1> HIDE DEF i
<1>5. CASE i = -1
  <2>1. \A j \in 0 .. n - 1 : j \in u
    BY <1>2, <1>3, <1>4, <1>5
  <2>2. 0 \in 0 .. n - 1
    BY <1>2
  <2> QED BY <1>1, <1>2, <1>5, <2>1, <2>2
<1>6. CASE i \in 0 .. n - 1
  <2>1. i \notin u /\ \A j \in 0 .. n - 1 : j \notin u => i <= j
    BY <1>2, <1>3, <1>4, <1>6
  <2>2. i \in Frames /\ 0 \in 0 .. n - 1 /\ i # -1 /\ i .. i + 1 - 1 = {i}
    BY <1>2, <1>6, <1>4, Sizes DEF Frames
  <2>3. CASE i = 0
    <3>1. p.used = u \cup {0} /\ p.page = 0
      BY <1>1, <2>2, <2>3
    <3> QED BY <1>2, <2>1, <2>3, <3>1
  <2>4. CASE i > 0
    <3>1. p.used = u \cup {i} /\ p.page = i
      BY <1>1, <2>2, <2>4
    <3>2. 0 \in u
      BY <2>1, <2>2, <2>4
    <3> QED BY <1>2, <2>1, <2>2, <2>4, <3>1, <3>2
  <2> QED BY <1>6, <2>3, <2>4
<1> QED BY <1>3, <1>5, <1>6

-----------------------------------------------------------------------------
(* What a loop makes of its start, round by round.                         *)

(* The states of memory map_pages goes through.                            *)
LEMMA MapPagesLoop ==
  ASSUME NEW p, NEW w, NEW count \in Nat
  PROVE  \E f : /\ f[0] = p
                /\ \A k \in 1 .. count : f[k] = map_page(f[k - 1], w + k - 1, Take(f[k - 1].m))
                /\ map_pages(p, w, count) = f[count]
<1> DEFINE start == p
           Step(k, q) == map_page(q, w + k - 1, Take(q.m))
           Is(f, i) == f = [k \in 0 .. i |-> IF k = 0 THEN start ELSE Step(k, f[k - 1])]
           T == {i \in Nat : \E f : Is(f, i)}
<1>1. 0 \in T
  <2>1. Is([k \in 0 .. 0 |-> start], 0)
    OBVIOUS
  <2> QED BY <2>1, Zenon
<1>2. ASSUME NEW i \in Nat, i \in T PROVE i + 1 \in T
  <2>1. PICK f : Is(f, i)
    BY <1>2
  <2>2. Is([k \in 0 .. i + 1 |-> IF k <= i THEN f[k] ELSE Step(i + 1, f[i])], i + 1)
    <3> HIDE DEF Step, start
    <3> QED BY <2>1
  <2>3. i + 1 \in Nat
    OBVIOUS
  <2> HIDE DEF Is
  <2> QED BY <2>2, <2>3
<1>3. \E f : Is(f, count)
  <2> HIDE DEF Is
  <2> QED BY <1>1, <1>2, Induction
<1>4. PICK f : Is(f, count) /\ map_pages(p, w, count) = f[count]
  BY <1>3, Zenon DEF map_pages, Loop
<1>5. f[0] = start /\ \A k \in 1 .. count : f[k] = Step(k, f[k - 1])
  <2> HIDE DEF Step, start
  <2> QED BY <1>4
<1> QED BY <1>4, <1>5, Zenon

(* The states load_phead goes through, a page in each round.               *)
LEMMA LoadPheadLoop ==
  ASSUME NEW m, NEW pde, NEW seg, NEW bad, rounds(seg) \in Nat
  PROVE  \E f : /\ f[0] = alloc_vpages(m, pde, first_page(seg), page_count(seg))
                /\ \A k \in 1 .. rounds(seg) : f[k] = read_page(f[k - 1], pde, seg, k, k = bad)
                /\ load_phead(m, pde, seg, bad) = f[rounds(seg)]
<1> DEFINE start == alloc_vpages(m, pde, first_page(seg), page_count(seg))
           Step(k, q) == read_page(q, pde, seg, k, k = bad)
           Is(f, i) == f = [k \in 0 .. i |-> IF k = 0 THEN start ELSE Step(k, f[k - 1])]
           T == {i \in Nat : \E f : Is(f, i)}
<1>1. 0 \in T
  <2>1. Is([k \in 0 .. 0 |-> start], 0)
    OBVIOUS
  <2> QED BY <2>1, Zenon
<1>2. ASSUME NEW i \in Nat, i \in T PROVE i + 1 \in T
  <2>1. PICK f : Is(f, i)
    BY <1>2
  <2>2. Is([k \in 0 .. i + 1 |-> IF k <= i THEN f[k] ELSE Step(i + 1, f[i])], i + 1)
    <3> HIDE DEF Step, start
    <3> QED BY <2>1
  <2>3. i + 1 \in Nat
    OBVIOUS
  <2> HIDE DEF Is
  <2> QED BY <2>2, <2>3
<1>3. \E f : Is(f, rounds(seg))
  <2> HIDE DEF Is
  <2> QED BY <1>1, <1>2, Induction
<1>4. PICK f : Is(f, rounds(seg)) /\ load_phead(m, pde, seg, bad) = f[rounds(seg)]
  BY <1>3, Zenon DEF load_phead, Loop
<1>5. f[0] = start /\ \A k \in 1 .. rounds(seg) : f[k] = Step(k, f[k - 1])
  <2> HIDE DEF Step, start
  <2> QED BY <1>4
<1> QED BY <1>4, <1>5, Zenon

(* The states load_elf_file goes through, a program header in each round.  *)
LEMMA LoadElfLoop ==
  ASSUME NEW m, NEW pde, NEW segs, NEW fault, Len(segs) \in Nat
  PROVE  \E f : /\ f[0] = [m |-> m, err |-> FALSE, why |-> {}, at |-> 1]
                /\ \A k \in 1 .. Len(segs) : f[k] = load_header(f[k - 1], pde, segs, fault)
                /\ load_elf_file(m, pde, segs, fault) = f[Len(segs)]
<1> DEFINE start == [m |-> m, err |-> FALSE, why |-> {}, at |-> 1]
           Step(k, q) == load_header(q, pde, segs, fault)
           Is(f, i) == f = [k \in 0 .. i |-> IF k = 0 THEN start ELSE Step(k, f[k - 1])]
           T == {i \in Nat : \E f : Is(f, i)}
<1>1. 0 \in T
  <2>1. Is([k \in 0 .. 0 |-> start], 0)
    OBVIOUS
  <2> QED BY <2>1, Zenon
<1>2. ASSUME NEW i \in Nat, i \in T PROVE i + 1 \in T
  <2>1. PICK f : Is(f, i)
    BY <1>2
  <2>2. Is([k \in 0 .. i + 1 |-> IF k <= i THEN f[k] ELSE Step(i + 1, f[i])], i + 1)
    <3> HIDE DEF Step, start
    <3> QED BY <2>1
  <2>3. i + 1 \in Nat
    OBVIOUS
  <2> HIDE DEF Is
  <2> QED BY <2>2, <2>3
<1>3. \E f : Is(f, Len(segs))
  <2> HIDE DEF Is
  <2> QED BY <1>1, <1>2, Induction
<1>4. PICK f : Is(f, Len(segs)) /\ load_elf_file(m, pde, segs, fault) = f[Len(segs)]
  BY <1>3, Zenon DEF load_elf_file, Loop
<1>5. f[0] = start /\ \A k \in 1 .. Len(segs) : f[k] = Step(k, f[k - 1])
  <2> HIDE DEF Step, start
  <2> QED BY <1>4
<1> QED BY <1>4, <1>5, Zenon

(* The states copy_memory goes through, a page of the parent in each round.*)
LEMMA CopyMemoryLoop ==
  ASSUME NEW m, NEW pde, NEW ppde, NEW n \in Nat, n = Entries * (Entries - 1)
  PROVE  \E f : /\ f[0] = [m |-> m, err |-> FALSE, why |-> {}]
                /\ \A k \in 1 .. n : f[k] = copy_round(f[k - 1], pde, ppde, Entries + k - 1)
                /\ copy_memory(m, pde, ppde) = f[n]
<1> DEFINE start == [m |-> m, err |-> FALSE, why |-> {}]
           Step(k, q) == copy_round(q, pde, ppde, Entries + k - 1)
           Is(f, i) == f = [k \in 0 .. i |-> IF k = 0 THEN start ELSE Step(k, f[k - 1])]
           T == {i \in Nat : \E f : Is(f, i)}
<1>1. 0 \in T
  <2>1. Is([k \in 0 .. 0 |-> start], 0)
    OBVIOUS
  <2> QED BY <2>1, Zenon
<1>2. ASSUME NEW i \in Nat, i \in T PROVE i + 1 \in T
  <2>1. PICK f : Is(f, i)
    BY <1>2
  <2>2. Is([k \in 0 .. i + 1 |-> IF k <= i THEN f[k] ELSE Step(i + 1, f[i])], i + 1)
    <3> HIDE DEF Step, start
    <3> QED BY <2>1
  <2>3. i + 1 \in Nat
    OBVIOUS
  <2> HIDE DEF Is
  <2> QED BY <2>2, <2>3
<1>3. \E f : Is(f, n)
  <2> HIDE DEF Is
  <2> QED BY <1>1, <1>2, Induction
<1>4. PICK f : Is(f, n) /\ copy_memory(m, pde, ppde) = f[n]
  BY <1>3, Zenon DEF copy_memory, Loop
<1>5. f[0] = start /\ \A k \in 1 .. n : f[k] = Step(k, f[k - 1])
  <2> HIDE DEF Step, start
  <2> QED BY <1>4
<1> QED BY <1>4, <1>5, Zenon

(* The states destroy_pde goes through, a table in each round.             *)
LEMMA DestroyLoop ==
  ASSUME NEW m, NEW pde, NEW n \in Nat, n = Entries - 1
  PROVE  \E f : /\ f[0] = m
                /\ \A k \in 1 .. n : f[k] = destroy_table(f[k - 1], pde, k)
                /\ destroy_pde(m, pde) = [f[n] EXCEPT !.used = free_pages(@, pde, 1)]
<1> DEFINE start == m
           Step(k, q) == destroy_table(q, pde, k)
           Is(f, i) == f = [k \in 0 .. i |-> IF k = 0 THEN start ELSE Step(k, f[k - 1])]
           T == {i \in Nat : \E f : Is(f, i)}
<1>1. 0 \in T
  <2>1. Is([k \in 0 .. 0 |-> start], 0)
    OBVIOUS
  <2> QED BY <2>1, Zenon
<1>2. ASSUME NEW i \in Nat, i \in T PROVE i + 1 \in T
  <2>1. PICK f : Is(f, i)
    BY <1>2
  <2>2. Is([k \in 0 .. i + 1 |-> IF k <= i THEN f[k] ELSE Step(i + 1, f[i])], i + 1)
    <3> HIDE DEF Step, start
    <3> QED BY <2>1
  <2>3. i + 1 \in Nat
    OBVIOUS
  <2> HIDE DEF Is
  <2> QED BY <2>2, <2>3
<1>3. \E f : Is(f, n)
  <2> HIDE DEF Is
  <2> QED BY <1>1, <1>2, Induction
<1>4. PICK f : Is(f, n) /\ destroy_pde(m, pde) = [f[n] EXCEPT !.used = free_pages(@, pde, 1)]
  BY <1>3, Zenon DEF destroy_pde, Loop
<1>5. f[0] = start /\ \A k \in 1 .. n : f[k] = Step(k, f[k - 1])
  <2> HIDE DEF Step, start
  <2> QED BY <1>4
<1> QED BY <1>4, <1>5, Zenon

-----------------------------------------------------------------------------
(* The types of what the operators return.                                 *)

Whys == {"stale", "overrun", "astray"}
Work == [m : State, err : BOOLEAN, why : SUBSET Whys]
Pages == 0 .. Entries * Entries - 1
Sized == nbits \in 1 .. NFrames

(* A page of the linear address space has a slot in a directory and in a   *)
(* table.                                                                  *)
LEMMA PageSlots ==
  /\ Pages \subseteq Nat
  /\ \A v \in Pages : /\ pde_index(v) \in Slots /\ pte_index(v) \in Slots
                      /\ v = Word(pde_index(v), pte_index(v))
  /\ \A d, s \in Slots : /\ Word(d, s) \in Pages
                         /\ pde_index(Word(d, s)) = d /\ pte_index(Word(d, s)) = s
<1>0. Entries \in Nat \ {0} /\ Entries * Entries \in Nat
  BY Sizes
<1>1. ASSUME NEW v \in Pages
      PROVE  pde_index(v) \in Slots /\ pte_index(v) \in Slots /\ v = Word(pde_index(v), pte_index(v))
  <2>1. v \in Nat /\ v < Entries * Entries
    BY <1>0 DEF Pages
  <2>2. /\ v \div Entries \in Nat /\ v % Entries \in 0 .. Entries - 1
        /\ v = (v \div Entries) * Entries + (v % Entries)
    BY <1>0, <2>1, Division, Zenon
  <2>3. PICK q \in Nat : q = v \div Entries
    BY <2>2
  <2>4. q < Entries
    <3> SUFFICES ASSUME q >= Entries PROVE FALSE
      BY <1>0, <2>3
    <3>1. q * Entries >= Entries * Entries  BY <1>0, <2>3
    <3> QED BY <1>0, <2>1, <2>2, <2>3, <3>1
  <2>5. v \div Entries \in 0 .. Entries - 1
    BY <1>0, <2>3, <2>4
  <2> QED BY <2>2, <2>5, Zenon DEF Word, pde_index, pte_index, Slots
<1>2. ASSUME NEW d \in Slots, NEW s \in Slots
      PROVE  Word(d, s) \in Pages /\ pde_index(Word(d, s)) = d /\ pte_index(Word(d, s)) = s
  <2>0. d \in Nat /\ d + 1 <= Entries /\ s \in 0 .. Entries - 1
    BY <1>0 DEF Slots
  <2>1. d * Entries + s \in Nat /\ d * Entries + s < Entries * Entries
    <3>1. (d + 1) * Entries <= Entries * Entries  BY <1>0, <2>0
    <3>2. (d + 1) * Entries = d * Entries + Entries  BY <1>0, <2>0
    <3> QED BY <1>0, <2>0, <3>1, <3>2
  <2>2. (d * Entries + s) \div Entries = d /\ (d * Entries + s) % Entries = s
    BY <1>0, <2>0, Quotient, Zenon
  <2>3. d * Entries + s \in 0 .. Entries * Entries - 1
    BY <1>0, <2>0, <2>1
  <2> QED BY <2>3, <2>2, Zenon DEF Word, Pages, pde_index, pte_index
<1>3. Pages \subseteq Nat
  BY <1>0 DEF Pages
<1> QED BY <1>1, <1>2, <1>3

(* A page is taken from the bitmap; frame 0 is taken for a failure.        *)
LEMMA TakePage ==
  ASSUME Sized, NEW m \in State, NEW t, t = Take(m)
  PROVE  /\ t.used \in SUBSET Frames /\ t.page \in Frames
         /\ m.used \subseteq t.used
         /\ t.page = 0 => t.used = m.used \cup {0}
         /\ t.page = 0 /\ 0 \in m.used => 0 .. nbits - 1 \subseteq m.used
         /\ t.page # 0 => t.used = m.used \cup {t.page} /\ t.page \notin m.used
         /\ 0 \notin m.used => t.page = 0
<1>1. m.used \in SUBSET Frames /\ nbits \in 0 .. NFrames /\ nbits > 0
  BY Sizes DEF Sized, State
<1>2. t = alloc_pages(m.used, nbits, 1)
  BY DEF Take
<1> QED BY <1>1, <1>2, AllocPage

(* new_table returns a state of memory and a frame.                        *)
LEMMA NewTableType ==
  ASSUME Sized, NEW m \in State, NEW pde \in Frames, NEW d \in Slots,
         NEW t, t = new_table(m, pde, d)
  PROVE  t.m \in State /\ t.page \in Frames /\ t.why \in SUBSET Whys
<1>1. m.mem \in Mem /\ m.mem[Word(pde, d)] \in Frames
  BY WordOf DEF State, Mem
<1> DEFINE new == Take(m)
           entered == [used |-> new.used,
                       mem |-> IF new.page = 0 THEN m.mem ELSE Put(m.mem, Word(pde, d), new.page)]
<1>2. new.used \in SUBSET Frames /\ new.page \in Frames
  BY TakePage
<1>3. Put(m.mem, Word(pde, d), new.page) \in Mem
  BY <1>1, <1>2, PutMem
<1>4. entered \in State
  BY <1>1, <1>2, <1>3 DEF State
<1>5. \A yes : Blame("stale", yes) \in SUBSET Whys
  BY DEF Blame, Whys
<1>6. \/ t = [m |-> m, page |-> m.mem[Word(pde, d)], why |-> {}]
      \/ t = [m |-> entered, page |-> new.page, why |-> Blame("stale", Content(m.mem, new.page) # Zeros)]
  BY DEF new_table
<1> HIDE DEF new, entered
<1> QED BY <1>1, <1>2, <1>4, <1>5, <1>6

(* map_page returns a state of memory.                                     *)
LEMMA MapPageType ==
  ASSUME NEW p \in Work, NEW w, NEW t, t.used \in SUBSET Frames, t.page \in Frames
  PROVE  map_page(p, w, t) \in Work
<1> DEFINE mapped == [used |-> t.used,
                      mem |-> IF t.page = 0 THEN p.m.mem ELSE Put(p.m.mem, w, t.page)]
<1>1. p.m \in State /\ p.m.mem \in Mem
  BY DEF Work, State
<1>2. Put(p.m.mem, w, t.page) \in Mem
  BY <1>1, PutMem
<1>3. mapped \in State
  BY <1>1, <1>2 DEF State
<1>4. map_page(p, w, t) = IF p.err THEN p ELSE [p EXCEPT !.m = mapped, !.err = (t.page = 0)]
  BY DEF map_page
<1> HIDE DEF mapped
<1> QED BY <1>3, <1>4 DEF Work

(* So do any number of its rounds.                                         *)
LEMMA MapPagesType ==
  ASSUME Sized, NEW p \in Work, NEW w, NEW count \in Nat
  PROVE  map_pages(p, w, count) \in Work
<1>1. PICK f : /\ f[0] = p
               /\ \A k \in 1 .. count : f[k] = map_page(f[k - 1], w + k - 1, Take(f[k - 1].m))
               /\ map_pages(p, w, count) = f[count]
  BY MapPagesLoop
<1>2. ASSUME NEW k \in 1 .. count, f[k - 1] \in Work PROVE f[k] \in Work
  <2>1. f[k - 1].m \in State
    BY <1>2 DEF Work
  <2>2. Take(f[k - 1].m).used \in SUBSET Frames /\ Take(f[k - 1].m).page \in Frames
    BY <2>1, TakePage
  <2> QED BY <1>1, <1>2, <2>2, MapPageType
<1>3. f[count] \in Work
  BY <1>1, <1>2, RoundsIn
<1> QED BY <1>1, <1>3

(* alloc_vpages returns a state of memory.                                 *)
LEMMA AllocVpagesType ==
  ASSUME Sized, NEW m \in State, NEW pde \in Frames, NEW v \in Pages, NEW count \in Nat
  PROVE  alloc_vpages(m, pde, v, count) \in Work
<1> DEFINE t == new_table(m, pde, pde_index(v))
           w == Word(t.page, pte_index(v))
           over == Blame("overrun", pte_index(v) + count > Entries)
           start == [m |-> t.m, err |-> FALSE, why |-> t.why \cup over]
<1>1. t.m \in State /\ t.page \in Frames /\ t.why \in SUBSET Whys
  BY PageSlots, NewTableType
<1>2. over \in SUBSET Whys
  BY DEF Blame, Whys
<1>3. alloc_vpages(m, pde, v, count) =
        IF t.page = 0 THEN [m |-> t.m, err |-> TRUE, why |-> {}]
        ELSE IF t.m.mem[w] # 0 THEN [m |-> t.m, err |-> FALSE, why |-> t.why]
        ELSE map_pages(start, w, count)
  BY DEF alloc_vpages
<1> HIDE DEF t, w, over
<1>4. start \in Work
  BY <1>1, <1>2 DEF Work
<1>5. map_pages(start, w, count) \in Work
  <2> HIDE DEF start
  <2> QED BY <1>4, MapPagesType
<1> HIDE DEF start
<1> QED BY <1>1, <1>3, <1>5 DEF Work

(* The words free_vpages goes over, and what is left when they are cleared.*)
FreedWords(m, pde, v, count) ==
  LET w == Word(m.mem[Word(pde, pde_index(v))], pte_index(v))
  IN  (w .. w + count) \cap Words

Cleared(m, F) ==
  [used |-> m.used \ {m.mem[w] : w \in F}, mem |-> [w \in Words |-> IF w \in F THEN 0 ELSE m.mem[w]]]

(* What is left is a state of memory.                                      *)
LEMMA ClearedType ==
  ASSUME NEW m \in State, NEW F \in SUBSET Words
  PROVE  /\ Cleared(m, F) \in State
         /\ Cleared(m, F).used = m.used \ {m.mem[w] : w \in F}
         /\ \A w \in Words : Cleared(m, F).mem[w] = IF w \in F THEN 0 ELSE m.mem[w]
BY Sizes DEF Cleared, State, Mem

(* free_vpages by cases, and its type.                                     *)
LEMMA FreeVpagesIs ==
  ASSUME NEW m \in State, NEW pde \in Frames, NEW v \in Pages, NEW count \in Nat,
         NEW table, table = m.mem[Word(pde, pde_index(v))],
         NEW rest, rest = Cleared(m, FreedWords(m, pde, v, count))
  PROVE  /\ table \in Frames
         /\ FreedWords(m, pde, v, count) \in SUBSET Words
         /\ rest \in State
         /\ free_vpages(m, pde, v, count) =
              IF table = 0 THEN m
              ELSE IF rest.mem[Word(table, 0)] # 0 THEN rest
              ELSE [used |-> rest.used \ {table}, mem |-> Put(rest.mem, Word(pde, 0), 0)]
         /\ free_vpages(m, pde, v, count) \in State
<1>1. Word(pde, pde_index(v)) \in Words /\ m.mem \in Mem
  BY WordOf, PageSlots DEF State
<1>2. table \in Frames /\ FreedWords(m, pde, v, count) \in SUBSET Words /\ DOMAIN m.mem = Words
  BY <1>1 DEF Mem, FreedWords
<1>3. rest \in State
  BY <1>2, ClearedType
<1>4. \A u \in SUBSET Frames : free_pages(u, table, 1) = u \ {table}
  <2>1. table .. table + 1 - 1 = {table}
    BY <1>2, Sizes
  <2> QED BY <2>1 DEF free_pages, bitmap_free_bits
<1>5. rest.used \in SUBSET Frames /\ rest.mem \in Mem
  BY <1>3 DEF State
<1>6. free_vpages(m, pde, v, count) =
        IF table = 0 THEN m
        ELSE IF rest.mem[Word(table, 0)] # 0 THEN rest
        ELSE [used |-> free_pages(rest.used, table, 1), mem |-> Put(rest.mem, Word(pde, 0), 0)]
  BY <1>2 DEF free_vpages, FreedWords, Cleared
<1>7. Put(rest.mem, Word(pde, 0), 0) \in Mem
  BY <1>5, PutMem, Sizes
<1>8. [used |-> rest.used \ {table}, mem |-> Put(rest.mem, Word(pde, 0), 0)] \in State
  BY <1>5, <1>7 DEF State
<1> QED BY <1>2, <1>3, <1>4, <1>5, <1>6, <1>8

(* create_pde: a frame that was free, with the kernel's entry and no other,*)
(* or no change but to the bitmap.                                         *)
LEMMA CreatePdeIs ==
  ASSUME Sized, NEW m \in State, NEW new, new = create_pde(m)
  PROVE  /\ new.m \in State /\ new.page \in Frames
         /\ new.page = Take(m).page /\ new.m.used = Take(m).used
         /\ new.page = 0 => new.m.mem = m.mem
         /\ new.page # 0 => \A w \in Words : new.m.mem[w] =
              IF FrameOf(w) # new.page THEN m.mem[w]
              ELSE IF SlotOf(w) = 0 THEN KernelTable ELSE 0
<1> DEFINE text == [Zeros EXCEPT ![0] = KernelTable]
           p == Take(m)
<1>1. text \in [Slots -> Frames] /\ \A s \in Slots : text[s] = IF s = 0 THEN KernelTable ELSE 0
  BY Sizes DEF Zeros
<1>2. p.used \in SUBSET Frames /\ p.page \in Frames /\ m.mem \in Mem
  BY TakePage DEF State
<1>3. /\ Fill(m.mem, p.page, text) \in Mem
      /\ \A w \in Words :
           Fill(m.mem, p.page, text)[w] = IF FrameOf(w) = p.page THEN text[SlotOf(w)] ELSE m.mem[w]
  <2> HIDE DEF p, text
  <2> QED BY <1>1, <1>2, FillMem
<1>4. /\ new.page = p.page /\ new.m.used = p.used
      /\ new.m = [used |-> p.used, mem |-> IF p.page = 0 THEN m.mem ELSE Fill(m.mem, p.page, text)]
  BY DEF create_pde
<1>5. \A w \in Words : SlotOf(w) \in Slots
  BY WordOf
<1> HIDE DEF text, p
<1>6. new.m \in State
  BY <1>2, <1>3, <1>4 DEF State
<1>7. p = Take(m)
  BY DEF p
<1> QED BY <1>1, <1>2, <1>3, <1>4, <1>5, <1>6, <1>7

(* What a page is mapped to is a frame.                                    *)
LEMMA PageType ==
  ASSUME NEW m \in State, NEW pde \in Frames, NEW v \in Pages
  PROVE  Page(m.mem, pde, v) \in Frames
<1>1. Word(pde, pde_index(v)) \in Words /\ m.mem \in Mem
  BY WordOf, PageSlots DEF State
<1>2. m.mem[Word(pde, pde_index(v))] \in Frames
  BY <1>1 DEF Mem
<1>3. Word(m.mem[Word(pde, pde_index(v))], pte_index(v)) \in Words
  BY <1>2, WordOf, PageSlots
<1> QED BY <1>1, <1>2, <1>3, Sizes DEF Page, Mem

(* destroy_table: the pages of the table and the table are free, its words *)
(* and its entry 0.                                                        *)
LEMMA DestroyTableIs ==
  ASSUME NEW m \in State, NEW pde \in Frames, NEW d \in Slots,
         NEW table, table = m.mem[Word(pde, d)], NEW r, r = destroy_table(m, pde, d)
  PROVE  /\ table \in Frames /\ r \in State
         /\ table = 0 => r = m
         /\ table # 0 =>
              /\ r.used = m.used \ (({m.mem[w] : w \in WordsOf(table)} \ {0}) \cup {table})
              /\ \A w \in Words :
                   r.mem[w] = IF w = Word(pde, d) \/ FrameOf(w) = table THEN 0 ELSE m.mem[w]
<1> DEFINE pages == {m.mem[w] : w \in WordsOf(table)} \ {0}
           filled == Fill(m.mem, table, Zeros)
<1>1. m.mem \in Mem /\ table \in Frames /\ m.used \in SUBSET Frames
  BY WordOf DEF State, Mem
<1>2. \A u : free_pages(u, table, 1) = u \ {table}
  <2>1. table .. table + 1 - 1 = {table}
    BY <1>1, Sizes
  <2> QED BY <2>1 DEF free_pages, bitmap_free_bits
<1>3. Zeros \in [Slots -> Frames] /\ \A s \in Slots : Zeros[s] = 0
  BY Sizes DEF Zeros
<1>4. /\ filled \in Mem
      /\ \A w \in Words : filled[w] = IF FrameOf(w) = table THEN Zeros[SlotOf(w)] ELSE m.mem[w]
  BY <1>1, <1>3, FillMem
<1>5. /\ Put(filled, Word(pde, d), 0) \in Mem
      /\ \A w \in Words :
           Put(filled, Word(pde, d), 0)[w] = IF w = Word(pde, d) THEN 0 ELSE filled[w]
  <2> HIDE DEF filled
  <2> QED BY <1>4, Sizes, PutMem
<1>6. r = IF table = 0 THEN m
          ELSE [used |-> free_pages(m.used \ pages, table, 1), mem |-> Put(filled, Word(pde, d), 0)]
  BY DEF destroy_table
<1>7. (m.used \ pages) \ {table} = m.used \ (pages \cup {table})
  OBVIOUS
<1>8. \A w \in Words : SlotOf(w) \in Slots
  BY WordOf
<1> HIDE DEF filled
<1>9. CASE table = 0
  BY <1>1, <1>6, <1>9
<1>10. CASE table # 0
  <2>1. r.used = m.used \ (pages \cup {table}) /\ r.mem = Put(filled, Word(pde, d), 0)
    BY <1>2, <1>6, <1>7, <1>10
  <2>2. r \in State
    <3>1. r = [used |-> m.used \ (pages \cup {table}), mem |-> Put(filled, Word(pde, d), 0)]
      BY <1>2, <1>6, <1>7, <1>10
    <3> HIDE DEF pages
    <3> QED BY <1>1, <1>5, <3>1 DEF State
  <2>3. \A w \in Words : r.mem[w] = IF w = Word(pde, d) \/ FrameOf(w) = table THEN 0 ELSE m.mem[w]
    BY <1>3, <1>4, <1>5, <1>8, <2>1
  <2> QED BY <1>1, <1>10, <2>1, <2>2, <2>3
<1> QED BY <1>9, <1>10

(* destroy_pde returns a state of memory.                                  *)
LEMMA DestroyPdeType ==
  ASSUME NEW m \in State, NEW pde \in Frames
  PROVE  destroy_pde(m, pde) \in State
<1> DEFINE n == Entries - 1
<1>1. n \in Nat /\ 1 .. n \subseteq Slots
  BY Sizes DEF Slots
<1>2. PICK f : /\ f[0] = m
               /\ \A k \in 1 .. n : f[k] = destroy_table(f[k - 1], pde, k)
               /\ destroy_pde(m, pde) = [f[n] EXCEPT !.used = free_pages(@, pde, 1)]
  BY <1>1, DestroyLoop
<1> HIDE DEF n
<1>3. ASSUME NEW k \in 1 .. n, f[k - 1] \in State PROVE f[k] \in State
  BY <1>1, <1>2, <1>3, DestroyTableIs
<1>4. f[n] \in State
  BY <1>1, <1>2, <1>3, RoundsIn
<1>5. free_pages(f[n].used, pde, 1) \in SUBSET Frames
  BY <1>4 DEF State, free_pages, bitmap_free_bits
<1> QED BY <1>2, <1>4, <1>5 DEF State

Segment(seg) ==
  /\ seg.memsz \in Nat \ {0} /\ seg.filesz \in 0 .. seg.memsz
  /\ seg.text \in Texts
  /\ seg.vaddr \in Nat /\ seg.vaddr >= Entries * Entries
  /\ seg.vaddr + seg.memsz <= (Entries * Entries - StackPages) * Entries

(* The pages of a segment lie in the linear address space, between the     *)
(* kernel's part and the stack.                                            *)
LEMMA SegmentPages ==
  ASSUME NEW seg, Segment(seg)
  PROVE  /\ page_count(seg) \in Nat \ {0} /\ rounds(seg) \in Nat /\ first_page(seg) \in Pages
         /\ rounds(seg) <= page_count(seg)
         /\ Entries <= first_page(seg)
         /\ first_page(seg) + page_count(seg) <= Entries * Entries - StackPages
         /\ \A k \in 1 .. page_count(seg) : first_page(seg) + k - 1 \in Pages
         /\ seg.text \in [Slots -> Frames]
<1>1. StackPages \in Nat \ {0} /\ StackPages <= Entries /\ Texts \subseteq [Slots -> Frames]
  BY SpaceAssumption
<1>2. Entries * Entries \in Nat /\ Entries \in Nat \ {0} /\ Entries <= Entries * Entries
  BY Sizes
<1> DEFINE all == Entries * Entries
           top == all - StackPages
<1>3. all \in Nat /\ top \in Nat /\ top <= all
  BY <1>1, <1>2
<1>4. /\ seg.memsz \in Nat \ {0} /\ seg.filesz \in Nat /\ seg.filesz <= seg.memsz
      /\ seg.vaddr \in Nat /\ Entries * Entries <= seg.vaddr
      /\ seg.vaddr + seg.memsz <= top * Entries
  BY DEF Segment
<1> HIDE DEF top
<1>5. first_page(seg) + page_count(seg) <= top
  BY <1>2, <1>3, <1>4, Span, Zenon DEF first_page, page_count
<1>6. /\ page_count(seg) \in Nat /\ seg.memsz <= page_count(seg) * Entries
      /\ rounds(seg) \in Nat /\ rounds(seg) * Entries < seg.filesz + Entries
  BY <1>2, <1>4, RoundUp, Zenon DEF page_count, rounds
<1>7. page_count(seg) # 0
  <2> SUFFICES ASSUME page_count(seg) = 0 PROVE FALSE
    OBVIOUS
  <2>1. seg.memsz <= 0 * Entries
    BY <1>6
  <2> QED BY <1>2, <1>4, <2>1
<1>8. first_page(seg) \in Nat /\ Entries <= first_page(seg)
  <2>1. first_page(seg) \in Nat
    BY <1>2, <1>4, Division, Zenon DEF first_page
  <2>2. Entries = (Entries * Entries) \div Entries
    <3>1. 0 \in 0 .. Entries - 1 /\ Entries * Entries + 0 = Entries * Entries
      BY <1>2
    <3>2. (Entries * Entries + 0) \div Entries = Entries
      BY <1>2, <3>1, Quotient, Zenon
    <3> QED BY <3>1, <3>2
  <2>3. (Entries * Entries) \div Entries <= seg.vaddr \div Entries
    BY <1>2, <1>4, Multiples, Zenon
  <2> QED BY <2>1, <2>2, <2>3 DEF first_page
<1>9. rounds(seg) <= page_count(seg)
  <2> DEFINE c == page_count(seg)
             r == rounds(seg)
  <2>1. c \in Nat /\ r \in Nat /\ (c + 1) * Entries = c * Entries + Entries
        /\ c * Entries \in Nat /\ r * Entries \in Nat
    BY <1>2, <1>6
  <2>2. r * Entries < (c + 1) * Entries
    BY <1>2, <1>4, <1>6, <2>1
  <2>3. r < c + 1
    <3> HIDE DEF c, r
    <3>1. c + 1 \in Nat
      BY <2>1
    <3> QED BY <1>2, <2>1, <2>2, <3>1, Multiples
  <2> HIDE DEF c, r
  <2>4. r <= c
    BY <2>1, <2>3
  <2> QED BY <2>4 DEF c, r
<1>10. seg.text \in [Slots -> Frames]
  BY <1>1 DEF Segment
<1> HIDE DEF all
<1>11. Pages = 0 .. all - 1
  BY DEF Pages, all
<1>12. /\ first_page(seg) \in Pages
       /\ \A k \in 1 .. page_count(seg) : first_page(seg) + k - 1 \in Pages
  BY <1>3, <1>5, <1>6, <1>7, <1>8, <1>11
<1> QED BY <1>5, <1>6, <1>7, <1>8, <1>9, <1>10, <1>12 DEF top, all

(* What a round of load_phead reads, and where its address lies.           *)
ReadAt(seg, k) == seg.vaddr + (k - 1) * Entries
ReadSize(seg, k) ==
  IF seg.filesz - (k - 1) * Entries > Entries THEN Entries ELSE seg.filesz - (k - 1) * Entries

(* A round reads to the page of its number, below the stack.               *)
LEMMA RoundReads ==
  ASSUME NEW seg, Segment(seg), NEW k \in 1 .. rounds(seg)
  PROVE  /\ ReadAt(seg, k) \in Nat /\ ReadAt(seg, k) \div Entries = first_page(seg) + k - 1
         /\ ReadAt(seg, k) >= Entries * Entries
         /\ ReadSize(seg, k) \in Int
         /\ ReadAt(seg, k) + ReadSize(seg, k) <= (Entries * Entries - StackPages) * Entries
<1>1. /\ Entries \in Nat \ {0} /\ Entries * Entries \in Nat /\ rounds(seg) \in Nat
      /\ seg.vaddr \in Nat /\ seg.filesz \in Nat /\ seg.filesz <= seg.memsz /\ seg.memsz \in Nat
      /\ seg.vaddr >= Entries * Entries
      /\ StackPages \in Nat
  BY Sizes, SegmentPages, SpaceAssumption DEF Segment
<1>2. k - 1 \in Nat /\ (k - 1) * Entries \in Nat
  BY <1>1
<1> DEFINE j == k - 1
<1>3. (seg.vaddr + j * Entries) \div Entries = (seg.vaddr \div Entries) + j
  <2> HIDE DEF j
  <2> QED BY <1>1, <1>2, PagesOn, Zenon DEF j
<1>4. seg.vaddr \div Entries \in Nat
  BY <1>1, Division, Zenon
<1>5. ReadAt(seg, k) \in Nat /\ ReadAt(seg, k) \div Entries = first_page(seg) + k - 1
  BY <1>1, <1>2, <1>3, <1>4 DEF ReadAt, first_page
<1> DEFINE skip == (k - 1) * Entries
           top == (Entries * Entries - StackPages) * Entries
<1>6. top \in Int /\ seg.vaddr + seg.memsz <= top /\ skip \in Nat
  BY <1>1, <1>2 DEF Segment
<1>7. /\ ReadAt(seg, k) = seg.vaddr + skip
      /\ ReadSize(seg, k) = IF seg.filesz - skip > Entries THEN Entries ELSE seg.filesz - skip
  BY DEF ReadAt, ReadSize
<1> HIDE DEF skip, top
<1>8. ReadSize(seg, k) \in Int /\ ReadAt(seg, k) + ReadSize(seg, k) <= top
  BY <1>1, <1>6, <1>7
<1>9. ReadAt(seg, k) >= Entries * Entries
  BY <1>1, <1>6, <1>7
<1> QED BY <1>5, <1>8, <1>9 DEF top

(* A round, in those terms.                                                *)
LEMMA ReadPageIs ==
  ASSUME NEW p, NEW pde, NEW seg, NEW k, NEW fails,
         NEW at, at = trans_vtop(p.m, pde, ReadAt(seg, k))
  PROVE  read_page(p, pde, seg, k, fails) =
           IF p.err THEN p
           ELSE IF at = 0 \/ fails
           THEN [m |-> free_vpages(p.m, pde, first_page(seg), page_count(seg)), err |-> TRUE,
                 why |-> p.why \cup
                           Blame("overrun", pte_index(first_page(seg)) + page_count(seg) + 1 > Entries)]
           ELSE [m |-> [used |-> p.m.used, mem |-> Read(p.m.mem, at, ReadSize(seg, k), seg.text)],
                 err |-> FALSE,
                 why |-> p.why \cup
                           Blame("astray", ~lands(p.m, pde, ReadAt(seg, k), ReadSize(seg, k)))]
BY Zenon DEF read_page, ReadAt, ReadSize

(* read_page returns a state of memory.                                    *)
LEMMA ReadPageType ==
  ASSUME NEW p \in Work, NEW pde \in Frames, NEW seg, Segment(seg),
         NEW k \in 1 .. rounds(seg), NEW fails
  PROVE  read_page(p, pde, seg, k, fails) \in Work
<1> DEFINE at == trans_vtop(p.m, pde, ReadAt(seg, k))
           freed == free_vpages(p.m, pde, first_page(seg), page_count(seg))
           over == Blame("overrun", pte_index(first_page(seg)) + page_count(seg) + 1 > Entries)
           astray == Blame("astray", ~lands(p.m, pde, ReadAt(seg, k), ReadSize(seg, k)))
           filled == Read(p.m.mem, at, ReadSize(seg, k), seg.text)
<1>1. p.m \in State /\ p.m.mem \in Mem /\ p.m.used \in SUBSET Frames
  BY DEF Work, State
<1>2. first_page(seg) \in Pages /\ page_count(seg) \in Nat /\ seg.text \in [Slots -> Frames]
  BY SegmentPages
<1>3. freed \in State
  BY <1>1, <1>2, FreeVpagesIs
<1>4. over \in SUBSET Whys /\ astray \in SUBSET Whys
  BY DEF Blame, Whys
<1>5. filled \in Mem
  BY <1>1, <1>2, ReadMem
<1>6. read_page(p, pde, seg, k, fails) =
        IF p.err THEN p
        ELSE IF at = 0 \/ fails THEN [m |-> freed, err |-> TRUE, why |-> p.why \cup over]
        ELSE [m |-> [used |-> p.m.used, mem |-> filled], err |-> FALSE, why |-> p.why \cup astray]
  BY ReadPageIs
<1> HIDE DEF at, freed, over, astray, filled
<1>7. [m |-> freed, err |-> TRUE, why |-> p.why \cup over] \in Work
  BY <1>3, <1>4 DEF Work
<1>8. [used |-> p.m.used, mem |-> filled] \in State
  BY <1>1, <1>5 DEF State
<1>9. [m |-> [used |-> p.m.used, mem |-> filled], err |-> FALSE, why |-> p.why \cup astray] \in Work
  BY <1>4, <1>8 DEF Work
<1> QED BY <1>6, <1>7, <1>9

(* load_phead returns a state of memory.                                   *)
LEMMA LoadPheadType ==
  ASSUME Sized, NEW m \in State, NEW pde \in Frames, NEW seg, Segment(seg), NEW bad
  PROVE  load_phead(m, pde, seg, bad) \in Work
<1>1. rounds(seg) \in Nat /\ page_count(seg) \in Nat /\ first_page(seg) \in Pages
  BY SegmentPages
<1>2. PICK f : /\ f[0] = alloc_vpages(m, pde, first_page(seg), page_count(seg))
               /\ \A k \in 1 .. rounds(seg) : f[k] = read_page(f[k - 1], pde, seg, k, k = bad)
               /\ load_phead(m, pde, seg, bad) = f[rounds(seg)]
  BY <1>1, LoadPheadLoop
<1>3. f[0] \in Work
  BY <1>1, <1>2, AllocVpagesType
<1>4. ASSUME NEW k \in 1 .. rounds(seg), f[k - 1] \in Work PROVE f[k] \in Work
  BY <1>2, <1>4, ReadPageType
<1> QED BY <1>1, <1>2, <1>3, <1>4, RoundsIn

ElfWork == [m : State, err : BOOLEAN, why : SUBSET Whys, at : Nat \ {0}]

Segments(segs) ==
  /\ Len(segs) \in Nat
  /\ \A i \in 1 .. Len(segs) : segs[i].loadable => Segment(segs[i])

(* A round of load_elf_file reads a header it has not gone past.           *)
LEMMA LoadHeaderType ==
  ASSUME Sized, NEW pde \in Frames, NEW segs, Segments(segs), NEW fault,
         NEW p \in ElfWork, p.at <= Len(segs), NEW r, r = load_header(p, pde, segs, fault)
  PROVE  r \in ElfWork /\ r.at <= p.at + 1
<1> DEFINE bad == IF fault[1] = p.at THEN fault[2] ELSE -1
           l == load_phead(p.m, pde, segs[p.at], bad)
           loaded == [m |-> l.m, err |-> l.err, why |-> p.why \cup l.why, at |-> p.at + 1]
<1>1. p.m \in State /\ p.at \in 1 .. Len(segs) /\ p.at \in Nat \ {0} /\ p.why \in SUBSET Whys
  BY DEF ElfWork, Segments
<1>2. r = IF p.err THEN p
          ELSE IF bad = 0 THEN [p EXCEPT !.err = TRUE]
          ELSE IF ~segs[p.at].loadable THEN p
          ELSE loaded
  BY DEF load_header
<1>3. segs[p.at].loadable => l \in Work
  <2> HIDE DEF bad
  <2> QED BY <1>1, LoadPheadType DEF Segments
<1> HIDE DEF l, bad
<1>4. segs[p.at].loadable => loaded \in ElfWork /\ loaded.at = p.at + 1
  BY <1>1, <1>3 DEF Work, ElfWork
<1>5. [p EXCEPT !.err = TRUE] \in ElfWork /\ [p EXCEPT !.err = TRUE].at = p.at
  BY DEF ElfWork
<1> HIDE DEF loaded
<1> QED BY <1>1, <1>2, <1>4, <1>5

(* load_elf_file returns a state of memory.                                *)
LEMMA LoadElfType ==
  ASSUME Sized, NEW m \in State, NEW pde \in Frames, NEW segs, Segments(segs), NEW fault
  PROVE  load_elf_file(m, pde, segs, fault) \in ElfWork
<1> DEFINE n == Len(segs)
           I == [k \in 0 .. n |-> {q \in ElfWork : q.at <= k + 1}]
<1>1. n \in Nat
  BY DEF Segments
<1>2. PICK f : /\ f[0] = [m |-> m, err |-> FALSE, why |-> {}, at |-> 1]
               /\ \A k \in 1 .. n : f[k] = load_header(f[k - 1], pde, segs, fault)
               /\ load_elf_file(m, pde, segs, fault) = f[n]
  BY <1>1, LoadElfLoop
<1>3. f[0] \in I[0]
  BY <1>1, <1>2 DEF ElfWork
<1>4. ASSUME NEW k \in 1 .. n, f[k - 1] \in I[k - 1] PROVE f[k] \in I[k]
  <2>1. k \in 0 .. n /\ k - 1 \in 0 .. n
    BY <1>1
  <2>2. f[k - 1] \in ElfWork /\ f[k - 1].at <= k
    BY <1>1, <1>4, <2>1
  <2>3. f[k] \in ElfWork /\ f[k].at <= f[k - 1].at + 1
    BY <1>1, <1>2, <2>1, <2>2, LoadHeaderType DEF ElfWork
  <2>4. f[k].at <= k + 1
    BY <2>1, <2>2, <2>3 DEF ElfWork
  <2> QED BY <2>1, <2>3, <2>4
<1>5. \A k \in 0 .. n : f[k] \in I[k]
  <2> HIDE DEF I, n
  <2> QED BY <1>1, <1>3, <1>4, Rounds
<1> QED BY <1>1, <1>2, <1>5

(* copy_table returns a state of memory.                                   *)
LEMMA CopyTableType ==
  ASSUME NEW p \in Work, NEW pde, NEW d, NEW t, t.used \in SUBSET Frames, t.page \in Frames
  PROVE  copy_table(p, pde, d, t) \in Work
<1> DEFINE w == Word(pde, d)
           m == [used |-> t.used, mem |-> IF t.page = 0 THEN p.m.mem ELSE Put(p.m.mem, w, t.page)]
           stale == Blame("stale", Content(p.m.mem, t.page) # Zeros)
<1>1. p.m.mem \in Mem
  BY DEF Work, State
<1>2. Put(p.m.mem, w, t.page) \in Mem
  <2> HIDE DEF w
  <2> QED BY <1>1, PutMem
<1>3. stale \in SUBSET Whys
  BY DEF Blame, Whys
<1>4. m \in State
  BY <1>1, <1>2 DEF State
<1>5. copy_table(p, pde, d, t) = [m |-> m, err |-> (t.page = 0), why |-> p.why \cup stale]
  BY DEF copy_table
<1> HIDE DEF m, stale
<1> QED BY <1>3, <1>4, <1>5 DEF Work

(* copy_page by cases, its page in t.                                      *)
LEMMA CopyPageIs ==
  ASSUME Sized, NEW p \in Work, NEW pde \in Frames, NEW ptable \in Frames, NEW v \in Pages,
         NEW w, w = Word(p.m.mem[Word(pde, pde_index(v))], pte_index(v)),
         NEW from, from = p.m.mem[Word(ptable, pte_index(v))],
         NEW t, t = Take(p.m), NEW r, r = copy_page(p, pde, ptable, v)
  PROVE  /\ r \in Work /\ from \in Frames
         /\ w \in Words
         /\ p.err \/ from = 0 => r = p
         /\ ~(p.err \/ from = 0) =>
              /\ r.m.used = t.used /\ r.err = (t.page = 0) /\ r.why = p.why
              /\ r.m.mem = IF t.page = 0 THEN p.m.mem
                           ELSE Fill(Put(p.m.mem, w, t.page), t.page, Content(p.m.mem, from))
<1> DEFINE filled == Fill(Put(p.m.mem, w, t.page), t.page, Content(p.m.mem, from))
           m == [used |-> t.used, mem |-> IF t.page = 0 THEN p.m.mem ELSE filled]
<1>1. p.m \in State /\ p.m.mem \in Mem
  BY DEF Work, State
<1>2. from \in Frames /\ w \in Words
  <2>1. p.m.mem[Word(pde, pde_index(v))] \in Frames
    BY <1>1, WordOf, PageSlots DEF Mem
  <2> QED BY <1>1, <2>1, WordOf, PageSlots DEF Mem
<1>3. t.used \in SUBSET Frames /\ t.page \in Frames
  BY <1>1, TakePage
<1>4. filled \in Mem
  <2>1. Put(p.m.mem, w, t.page) \in Mem
    BY <1>1, <1>3, PutMem
  <2>2. Content(p.m.mem, from) \in [Slots -> Frames]
    BY <1>1, <1>2, ContentMem
  <2> QED BY <2>1, <2>2, FillMem
<1>5. m \in State /\ m.used = t.used /\ m.mem = IF t.page = 0 THEN p.m.mem ELSE filled
  <2> HIDE DEF filled
  <2> QED BY <1>1, <1>3, <1>4 DEF State
<1>6. r = IF p.err \/ from = 0 THEN p ELSE [p EXCEPT !.m = m, !.err = (t.page = 0)]
  BY DEF copy_page
<1> HIDE DEF m
<1>7. CASE p.err \/ from = 0
  BY <1>2, <1>6, <1>7
<1>8. CASE ~(p.err \/ from = 0)
  <2>1. r.m = m /\ r.err = (t.page = 0) /\ r.why = p.why /\ r \in Work
    BY <1>5, <1>6, <1>8 DEF Work
  <2> QED BY <1>2, <1>5, <1>8, <2>1
<1> QED BY <1>7, <1>8

(* copy_round returns a state of memory.                                   *)
LEMMA CopyRoundType ==
  ASSUME Sized, NEW p \in Work, NEW pde \in Frames, NEW ppde \in Frames, NEW v \in Pages
  PROVE  copy_round(p, pde, ppde, v) \in Work
<1> DEFINE ptable == p.m.mem[Word(ppde, pde_index(v))]
           q == IF pte_index(v) # 0 THEN p ELSE copy_table(p, pde, pde_index(v), Take(p.m))
<1>1. p.m \in State /\ p.m.mem \in Mem
  BY DEF Work, State
<1>2. ptable \in Frames
  BY <1>1, WordOf, PageSlots DEF Mem
<1>3. copy_table(p, pde, pde_index(v), Take(p.m)) \in Work
  BY <1>1, TakePage, CopyTableType
<1>4. q \in Work
  BY <1>3
<1>5. copy_round(p, pde, ppde, v) = IF p.err \/ ptable = 0 THEN p ELSE copy_page(q, pde, ptable, v)
  BY DEF copy_round
<1> HIDE DEF q, ptable
<1>6. copy_page(q, pde, ptable, v) \in Work
  BY <1>2, <1>4, CopyPageIs
<1> QED BY <1>5, <1>6

(* The pages of the user's part, in the order of copy_memory's rounds.     *)
LEMMA CopyRounds ==
  /\ Entries * (Entries - 1) \in Nat
  /\ \A k \in 1 .. Entries * (Entries - 1) : Entries + k - 1 \in Pages
  /\ Entries + Entries * (Entries - 1) = Entries * Entries
<1>1. Entries \in Nat /\ Entries - 1 \in Nat /\ Entries * Entries \in Nat
  BY Sizes
<1>2. Entries * (Entries - 1) = Entries * Entries - Entries
  BY <1>1
<1>3. Entries * (Entries - 1) \in Nat
  BY <1>1
<1> QED BY <1>1, <1>2, <1>3 DEF Pages

(* copy_memory returns a state of memory.                                  *)
LEMMA CopyMemoryType ==
  ASSUME Sized, NEW m \in State, NEW pde \in Frames, NEW ppde \in Frames
  PROVE  copy_memory(m, pde, ppde) \in Work
<1> DEFINE n == Entries * (Entries - 1)
<1>1. n \in Nat
  BY CopyRounds
<1>2. PICK f : /\ f[0] = [m |-> m, err |-> FALSE, why |-> {}]
               /\ \A k \in 1 .. n : f[k] = copy_round(f[k - 1], pde, ppde, Entries + k - 1)
               /\ copy_memory(m, pde, ppde) = f[n]
  BY <1>1, CopyMemoryLoop
<1>3. f[0] \in Work
  BY <1>2 DEF Work
<1>4. \A k \in 1 .. n : Entries + k - 1 \in Pages
  BY CopyRounds
<1> HIDE DEF n
<1>5. ASSUME NEW k \in 1 .. n, f[k - 1] \in Work PROVE f[k] \in Work
  BY <1>2, <1>4, <1>5, CopyRoundType
<1> QED BY <1>1, <1>2, <1>3, <1>5, RoundsIn

-----------------------------------------------------------------------------
(* The bitmap at boot.                                                     *)

(* The frames that freed_by names for an entry of the map lie whole in it, *)
(* or in the byte of the bitmap where it ends, when it starts there too or *)
(* has no whole frame; and frame 0 is not one of them.                     *)
LEMMA FreedBy ==
  ASSUME NEW r, r.start \in Nat, r.size \in Nat, NEW f \in freed_by(r)
  PROVE  /\ f \in Nat \ {0}
         /\ r.ram
         /\ \/ f >= FreeMemStart /\ f * PAGE_SIZE >= r.start /\ (f + 1) * PAGE_SIZE <= r.start + r.size
            \/ /\ f \div ByteBits = end_frame(r) \div ByteBits
               /\ \/ f \div ByteBits = first_frame(r) \div ByteBits
                  \/ end_frame(r) < first_frame(r)
<1> DEFINE P == PAGE_SIZE
           B == ByteBits
           M == FreeMemStart
           s == first_frame(r)
           e == end_frame(r)
           top == r.start + r.size
<1>0. P \in Nat \ {0} /\ B \in Nat \ {0} /\ M \in Nat \ {0} /\ B <= M /\ top \in Nat /\ M * P \in Nat
  BY Sizes
<1>1. /\ r.ram /\ top > M * P
      /\ \/ s % B # 0 /\ f \in s .. s + (B - (s % B)) - 1
         \/ e % B # 0 /\ f \in e - (e % B) .. e - 1
         \/ f \in DivUp(s, B) * B .. (e \div B) * B - 1
  BY <1>0 DEF freed_by, bitmap_set_bits
<1>2. e = top \div P /\ s = IF r.start < M * P THEN M ELSE DivUp(r.start, P)
  BY DEF first_frame, end_frame
<1> HIDE DEF P, B, M, s, e, top
<1>3. s \in Nat /\ s >= M /\ r.start <= s * P /\ (s = M \/ s * P < r.start + P)
  <2>1. CASE r.start < M * P
    BY <1>0, <1>2, <2>1
  <2>2. CASE r.start >= M * P
    <3>0. s = DivUp(r.start, P)
      BY <1>0, <1>2, <2>2
    <3>1. s \in Nat /\ r.start <= s * P /\ s * P < r.start + P
      BY <1>0, <3>0, RoundUp, Zenon
    <3>2. M * P <= s * P
      BY <1>0, <2>2, <3>1
    <3>3. M <= s
      BY <1>0, <3>1, <3>2, Multiples
    <3> QED BY <3>1, <3>3
  <2> QED BY <1>0, <2>1, <2>2
<1>4. e \in Nat /\ e * P <= top /\ top < e * P + P
  BY <1>0, <1>2, Multiples, Division
<1>5. e >= M /\ e + 1 >= s
  <2>1. (e + 1) * P = e * P + P /\ (e + 2) * P = e * P + P + P
    BY <1>0, <1>4
  <2>2. M * P < (e + 1) * P
    BY <1>0, <1>1, <1>4, <2>1
  <2>3. M < e + 1
    BY <1>0, <1>4, <2>2, Multiples
  <2>4. CASE s = M
    BY <1>0, <1>3, <1>4, <2>3, <2>4
  <2>5. CASE s * P < r.start + P
    <3>1. s * P < (e + 2) * P
      BY <1>0, <1>3, <1>4, <2>1, <2>5 DEF top
    <3>2. s < e + 2
      BY <1>0, <1>3, <1>4, <3>1, Multiples
    <3> QED BY <1>0, <1>3, <1>4, <2>3, <3>2
  <2> QED BY <1>3, <2>4, <2>5
<1>6. ASSUME f \in Nat, s <= f, f < e
      PROVE  f >= M /\ f * P >= r.start /\ (f + 1) * P <= top
  <2>1. s * P <= f * P
    BY <1>0, <1>3, <1>6, Multiples
  <2>2. (f + 1) * P <= e * P
    BY <1>0, <1>4, <1>6, Multiples
  <2>3. f * P \in Nat /\ s * P \in Nat /\ e * P \in Nat /\ (f + 1) * P \in Nat
    BY <1>0, <1>3, <1>4, <1>6
  <2> QED BY <1>0, <1>3, <1>4, <1>6, <2>1, <2>2, <2>3
<1>7. PICK p \in Nat, a \in Nat : p = s \div B /\ a = p * B /\ a <= s /\ s < a + B /\ s % B = s - a
  <2>1. /\ s \div B \in Nat /\ (s \div B) * B <= s /\ s < (s \div B) * B + B
        /\ s % B = s - (s \div B) * B
    BY <1>0, <1>3, Multiples, Division, Zenon
  <2>2. (s \div B) * B \in Nat
    BY <1>0, <2>1
  <2> QED BY <2>1, <2>2, Zenon
<1>8. PICK q \in Nat, b \in Nat : q = e \div B /\ b = q * B /\ b <= e /\ e < b + B /\ e % B = e - b
  <2>1. /\ e \div B \in Nat /\ (e \div B) * B <= e /\ e < (e \div B) * B + B
        /\ e % B = e - (e \div B) * B
    BY <1>0, <1>4, Multiples, Division, Zenon
  <2>2. (e \div B) * B \in Nat
    BY <1>0, <2>1
  <2> QED BY <2>1, <2>2, Zenon
<1>9. ASSUME NEW x \in Nat, a <= x, x < a + B PROVE x \div B = p
  <2>1. x - a \in 0 .. B - 1
    BY <1>0, <1>9
  <2>2. p * B + (x - a) = x
    BY <1>0, <1>7
  <2>3. (p * B + (x - a)) \div B = p
    BY <1>0, <2>1, Quotient
  <2> QED BY <2>2, <2>3, Zenon
<1>10. ASSUME NEW x \in Nat, b <= x, x < b + B PROVE x \div B = q
  <2>1. x - b \in 0 .. B - 1
    BY <1>0, <1>10
  <2>2. q * B + (x - b) = x
    BY <1>0, <1>8
  <2>3. (q * B + (x - b)) \div B = q
    BY <1>0, <2>1, Quotient
  <2> QED BY <2>2, <2>3, Zenon
<1> DEFINE Goal == /\ f \in Nat \ {0}
                   /\ \/ f >= M /\ f * P >= r.start /\ (f + 1) * P <= top
                      \/ f \div B = e \div B /\ (f \div B = s \div B \/ e < s)
<1>11. ASSUME s % B # 0, f \in s .. s + (B - (s % B)) - 1 PROVE Goal
  <2>1. f \in Nat \ {0} /\ s <= f /\ f < a + B /\ a < s /\ a <= f
    BY <1>0, <1>3, <1>7, <1>11
  <2>3. f \div B = p
    BY <1>9, <2>1
  <2>4. CASE f < e
    BY <1>6, <2>1, <2>4
  <2>5. CASE f >= e
    <3>1. e \in Nat /\ a <= e /\ e < a + B
      BY <1>0, <1>3, <1>4, <1>5, <1>7, <2>1, <2>5
    <3>2. e \div B = p
      BY <3>1, <1>9
    <3> QED BY <1>7, <2>1, <2>3, <3>2
  <2> QED BY <1>4, <2>1, <2>4, <2>5
<1>12. ASSUME e % B # 0, f \in e - (e % B) .. e - 1 PROVE Goal
  <2>1. q \in Nat \ {0}
    <3> SUFFICES ASSUME q = 0 PROVE FALSE
      BY <1>8
    <3>1. b = 0
      BY <1>0, <1>8
    <3> QED BY <1>0, <1>4, <1>5, <1>8, <3>1
  <2>2. B <= b
    BY <1>0, <1>8, <2>1
  <2>3. f \in Nat \ {0} /\ f < e /\ b <= f /\ f < b + B
    BY <1>0, <1>4, <1>8, <1>12, <2>2
  <2>5. f \div B = q
    BY <1>10, <2>3
  <2>6. CASE s <= f
    BY <1>6, <2>3, <2>6
  <2>7. CASE f < s /\ s <= e
    <3>1. s \in Nat /\ b <= s /\ s < b + B
      BY <1>0, <1>3, <1>4, <1>8, <2>3, <2>7
    <3>2. s \div B = q
      BY <1>10, <3>1
    <3> QED BY <1>8, <2>3, <2>5, <3>2
  <2>8. CASE e < s
    BY <1>8, <2>3, <2>5, <2>8
  <2> QED BY <1>3, <1>4, <2>3, <2>6, <2>7, <2>8
<1>13. ASSUME f \in DivUp(s, B) * B .. (e \div B) * B - 1 PROVE Goal
  <2>1. PICK u \in Nat : u = DivUp(s, B) /\ s <= u * B
    BY <1>0, <1>3, RoundUp
  <2>2. u * B \in Nat /\ f \in u * B .. b - 1
    BY <1>0, <1>8, <1>13, <2>1
  <2>3. f \in Nat \ {0} /\ s <= f /\ f < e
    BY <1>0, <1>3, <1>4, <1>8, <2>1, <2>2
  <2> QED BY <1>6, <2>3
<1>14. Goal
  BY <1>1, <1>11, <1>12, <1>13
<1> QED BY <1>1, <1>14 DEF P, B, M, s, e, top

(* bitmap_init leaves frame 0 marked, and frames free that the search of   *)
(* the bitmap reaches: a run for the heap's first chunk, and two more.     *)
LEMMA BootBits ==
  ASSUME NEW l \in Layouts
  PROVE  /\ bitmap_init(l) \in SUBSET Frames
         /\ 0 \in bitmap_init(l)
         /\ layout_bits(l) \in 1 .. NFrames
         /\ LET free == (0 .. layout_bits(l) - 1) \ bitmap_init(l)
            IN  /\ \E f \in free : f .. f + BootHeap - 1 \subseteq free
                /\ Cardinality(free) >= BootHeap + 2
<1>1. \A i \in 1 .. Len(l) : 0 \notin freed_by(l[i])
  BY LayoutsAssumption, FreedBy
<1>2. bitmap_init(l) \in SUBSET Frames /\ 0 \in bitmap_init(l)
  BY <1>1, Sizes DEF bitmap_init
<1> DEFINE sum == FoldSeq(LAMBDA r, acc : acc + r.size, 0, l)
           n == layout_bits(l)
<1>3. sum \in 0 .. NFrames * PAGE_SIZE /\ n = DivUp(sum, PAGE_SIZE)
  BY LayoutsAssumption, Zenon DEF layout_bits
<1> DEFINE free == (0 .. n - 1) \ bitmap_init(l)
<1>4. /\ \E f \in free : f .. f + BootHeap - 1 \subseteq free
      /\ Cardinality(free) >= BootHeap + 2
  BY LayoutsAssumption, Zenon
<1>9. PICK f \in free : TRUE
  BY <1>4
<1> HIDE DEF sum, n
<1>5. PAGE_SIZE \in Nat \ {0} /\ NFrames \in Nat /\ sum \in Nat
  BY <1>3, Sizes
<1>6. n \in Nat /\ n * PAGE_SIZE < sum + PAGE_SIZE
  BY <1>3, <1>5, RoundUp
<1>7. n < NFrames + 1
  <2>1. (NFrames + 1) * PAGE_SIZE = NFrames * PAGE_SIZE + PAGE_SIZE
    BY <1>5
  <2>2. n * PAGE_SIZE < (NFrames + 1) * PAGE_SIZE
    BY <1>3, <1>5, <1>6, <2>1
  <2> QED BY <1>5, <1>6, <2>2, Multiples
<1>8. n \in 1 .. NFrames
  BY <1>5, <1>6, <1>7, <1>9
<1> QED BY <1>2, <1>4, <1>8, Zenon DEF n

-----------------------------------------------------------------------------
(* Who owns what: the directories R, their tables, what the tables map, and*)
(* S, the frames used for something else.                                  *)

DirWords(R) == {w \in Words : FrameOf(w) \in R /\ SlotOf(w) # 0}
TablesOf(mm, R) == {mm[w] : w \in DirWords(R)} \ {0}
TableWords(mm, R) == {w \in Words : FrameOf(w) \in TablesOf(mm, R)}
LinksOf(mm, R) == DirWords(R) \cup TableWords(mm, R)

Own(m, R, S) ==
  /\ 0 \in S /\ R \cap S = {} /\ R \cup S \subseteq m.used
  /\ \A w \in LinksOf(m.mem, R) : m.mem[w] # 0 => m.mem[w] \in m.used \ (R \cup S)
  /\ \A v, w \in LinksOf(m.mem, R) : v # w /\ m.mem[v] = m.mem[w] => m.mem[v] = 0
  /\ \A f \in m.used \ (R \cup S) : \E w \in LinksOf(m.mem, R) : m.mem[w] = f
  /\ \A p \in R : m.mem[Word(p, 0)] = KernelTable

(* The members of these sets, for a prover that is not to look into them.  *)
LEMMA LinksIs ==
  ASSUME NEW mm, NEW R
  PROVE  /\ \A w : w \in DirWords(R) <=> w \in Words /\ FrameOf(w) \in R /\ SlotOf(w) # 0
         /\ \A x : x \in TablesOf(mm, R) <=> x # 0 /\ \E w \in DirWords(R) : mm[w] = x
         /\ \A w : w \in TableWords(mm, R) <=> w \in Words /\ FrameOf(w) \in TablesOf(mm, R)
         /\ \A w : w \in LinksOf(mm, R) <=> w \in DirWords(R) \/ w \in TableWords(mm, R)
BY DEF DirWords, TablesOf, TableWords, LinksOf

(* The entries of the directories say which frames are tables.             *)
LEMMA SameTables ==
  ASSUME NEW mm, NEW nn, NEW R, \A w \in DirWords(R) : nn[w] = mm[w]
  PROVE  TablesOf(nn, R) = TablesOf(mm, R)
BY DEF TablesOf

(* Directories without entries have no tables.                             *)
LEMMA NoTables ==
  ASSUME NEW mm, NEW R, \A w \in DirWords(R) : mm[w] = 0
  PROVE  TablesOf(mm, R) = {} /\ LinksOf(mm, R) = DirWords(R)
<1>1. TablesOf(mm, R) = {}
  BY DEF TablesOf
<1> QED BY <1>1 DEF TableWords, LinksOf

(* A table is not a directory, nor what a table maps.                      *)
LEMMA Kinds ==
  ASSUME NEW m, NEW R, NEW S, Own(m, R, S)
  PROVE  /\ TablesOf(m.mem, R) \subseteq m.used
         /\ TablesOf(m.mem, R) \cap (R \cup S \cup {0}) = {}
         /\ \A w \in TableWords(m.mem, R) :
              m.mem[w] \notin R \cup TablesOf(m.mem, R) /\ (m.mem[w] \in S => m.mem[w] = 0)
<1> DEFINE T == TablesOf(m.mem, R)
<1>1. \A x \in T : x # 0 /\ \E w \in DirWords(R) : m.mem[w] = x
  BY LinksIs
<1>2. DirWords(R) \subseteq LinksOf(m.mem, R) /\ TableWords(m.mem, R) \subseteq LinksOf(m.mem, R)
  BY LinksIs
<1>3. \A x \in T : x \in m.used \ (R \cup S)
  BY <1>1, <1>2 DEF Own
<1>4. ASSUME NEW w \in TableWords(m.mem, R), m.mem[w] \in T PROVE FALSE
  <2>1. PICK v \in DirWords(R) : m.mem[v] = m.mem[w] /\ m.mem[v] # 0
    BY <1>1, <1>4
  <2>2. FrameOf(v) \in R /\ FrameOf(w) \in T
    BY LinksIs
  <2>3. v # w
    BY <1>3, <2>2
  <2> QED BY <1>2, <2>1, <2>3 DEF Own
<1>5. 0 \in S
  BY DEF Own
<1>6. \A w \in TableWords(m.mem, R) : m.mem[w] # 0 => m.mem[w] \in m.used \ (R \cup S)
  BY <1>2 DEF Own
<1>7. 0 \notin R
  BY DEF Own
<1> QED BY <1>1, <1>3, <1>4, <1>5, <1>6, <1>7

(* Only the words of directories and tables count.                         *)
LEMMA SameOwned ==
  ASSUME NEW m, NEW R \in SUBSET Frames, NEW S, Own(m, R, S), NEW n, n.used = m.used,
         \A w \in Words : FrameOf(w) \in R \cup TablesOf(m.mem, R) => n.mem[w] = m.mem[w]
  PROVE  /\ Own(n, R, S)
         /\ TablesOf(n.mem, R) = TablesOf(m.mem, R)
<1>1. \A w \in DirWords(R) : n.mem[w] = m.mem[w]
  BY LinksIs
<1>2. TablesOf(n.mem, R) = TablesOf(m.mem, R)
  BY <1>1, SameTables
<1>3. TableWords(n.mem, R) = TableWords(m.mem, R) /\ LinksOf(n.mem, R) = LinksOf(m.mem, R)
  BY <1>2 DEF TableWords, LinksOf
<1>4. \A w \in LinksOf(m.mem, R) : n.mem[w] = m.mem[w]
  BY <1>1, LinksIs
<1>5. ASSUME NEW p \in R PROVE n.mem[Word(p, 0)] = m.mem[Word(p, 0)]
  <2>1. Word(p, 0) \in Words /\ FrameOf(Word(p, 0)) = p
    BY WordOf, Sizes
  <2> QED BY <2>1
<1> QED BY <1>2, <1>3, <1>4, <1>5 DEF Own

(* A free frame is entered into an empty word of a table or a directory: of*)
(* a directory only if its words are 0, for it is a table then.            *)
LEMMA LinkOwned ==
  ASSUME NEW m \in State, NEW R \in SUBSET Frames, NEW S, Own(m, R, S),
         NEW w \in LinksOf(m.mem, R), m.mem[w] = 0,
         NEW x \in Frames, x \notin m.used,
         w \in DirWords(R) => \A u \in Words : FrameOf(u) = x => m.mem[u] = 0,
         NEW n, n.used = m.used \cup {x},
         \A u \in Words : n.mem[u] = IF u = w THEN x ELSE m.mem[u]
  PROVE  /\ Own(n, R, S)
         /\ TablesOf(n.mem, R) = TablesOf(m.mem, R) \cup (IF w \in DirWords(R) THEN {x} ELSE {})
<1> DEFINE T == TablesOf(m.mem, R)
           L == LinksOf(m.mem, R)
<1>1. T \subseteq m.used /\ T \cap (R \cup S \cup {0}) = {}
  BY Kinds
<1>2. 0 \in S /\ 0 \in m.used /\ R \cup S \subseteq m.used /\ R \cap S = {}
  BY DEF Own
<1>3. x # 0 /\ x \notin T /\ x \notin R \cup S
  BY <1>1, <1>2
<1>4. \A p \in R : n.mem[Word(p, 0)] = KernelTable
  <2>1. ASSUME NEW p \in R PROVE Word(p, 0) \in Words /\ Word(p, 0) # w
    <3>1. Word(p, 0) \in Words /\ FrameOf(Word(p, 0)) = p /\ SlotOf(Word(p, 0)) = 0
      BY WordOf, Sizes
    <3>2. Word(p, 0) \notin L
      BY <1>1, <3>1, LinksIs
    <3> QED BY <3>1, <3>2
  <2> QED BY <2>1 DEF Own
<1>5. CASE w \in DirWords(R)
  <2>1. TablesOf(n.mem, R) = T \cup {x}
    <3>1. \A u \in DirWords(R) : n.mem[u] = IF u = w THEN x ELSE m.mem[u]
      BY LinksIs
    <3>2. ASSUME NEW y PROVE y \in TablesOf(n.mem, R) <=> y \in T \cup {x}
      <4>1. y \in TablesOf(n.mem, R) <=> y # 0 /\ \E u \in DirWords(R) : n.mem[u] = y
        BY LinksIs
      <4>2. y \in T <=> y # 0 /\ \E u \in DirWords(R) : m.mem[u] = y
        BY LinksIs
      <4> QED BY <1>3, <1>5, <3>1, <4>1, <4>2
    <3> QED BY <3>2
  <2>2. \A u : u \in LinksOf(n.mem, R) <=> u \in L \/ (u \in Words /\ FrameOf(u) = x)
    BY <2>1, LinksIs
  <2>3. \A u \in Words : FrameOf(u) = x => u \notin L /\ n.mem[u] = 0
    BY <1>3, <1>5, LinksIs
  <2>4. \A u \in L : n.mem[u] = IF u = w THEN x ELSE m.mem[u]
    BY LinksIs
  <2>5. \A u \in LinksOf(n.mem, R) : n.mem[u] # 0 => n.mem[u] \in n.used \ (R \cup S)
    BY <1>3, <2>2, <2>3, <2>4 DEF Own
  <2>6. \A u, v \in LinksOf(n.mem, R) : u # v /\ n.mem[u] = n.mem[v] => n.mem[u] = 0
    <3>1. \A u \in L : m.mem[u] # x
      BY <1>2, <1>3 DEF Own
    <3>2. \A u, v \in L : u # v /\ n.mem[u] = n.mem[v] => n.mem[u] = 0
      BY <2>4, <3>1 DEF Own
    <3> QED BY <2>2, <2>3, <3>2
  <2>7. \A f \in n.used \ (R \cup S) : \E u \in LinksOf(n.mem, R) : n.mem[u] = f
    BY <1>2, <2>2, <2>4 DEF Own
  <2>8. R \cup S \subseteq n.used
    BY <1>2
  <2>9. Own(n, R, S)
    BY <1>2, <1>4, <2>5, <2>6, <2>7, <2>8 DEF Own
  <2> QED BY <1>5, <2>1, <2>9
<1>6. CASE w \notin DirWords(R)
  <2>1. \A u \in DirWords(R) : n.mem[u] = m.mem[u]
    BY <1>6, LinksIs
  <2>2. TablesOf(n.mem, R) = T
    BY <2>1, SameTables
  <2>3. LinksOf(n.mem, R) = L
    BY <2>2 DEF TableWords, LinksOf
  <2>4. \A u \in L : n.mem[u] = IF u = w THEN x ELSE m.mem[u]
    BY LinksIs
  <2>5. \A u \in L : m.mem[u] # x
    BY <1>2, <1>3 DEF Own
  <2>6. \A u \in L : n.mem[u] # 0 => n.mem[u] \in n.used \ (R \cup S)
    BY <1>3, <2>4 DEF Own
  <2>7. \A u, v \in L : u # v /\ n.mem[u] = n.mem[v] => n.mem[u] = 0
    BY <2>4, <2>5 DEF Own
  <2>8. \A f \in n.used \ (R \cup S) : \E u \in L : n.mem[u] = f
    BY <1>2, <2>4 DEF Own
  <2>9. Own(n, R, S)
    BY <1>2, <1>4, <2>3, <2>6, <2>7, <2>8 DEF Own
  <2> QED BY <1>6, <2>2, <2>9
<1> QED BY <1>5, <1>6

-----------------------------------------------------------------------------
(* A new directory, and one that is destroyed.                             *)

Agree(b, m) == \A w \in Words : FrameOf(w) \in b.used => m.mem[w] = b.mem[w]

(* A directory made beside what memory b holds owns nothing but itself.    *)
LEMMA NewOwned ==
  ASSUME Sized, NEW b \in State, 0 \in b.used, NEW new, new = create_pde(b), new.page # 0
  PROVE  /\ Own(new.m, {new.page}, b.used)
         /\ Agree(b, new.m)
         /\ new.page \in Frames \ b.used
         /\ \A w \in DirWords({new.page}) : new.m.mem[w] = 0
<1> DEFINE p == new.page
<1>1. /\ new.m \in State /\ p \in Frames
      /\ new.m.used = b.used \cup {p} /\ p \notin b.used
      /\ \A w \in Words : new.m.mem[w] = IF FrameOf(w) # p THEN b.mem[w]
                                         ELSE IF SlotOf(w) = 0 THEN KernelTable ELSE 0
  BY CreatePdeIs, TakePage
<1> HIDE DEF p
<1>2. \A w \in DirWords({p}) : new.m.mem[w] = 0
  BY <1>1, LinksIs
<1>3. TablesOf(new.m.mem, {p}) = {} /\ LinksOf(new.m.mem, {p}) = DirWords({p})
  BY <1>2, NoTables
<1>5. new.m.mem[Word(p, 0)] = KernelTable
  <2>1. Word(p, 0) \in Words /\ FrameOf(Word(p, 0)) = p /\ SlotOf(Word(p, 0)) = 0
    BY <1>1, WordOf, Sizes
  <2> QED BY <1>1, <2>1
<1>6. Own(new.m, {p}, b.used)
  BY <1>1, <1>2, <1>3, <1>5 DEF Own
<1>7. Agree(b, new.m)
  BY <1>1 DEF Agree
<1> QED BY <1>1, <1>2, <1>6, <1>7 DEF p

(* What holds of directory p and the frames S of the others even after a   *)
(* load was undone.                                                        *)
Weak(m, p, S) ==
  /\ p \notin S /\ 0 \in S /\ S \ {0} \subseteq m.used
  /\ \A w \in LinksOf(m.mem, {p}) : m.mem[w] # 0 => m.mem[w] \notin S \cup {p}
  /\ \A f \in m.used \ (S \cup {p}) : \E w \in LinksOf(m.mem, {p}) : m.mem[w] = f

(* It holds as long as nothing was undone.                                 *)
LEMMA OwnWeak ==
  ASSUME NEW m, NEW p, NEW S, Own(m, {p}, S)
  PROVE  Weak(m, p, S)
<1>1. m.used \ ({p} \cup S) = m.used \ (S \cup {p})
  OBVIOUS
<1> QED BY <1>1 DEF Own, Weak

(* A table is not a frame of the others, not the directory and not frame 0.*)
LEMMA WeakTables ==
  ASSUME NEW m, NEW p, NEW S, Weak(m, p, S)
  PROVE  TablesOf(m.mem, {p}) \cap (S \cup {p, 0}) = {}
<1>1. DirWords({p}) \subseteq LinksOf(m.mem, {p})
  BY LinksIs
<1> QED BY <1>1, LinksIs DEF Weak

(* It is kept when a table is destroyed, which is then no longer named.    *)
LEMMA DestroyTableWeak ==
  ASSUME NEW m \in State, NEW p \in Frames, NEW S, Weak(m, p, S), 0 \in m.used,
         NEW d \in Slots \ {0}, NEW r, r = destroy_table(m, p, d)
  PROVE  /\ r \in State /\ Weak(r, p, S) /\ 0 \in r.used
         /\ r.mem[Word(p, d)] = 0
         /\ \A w \in Words : /\ FrameOf(w) \in S => r.mem[w] = m.mem[w]
                             /\ w \in DirWords({p}) => r.mem[w] = 0 \/ r.mem[w] = m.mem[w]
<1> DEFINE table == m.mem[Word(p, d)]
           pages == {m.mem[w] : w \in WordsOf(table)} \ {0}
           T == TablesOf(m.mem, {p})
           L == LinksOf(m.mem, {p})
<1>1. /\ Word(p, d) \in DirWords({p}) /\ Word(p, d) \in Words /\ FrameOf(Word(p, d)) = p
  BY WordOf, LinksIs
<1>2. /\ table \in Frames /\ r \in State
      /\ table = 0 => r = m
      /\ table # 0 =>
           /\ r.used = m.used \ (pages \cup {table})
           /\ \A w \in Words :
                r.mem[w] = IF w = Word(p, d) \/ FrameOf(w) = table THEN 0 ELSE m.mem[w]
  BY DestroyTableIs
<1>3. CASE table = 0
  BY <1>2, <1>3
<1>4. CASE table # 0
  <2>1. table \in T /\ T \cap (S \cup {p, 0}) = {}
    <3>1. table \in T
      <4> HIDE DEF table
      <4> QED BY <1>1, <1>4, LinksIs DEF table
    <3>2. T \cap (S \cup {p, 0}) = {}
      BY WeakTables
    <3> QED BY <3>1, <3>2
  <2>2. \A w \in Words : w \in WordsOf(table) <=> FrameOf(w) = table
    BY <1>2, WordsOfFrame
  <2>3. WordsOf(table) \subseteq TableWords(m.mem, {p})
    BY <1>2, <2>1, <2>2, LinksIs, WordsOfFrame
  <2>4. \A x \in pages : x \notin S \cup {p, 0}
    <3>1. \A w \in WordsOf(table) : m.mem[w] # 0 => m.mem[w] \notin S \cup {p}
      BY <2>3, LinksIs DEF Weak
    <3> QED BY <3>1
  <2> HIDE DEF table
  <2>5. \A w \in DirWords({p}) : r.mem[w] = IF w = Word(p, d) THEN 0 ELSE m.mem[w]
    BY <1>2, <1>4, <2>1, LinksIs
  <2>6. ASSUME NEW x \in TablesOf(r.mem, {p}) PROVE x \in T
    <3>1. PICK w \in DirWords({p}) : r.mem[w] = x /\ x # 0
      BY LinksIs
    <3>2. m.mem[w] = x
      BY <2>5, <3>1
    <3> QED BY <3>1, <3>2, LinksIs
  <2>7. \A w \in LinksOf(r.mem, {p}) : w \in L /\ w \in Words
    BY <2>6, LinksIs
  <2>8. \A w \in LinksOf(r.mem, {p}) : r.mem[w] # 0 => r.mem[w] \notin S \cup {p}
    BY <1>2, <1>4, <2>7 DEF Weak
  <2>9. ASSUME NEW f \in r.used \ (S \cup {p})
        PROVE  \E w \in LinksOf(r.mem, {p}) : r.mem[w] = f
    <3>1. f \in m.used \ (S \cup {p}) /\ f # table /\ f \notin pages
      BY <1>2, <1>4, <2>9
    <3>2. PICK w \in L : m.mem[w] = f
      BY <3>1 DEF Weak
    <3>3. f # 0
      BY <2>9 DEF Weak
    <3>4. w # Word(p, d) /\ FrameOf(w) # table /\ w \in Words
      BY <2>2, <3>1, <3>2, <3>3, LinksIs DEF table
    <3>5. r.mem[w] = f
      BY <1>2, <1>4, <3>2, <3>4
    <3>6. CASE w \in DirWords({p})
      BY <3>5, <3>6, LinksIs
    <3>7. CASE w \in TableWords(m.mem, {p})
      <4>1. PICK v \in DirWords({p}) : m.mem[v] = FrameOf(w) /\ FrameOf(w) # 0
        BY <3>7, LinksIs
      <4>2. v # Word(p, d)
        BY <3>4, <4>1 DEF table
      <4>3. FrameOf(w) \in TablesOf(r.mem, {p})
        BY <2>5, <4>1, <4>2, LinksIs
      <4> QED BY <3>4, <3>5, <4>3, LinksIs
    <3> QED BY <3>2, <3>6, <3>7, LinksIs
  <2>10. S \ {0} \subseteq r.used /\ 0 \in r.used
    BY <1>2, <1>4, <2>1, <2>4 DEF Weak
  <2>11. Weak(r, p, S)
    BY <2>8, <2>9, <2>10 DEF Weak
  <2>12. \A w \in Words : FrameOf(w) \in S => r.mem[w] = m.mem[w]
    BY <1>1, <1>2, <1>4, <2>1 DEF Weak
  <2>13. r.mem[Word(p, d)] = 0
    BY <1>1, <1>2, <1>4
  <2> QED BY <1>2, <2>5, <2>10, <2>11, <2>12, <2>13
<1> QED BY <1>3, <1>4

(* destroy_pde leaves what the others had, used and untouched.             *)
LEMMA DestroyRestores ==
  ASSUME NEW m \in State, NEW p \in Frames, NEW S \in SUBSET Frames, Weak(m, p, S), 0 \in m.used,
         NEW r, r = destroy_pde(m, p)
  PROVE  /\ r \in State /\ r.used = S
         /\ \A w \in Words : FrameOf(w) \in S => r.mem[w] = m.mem[w]
<1> DEFINE n == Entries - 1
           Rest(q) == \A w \in Words : FrameOf(w) \in S => q.mem[w] = m.mem[w]
           Zero(k, q) == \A d \in 1 .. k : q.mem[Word(p, d)] = 0
           I == [k \in 0 .. n |-> {q \in State : Weak(q, p, S) /\ 0 \in q.used /\ Rest(q) /\ Zero(k, q)}]
<1>1. n \in Nat /\ 1 .. n = Slots \ {0}
  BY Sizes DEF Slots
<1>2. PICK f : /\ f[0] = m
               /\ \A k \in 1 .. n : f[k] = destroy_table(f[k - 1], p, k)
               /\ destroy_pde(m, p) = [f[n] EXCEPT !.used = free_pages(@, p, 1)]
  BY <1>1, DestroyLoop
<1> HIDE DEF n
<1>3. f[0] \in I[0]
  BY <1>1, <1>2
<1>4. ASSUME NEW k \in 1 .. n, f[k - 1] \in I[k - 1] PROVE f[k] \in I[k]
  <2> DEFINE q == f[k - 1]
  <2>1. k \in 0 .. n /\ k - 1 \in 0 .. n /\ k \in Slots \ {0}
    BY <1>1
  <2>2. q \in State /\ Weak(q, p, S) /\ 0 \in q.used /\ Rest(q) /\ Zero(k - 1, q)
    BY <1>4, <2>1
  <2>3. f[k] = destroy_table(q, p, k)
    BY <1>2
  <2> HIDE DEF q
  <2>4. /\ f[k] \in State /\ Weak(f[k], p, S) /\ 0 \in f[k].used
        /\ f[k].mem[Word(p, k)] = 0
        /\ \A w \in Words : /\ FrameOf(w) \in S => f[k].mem[w] = q.mem[w]
                            /\ w \in DirWords({p}) => f[k].mem[w] = 0 \/ f[k].mem[w] = q.mem[w]
    BY <2>1, <2>2, <2>3, DestroyTableWeak
  <2>5. Rest(f[k])
    BY <2>2, <2>4
  <2>6. ASSUME NEW d \in 1 .. k PROVE f[k].mem[Word(p, d)] = 0
    <3>1. CASE d = k
      BY <2>4, <3>1
    <3>2. CASE d # k
      <4>1. d \in 1 .. k - 1 /\ d \in Slots \ {0}
        BY <1>1, <2>1, <3>2
      <4>2. Word(p, d) \in DirWords({p})
        BY <4>1, WordOf, LinksIs
      <4>3. Word(p, d) \in Words
        BY <4>1, WordOf
      <4>4. q.mem[Word(p, d)] = 0
        BY <2>2, <4>1
      <4> QED BY <2>4, <4>2, <4>3, <4>4
    <3> QED BY <3>1, <3>2
  <2> QED BY <2>1, <2>4, <2>5, <2>6
<1>5. \A k \in 0 .. n : f[k] \in I[k]
  <2> HIDE DEF I
  <2> QED BY <1>1, <1>3, <1>4, Rounds
<1>6. /\ f[n] \in State /\ Weak(f[n], p, S) /\ 0 \in f[n].used /\ Rest(f[n])
      /\ \A d \in Slots \ {0} : f[n].mem[Word(p, d)] = 0
  BY <1>1, <1>5
<1>7. ASSUME NEW w \in DirWords({p}) PROVE f[n].mem[w] = 0
  <2>1. w \in Words /\ FrameOf(w) = p /\ SlotOf(w) # 0
    BY DEF DirWords
  <2>2. w = Word(p, SlotOf(w)) /\ SlotOf(w) \in Slots \ {0}
    BY <2>1, WordOf
  <2> QED BY <1>6, <2>2
<1>8. \A w \in LinksOf(f[n].mem, {p}) : f[n].mem[w] = 0
  BY <1>7, NoTables
<1>9. f[n].used \ {p} = S
  BY <1>6, <1>8 DEF Weak
<1>10. free_pages(f[n].used, p, 1) = f[n].used \ {p}
  <2>1. p .. p + 1 - 1 = {p}
    BY Sizes
  <2> QED BY <2>1 DEF free_pages, bitmap_free_bits
<1>11. r = [used |-> S, mem |-> f[n].mem] /\ f[n].mem \in Mem
  BY <1>2, <1>6, <1>9, <1>10 DEF State
<1> QED BY <1>6, <1>11 DEF State

-----------------------------------------------------------------------------
(* A directory joins the others, or leaves them.                           *)

(* The tables and links of two sets of directories are those of both.      *)
LEMMA LinksUnion ==
  ASSUME NEW mm, NEW R, NEW Q, NEW U, U = R \cup Q
  PROVE  /\ \A x : x \in TablesOf(mm, U) <=> x \in TablesOf(mm, R) \/ x \in TablesOf(mm, Q)
         /\ \A w : w \in LinksOf(mm, U) <=> w \in LinksOf(mm, R) \/ w \in LinksOf(mm, Q)
<1>1. DirWords(U) = DirWords(R) \cup DirWords(Q)
  BY DEF DirWords
<1>2. TablesOf(mm, U) = TablesOf(mm, R) \cup TablesOf(mm, Q)
  BY <1>1 DEF TablesOf
<1>3. TableWords(mm, U) = TableWords(mm, R) \cup TableWords(mm, Q)
  BY <1>2 DEF TableWords
<1> QED BY <1>1, <1>2, <1>3 DEF LinksOf

(* What was the others' stays theirs while directory p was built.          *)
LEMMA Combine ==
  ASSUME NEW b \in State, NEW m \in State, NEW R \in SUBSET Frames, NEW p \in Frames, NEW S,
         Own(b, R, S), Own(m, {p}, b.used), Agree(b, m)
  PROVE  Own(m, R \cup {p}, S)
<1> DEFINE L == LinksOf(b.mem, R)
           K == LinksOf(m.mem, {p})
<1>1. /\ R \cup S \subseteq b.used /\ R \cap S = {} /\ 0 \in S
      /\ p \notin b.used /\ p \in m.used /\ b.used \subseteq m.used
  BY DEF Own
<1>2. \A w \in Words : FrameOf(w) \in R \cup TablesOf(b.mem, R) => m.mem[w] = b.mem[w]
  BY <1>1, Kinds DEF Agree
<1> DEFINE n == [used |-> b.used, mem |-> m.mem]
<1>3. Own(n, R, S) /\ TablesOf(n.mem, R) = TablesOf(b.mem, R)
  <2>1. n.used = b.used /\ n.mem = m.mem
    OBVIOUS
  <2> HIDE DEF n
  <2> QED BY <1>2, <2>1, SameOwned
<1>4. LinksOf(m.mem, R) = L /\ LinksOf(m.mem, R \cup {p}) = L \cup K
  <2>1. n.mem = m.mem
    OBVIOUS
  <2>2. TablesOf(m.mem, R) = TablesOf(b.mem, R)
    BY <1>3, <2>1
  <2>3. LinksOf(m.mem, R) = L
    BY <2>2 DEF TableWords, LinksOf
  <2>4. \A w : w \in LinksOf(m.mem, R \cup {p}) <=> w \in LinksOf(m.mem, R) \/ w \in K
    BY LinksUnion
  <2> QED BY <2>3, <2>4
<1>5. /\ \A w \in L : m.mem[w] # 0 => m.mem[w] \in b.used \ (R \cup S)
      /\ \A v, w \in L : v # w /\ m.mem[v] = m.mem[w] => m.mem[v] = 0
      /\ \A f \in b.used \ (R \cup S) : \E w \in L : m.mem[w] = f
      /\ \A q \in R : m.mem[Word(q, 0)] = KernelTable
  BY <1>3, <1>4 DEF Own
<1>6. /\ \A w \in K : m.mem[w] # 0 => m.mem[w] \in m.used \ ({p} \cup b.used)
      /\ \A v, w \in K : v # w /\ m.mem[v] = m.mem[w] => m.mem[v] = 0
      /\ \A f \in m.used \ ({p} \cup b.used) : \E w \in K : m.mem[w] = f
      /\ m.mem[Word(p, 0)] = KernelTable
  BY DEF Own
<1> HIDE DEF L, K
<1>7. (R \cup {p}) \cap S = {} /\ (R \cup {p}) \cup S \subseteq m.used
  BY <1>1
<1>8. \A w \in L \cup K : m.mem[w] # 0 => m.mem[w] \in m.used \ ((R \cup {p}) \cup S)
  BY <1>1, <1>5, <1>6
<1>9. \A v, w \in L \cup K : v # w /\ m.mem[v] = m.mem[w] => m.mem[v] = 0
  BY <1>5, <1>6
<1>10. \A f \in m.used \ ((R \cup {p}) \cup S) : \E w \in L \cup K : m.mem[w] = f
  BY <1>1, <1>5, <1>6
<1>11. \A q \in R \cup {p} : m.mem[Word(q, 0)] = KernelTable
  BY <1>5, <1>6
<1> QED BY <1>1, <1>4, <1>7, <1>8, <1>9, <1>10, <1>11 DEF Own

(* What directory c leads to, and what the others have without it.         *)
Reach(m, c) == {m.mem[w] : w \in LinksOf(m.mem, {c})} \ {0}

(* Marked free, what a directory leads to leaves the others what they own. *)
LEMMA Drop ==
  ASSUME NEW m \in State, NEW R \in SUBSET Frames, NEW S, Own(m, R, S), NEW c \in R,
         NEW b, b = [used |-> m.used \ (Reach(m, c) \cup {c}), mem |-> m.mem]
  PROVE  Own(b, R \ {c}, S) /\ Weak(m, c, b.used) /\ b.used \subseteq Frames
<1> DEFINE Q == R \ {c}
           L == LinksOf(m.mem, Q)
           K == LinksOf(m.mem, {c})
           O == Reach(m, c)
<1>1. R = Q \cup {c} /\ R \cap S = {} /\ 0 \in S /\ R \cup S \subseteq m.used
  BY DEF Own
<1>2. LinksOf(m.mem, R) = L \cup K /\ TablesOf(m.mem, R) = TablesOf(m.mem, Q) \cup TablesOf(m.mem, {c})
  <2>1. \A x : x \in TablesOf(m.mem, R) <=> x \in TablesOf(m.mem, Q) \/ x \in TablesOf(m.mem, {c})
    BY <1>1, LinksUnion
  <2>2. \A w : w \in LinksOf(m.mem, R) <=> w \in L \/ w \in K
    BY <1>1, LinksUnion
  <2> QED BY <2>1, <2>2
<1>3. /\ \A w \in L \cup K : m.mem[w] # 0 => m.mem[w] \in m.used \ (R \cup S)
      /\ \A v, w \in L \cup K : v # w /\ m.mem[v] = m.mem[w] => m.mem[v] = 0
      /\ \A f \in m.used \ (R \cup S) : \E w \in L \cup K : m.mem[w] = f
      /\ \A p \in R : m.mem[Word(p, 0)] = KernelTable
  BY <1>2 DEF Own
<1>4. TablesOf(m.mem, Q) \cap TablesOf(m.mem, {c}) = {}
  <2> SUFFICES ASSUME NEW x \in TablesOf(m.mem, Q), x \in TablesOf(m.mem, {c}) PROVE FALSE
    OBVIOUS
  <2>1. PICK u \in DirWords(Q) : m.mem[u] = x /\ x # 0
    BY LinksIs
  <2>2. PICK v \in DirWords({c}) : m.mem[v] = x
    BY LinksIs
  <2>3. u \in L /\ v \in K
    BY LinksIs
  <2>4. u # v
    BY DEF DirWords
  <2> QED BY <1>3, <2>1, <2>2, <2>3, <2>4
<1>5. TablesOf(m.mem, R) \cap R = {}
  BY Kinds
<1>6. L \cap K = {}
  <2>1. DirWords(Q) \cap DirWords({c}) = {}
    BY DEF DirWords
  <2>2. DirWords(Q) \cap TableWords(m.mem, {c}) = {} /\ TableWords(m.mem, Q) \cap DirWords({c}) = {}
    BY <1>1, <1>2, <1>5 DEF DirWords, TableWords
  <2>3. TableWords(m.mem, Q) \cap TableWords(m.mem, {c}) = {}
    BY <1>4 DEF TableWords
  <2> QED BY <2>1, <2>2, <2>3 DEF LinksOf
<1>7. \A x : x \in O <=> x # 0 /\ \E w \in K : m.mem[w] = x
  BY DEF Reach
<1>8. b.used = m.used \ (O \cup {c}) /\ b.mem = m.mem
  OBVIOUS
<1> HIDE DEF L, K, O
<1>9. \A x \in O : x \in m.used \ (R \cup S)
  BY <1>3, <1>7
<1>10. \A w \in L : m.mem[w] \notin O
  BY <1>3, <1>6, <1>7
<1>11. Own(b, Q, S)
  <2>1. Q \cap S = {} /\ Q \cup S \subseteq b.used
    BY <1>1, <1>8, <1>9
  <2>2. \A w \in L : m.mem[w] # 0 => m.mem[w] \in b.used \ (Q \cup S)
    BY <1>1, <1>3, <1>8, <1>10
  <2>3. \A f \in b.used \ (Q \cup S) : \E w \in L : m.mem[w] = f
    BY <1>1, <1>3, <1>7, <1>8
  <2>4. \A v, w \in L : v # w /\ m.mem[v] = m.mem[w] => m.mem[v] = 0
    BY <1>3
  <2>5. \A p \in Q : m.mem[Word(p, 0)] = KernelTable
    BY <1>3
  <2> QED BY <1>1, <1>8, <2>1, <2>2, <2>3, <2>4, <2>5 DEF Own, L
<1>12. Weak(m, c, b.used)
  <2>1. c \notin b.used /\ 0 \in b.used /\ b.used \ {0} \subseteq m.used
    BY <1>1, <1>8, <1>9
  <2>2. \A w \in K : m.mem[w] # 0 => m.mem[w] \notin b.used \cup {c}
    BY <1>1, <1>7, <1>8, <1>9
  <2>3. \A f \in m.used \ (b.used \cup {c}) : \E w \in K : m.mem[w] = f
    BY <1>7, <1>8
  <2> QED BY <2>1, <2>2, <2>3 DEF Weak, K
<1> QED BY <1>8, <1>11, <1>12 DEF State

(* The words of the frames S are as they were.                             *)
Keeps(m, r, S) == \A w \in Words : FrameOf(w) \in S => r.mem[w] = m.mem[w]

(* A directory is destroyed: the others and what they own stay.            *)
LEMMA DestroyOwned ==
  ASSUME NEW m \in State, NEW R \in SUBSET Frames, NEW S, Own(m, R, S), NEW c \in R,
         NEW r, r = destroy_pde(m, c)
  PROVE  r \in State /\ Own(r, R \ {c}, S) /\ Keeps(m, r, S)
<1> DEFINE b == [used |-> m.used \ (Reach(m, c) \cup {c}), mem |-> m.mem]
<1>1. Own(b, R \ {c}, S) /\ Weak(m, c, b.used) /\ b.used \subseteq Frames
  BY Drop
<1>2. b.mem = m.mem
  OBVIOUS
<1> HIDE DEF b
<1>3. 0 \in m.used /\ c \in Frames
  BY DEF Own
<1>4. /\ r \in State /\ r.used = b.used
      /\ \A w \in Words : FrameOf(w) \in b.used => r.mem[w] = m.mem[w]
  BY <1>1, <1>3, DestroyRestores
<1>5. R \ {c} \subseteq b.used /\ TablesOf(b.mem, R \ {c}) \subseteq b.used /\ S \subseteq b.used
  <2>1. TablesOf(b.mem, R \ {c}) \subseteq b.used
    <3> DEFINE Q == R \ {c}
    <3> HIDE DEF Q
    <3>1. Own(b, Q, S)
      BY <1>1 DEF Q
    <3>2. TablesOf(b.mem, Q) \subseteq b.used
      BY <3>1, Kinds
    <3> QED BY <3>2 DEF Q
  <2> QED BY <1>1, <2>1 DEF Own
<1>6. Own(r, R \ {c}, S)
  BY <1>1, <1>2, <1>4, <1>5, SameOwned
<1> QED BY <1>4, <1>5, <1>6 DEF Keeps

-----------------------------------------------------------------------------
(* The pages of the user's part of directory p.                            *)

UserPages == Entries .. Entries * Entries - 1

(* A page of the user's part has an entry in the directory that is not the *)
(* kernel's.                                                               *)
LEMMA UserPage ==
  /\ UserPages \subseteq Pages
  /\ \A v \in UserPages : pde_index(v) \in Slots \ {0} /\ pte_index(v) \in Slots
  /\ \A u, v \in UserPages : pde_index(u) = pde_index(v) /\ pte_index(u) = pte_index(v) => u = v
  /\ \A d \in Slots \ {0}, s \in Slots : Word(d, s) \in UserPages
<1>0. Entries \in Nat \ {0} /\ Entries * Entries \in Nat
  BY Sizes
<1>1. UserPages \subseteq Pages
  BY <1>0 DEF UserPages, Pages
<1>2. ASSUME NEW v \in UserPages PROVE pde_index(v) # 0
  <2>1. v \in Pages /\ v >= Entries /\ v \in Nat
    BY <1>0, <1>1 DEF UserPages
  <2>2. v = pde_index(v) * Entries + pte_index(v) /\ pte_index(v) \in 0 .. Entries - 1
    BY <2>1, PageSlots DEF Word, Slots
  <2> SUFFICES ASSUME pde_index(v) = 0 PROVE FALSE
    OBVIOUS
  <2>3. v = 0 * Entries + pte_index(v)
    BY <2>2
  <2> QED BY <1>0, <2>1, <2>2, <2>3
<1>3. ASSUME NEW d \in Slots \ {0}, NEW s \in Slots PROVE Word(d, s) \in UserPages
  <2>1. d \in Nat /\ d >= 1 /\ s \in Nat /\ Word(d, s) \in Pages
    BY <1>0, PageSlots DEF Slots
  <2>2. Entries <= d * Entries
    BY <1>0, <2>1
  <2>3. d * Entries \in Nat
    BY <1>0, <2>1
  <2> QED BY <1>0, <2>1, <2>2, <2>3 DEF Word, Pages, UserPages
<1> QED BY <1>1, <1>2, <1>3, PageSlots

(* The entry of a directory names a table that no other entry names, or    *)
(* none.                                                                   *)
LEMMA TableOf ==
  ASSUME NEW m \in State, NEW p \in Frames, NEW S, Own(m, {p}, S), NEW d \in Slots \ {0}
  PROVE  /\ Word(p, d) \in DirWords({p}) /\ Word(p, d) \in Words /\ m.mem[Word(p, d)] \in Frames
         /\ m.mem[Word(p, d)] # 0 =>
              /\ m.mem[Word(p, d)] \in TablesOf(m.mem, {p}) /\ m.mem[Word(p, d)] \notin S \cup {p}
              /\ \A e \in Slots \ {0} : m.mem[Word(p, e)] = m.mem[Word(p, d)] => e = d
              /\ \A s \in Slots : Word(m.mem[Word(p, d)], s) \in TableWords(m.mem, {p})
<1> DEFINE table == m.mem[Word(p, d)]
<1>1. \A e \in Slots \ {0} :
        /\ Word(p, e) \in Words /\ FrameOf(Word(p, e)) = p /\ SlotOf(Word(p, e)) = e
  BY WordOf
<1>2. \A e \in Slots \ {0} : Word(p, e) \in DirWords({p})
  BY <1>1 DEF DirWords
<1>3. table \in Frames
  BY <1>1 DEF State, Mem
<1>4. ASSUME table # 0
      PROVE  /\ table \in TablesOf(m.mem, {p}) /\ table \notin S \cup {p}
             /\ \A e \in Slots \ {0} : m.mem[Word(p, e)] = table => e = d
             /\ \A s \in Slots : Word(table, s) \in TableWords(m.mem, {p})
  <2>1. table \in TablesOf(m.mem, {p})
    BY <1>2, <1>4 DEF TablesOf
  <2>2. table \notin S \cup {p}
    BY <2>1, Kinds
  <2>3. \A e \in Slots \ {0} : m.mem[Word(p, e)] = table => e = d
    <3>1. \A e \in Slots \ {0} : Word(p, e) \in LinksOf(m.mem, {p})
      BY <1>2 DEF LinksOf
    <3> QED BY <1>1, <1>4, <3>1 DEF Own
  <2>4. \A s \in Slots : Word(table, s) \in TableWords(m.mem, {p})
    BY <1>3, <2>1, WordOf DEF TableWords
  <2> QED BY <2>1, <2>2, <2>3, <2>4
<1> QED BY <1>1, <1>2, <1>3, <1>4

(* The frame behind a page, and what trans_vtop makes of it.               *)
LEMMA PageIs ==
  ASSUME NEW m \in State, NEW p \in Frames, NEW v \in UserPages
  PROVE  /\ m.mem[Word(p, pde_index(v))] \in Frames /\ Page(m.mem, p, v) \in Frames
         /\ Page(m.mem, p, v) = IF m.mem[Word(p, pde_index(v))] = 0 THEN 0
                                ELSE m.mem[Word(m.mem[Word(p, pde_index(v))], pte_index(v))]
         /\ \A a \in Nat : a \div Entries = v =>
              trans_vtop(m, p, a) = IF m.mem[Word(p, pde_index(v))] = 0 THEN 0
                                    ELSE Word(Page(m.mem, p, v), a % Entries)
<1> DEFINE table == m.mem[Word(p, pde_index(v))]
<1>1. v \in Pages
  BY UserPage
<1>2. table \in Frames
  BY <1>1, PageSlots, WordOf DEF State, Mem
<1>3. Page(m.mem, p, v) \in Frames
  BY <1>1, PageType
<1>4. Page(m.mem, p, v) = IF table = 0 THEN 0 ELSE m.mem[Word(table, pte_index(v))]
  BY DEF Page
<1>5. ASSUME NEW a \in Nat, a \div Entries = v
      PROVE  trans_vtop(m, p, a) = IF table = 0 THEN 0 ELSE Word(Page(m.mem, p, v), a % Entries)
  BY <1>4, <1>5 DEF trans_vtop
<1> QED BY <1>2, <1>3, <1>4, <1>5

(* A free frame is taken and word w names it; its words are 0.             *)
Linked(m, n, w, x) ==
  /\ x \in Frames /\ x \notin m.used /\ n.used = m.used \cup {x}
  /\ \A u \in Words : n.mem[u] = IF u = w THEN x ELSE m.mem[u]
Clean(m, x) == \A s \in Slots : m.mem[Word(x, s)] = 0

(* Directory p has the same tables, the same frames behind the pages of V. *)
SameDir(m, n, p) == \A e \in Slots \ {0} : n.mem[Word(p, e)] = m.mem[Word(p, e)]
SamePages(m, n, p, V) == \A u \in V : Page(n.mem, p, u) = Page(m.mem, p, u)

(* A free frame enters an empty entry of directory p, its words 0: it is a *)
(* table, and no page is mapped that was not.                              *)
LEMMA LinkTable ==
  ASSUME NEW m \in State, NEW p \in Frames, NEW S, Own(m, {p}, S),
         NEW d \in Slots \ {0}, m.mem[Word(p, d)] = 0,
         NEW x, NEW n, Linked(m, n, Word(p, d), x), Clean(m, x)
  PROVE  Own(n, {p}, S) /\ x # 0 /\ SamePages(m, n, p, UserPages)
<1>0. /\ x \in Frames /\ x \notin m.used /\ n.used = m.used \cup {x}
      /\ \A u \in Words : n.mem[u] = IF u = Word(p, d) THEN x ELSE m.mem[u]
      /\ \A s \in Slots : m.mem[Word(x, s)] = 0
  BY DEF Linked, Clean
<1>1. /\ Word(p, d) \in DirWords({p}) /\ Word(p, d) \in Words
      /\ Word(p, d) \in LinksOf(m.mem, {p})
  BY TableOf DEF LinksOf
<1>2. \A u \in Words : FrameOf(u) = x => m.mem[u] = 0
  BY <1>0, WordOf
<1>3. Own(n, {p}, S)
  BY <1>0, <1>1, <1>2, LinkOwned
<1>4. x # 0 /\ x # p
  BY <1>0 DEF Own
<1>5. \A f \in Frames, s \in Slots : Word(f, s) \in Words /\ (Word(f, s) = Word(p, d) => f = p /\ s = d)
  BY WordOf
<1>6. \A e \in Slots \ {0} : n.mem[Word(p, e)] = IF e = d THEN x ELSE m.mem[Word(p, e)]
  BY <1>0, <1>5
<1>7. ASSUME NEW v \in UserPages PROVE Page(n.mem, p, v) = Page(m.mem, p, v)
  <2> DEFINE e == pde_index(v)
             s == pte_index(v)
             table == m.mem[Word(p, e)]
  <2>1. e \in Slots \ {0} /\ s \in Slots
    BY UserPage
  <2>2. /\ Page(m.mem, p, v) = IF table = 0 THEN 0 ELSE m.mem[Word(table, s)]
        /\ Page(n.mem, p, v) = IF n.mem[Word(p, e)] = 0 THEN 0 ELSE n.mem[Word(n.mem[Word(p, e)], s)]
    BY DEF Page
  <2>3. table \in Frames /\ (table # 0 => table # p)
    <3> HIDE DEF e, s
    <3>1. table \in Frames
      BY <2>1, TableOf
    <3>2. table # 0 => table \notin S \cup {p}
      BY <2>1, TableOf
    <3> QED BY <3>1, <3>2
  <2> HIDE DEF e, s
  <2>4. CASE e = d
    BY <1>0, <1>4, <1>5, <1>6, <2>1, <2>2, <2>4
  <2>5. CASE e # d
    BY <1>0, <1>5, <1>6, <2>1, <2>2, <2>3, <2>5
  <2> QED BY <2>4, <2>5
<1> QED BY <1>3, <1>4, <1>7 DEF SamePages

(* A free frame is mapped at an empty page.                                *)
LEMMA LinkPage ==
  ASSUME NEW m \in State, NEW p \in Frames, NEW S, Own(m, {p}, S),
         NEW v \in UserPages, NEW table, table = m.mem[Word(p, pde_index(v))], table # 0,
         Page(m.mem, p, v) = 0,
         NEW x, NEW n, Linked(m, n, Word(table, pte_index(v)), x)
  PROVE  /\ Own(n, {p}, S) /\ x # 0
         /\ SameDir(m, n, p) /\ SamePages(m, n, p, UserPages \ {v})
<1> DEFINE d == pde_index(v)
           s == pte_index(v)
<1>0. /\ x \in Frames /\ x \notin m.used /\ n.used = m.used \cup {x}
      /\ \A u \in Words : n.mem[u] = IF u = Word(table, s) THEN x ELSE m.mem[u]
  BY DEF Linked
<1>1. d \in Slots \ {0} /\ s \in Slots
  BY UserPage
<1>2. /\ table \in Frames /\ table \notin S \cup {p} /\ table # 0
      /\ \A e \in Slots \ {0} : m.mem[Word(p, e)] = table => e = d
      /\ Word(table, s) \in TableWords(m.mem, {p}) /\ Word(table, s) \in Words
  <2>1. table = m.mem[Word(p, d)] /\ table # 0
    OBVIOUS
  <2> HIDE DEF d, s
  <2>2. /\ Word(p, d) \in DirWords({p}) /\ Word(p, d) \in Words /\ m.mem[Word(p, d)] \in Frames
        /\ m.mem[Word(p, d)] # 0 =>
             /\ m.mem[Word(p, d)] \in TablesOf(m.mem, {p}) /\ m.mem[Word(p, d)] \notin S \cup {p}
             /\ \A e \in Slots \ {0} : m.mem[Word(p, e)] = m.mem[Word(p, d)] => e = d
             /\ \A a \in Slots : Word(m.mem[Word(p, d)], a) \in TableWords(m.mem, {p})
    BY <1>1, TableOf, Zenon
  <2>6. Word(table, s) \in Words
    BY <1>1, <2>1, <2>2, WordOf
  <2> QED BY <1>1, <2>1, <2>2, <2>6
<1>3. m.mem[Word(table, s)] = 0 /\ Word(table, s) \in LinksOf(m.mem, {p})
  <2>1. m.mem[Word(table, s)] = 0
    BY <1>2, PageIs
  <2>2. Word(table, s) \in LinksOf(m.mem, {p})
    BY <1>2 DEF LinksOf
  <2> QED BY <2>1, <2>2
<1>4. \A f \in Frames, a \in Slots : Word(f, a) \in Words /\ (Word(f, a) = Word(table, s) => f = table /\ a = s)
  BY <1>1, <1>2, WordOf
<1>5. Word(table, s) \notin DirWords({p})
  BY <1>1, <1>2, WordOf DEF DirWords
<1>6. Own(n, {p}, S)
  BY <1>0, <1>2, <1>3, <1>5, LinkOwned
<1>7. \A e \in Slots \ {0} : n.mem[Word(p, e)] = m.mem[Word(p, e)]
  BY <1>0, <1>2, <1>4
<1>8. x # 0
  BY <1>0 DEF Own
<1>10. ASSUME NEW u \in UserPages, u # v PROVE Page(n.mem, p, u) = Page(m.mem, p, u)
  <2> DEFINE e == pde_index(u)
             a == pte_index(u)
             other == m.mem[Word(p, e)]
  <2>1. e \in Slots \ {0} /\ a \in Slots /\ ~(e = d /\ a = s)
    BY <1>10, UserPage
  <2>2. other \in Frames
    BY PageIs
  <2>3. /\ Page(m.mem, p, u) = IF other = 0 THEN 0 ELSE m.mem[Word(other, a)]
        /\ Page(n.mem, p, u) = IF other = 0 THEN 0 ELSE n.mem[Word(other, a)]
    BY <1>7, <2>1 DEF Page
  <2> HIDE DEF e, a, d, s
  <2>4. other = table /\ a = s => e = d
    BY <1>2, <2>1
  <2> HIDE DEF other
  <2>5. Word(other, a) \in Words /\ Word(other, a) # Word(table, s)
    BY <1>4, <2>1, <2>2, <2>4
  <2> QED BY <1>0, <2>3, <2>5
<1> QED BY <1>6, <1>7, <1>8, <1>10 DEF SameDir, SamePages

(* Only words of the frames F change, and those are the directory's pages. *)
Filled(m, n, F) == n.used = m.used /\ \A u \in Words : FrameOf(u) \notin F => n.mem[u] = m.mem[u]
PagesOf(m, p) == {Page(m.mem, p, v) : v \in UserPages} \ {0}

(* Pages are filled: no entry changes.                                     *)
LEMMA FillPages ==
  ASSUME NEW m \in State, NEW p \in Frames, NEW S, Own(m, {p}, S),
         NEW F, F \subseteq PagesOf(m, p), NEW n, Filled(m, n, F)
  PROVE  /\ Own(n, {p}, S) /\ F \cap S = {}
         /\ SameDir(m, n, p) /\ SamePages(m, n, p, UserPages)
<1>0. n.used = m.used /\ \A u \in Words : FrameOf(u) \notin F => n.mem[u] = m.mem[u]
  BY DEF Filled
<1> DEFINE T == TablesOf(m.mem, {p})
<1>1. ASSUME NEW f \in F PROVE f \notin S \cup {p} \cup T
  <2>0. PICK v \in UserPages : f = Page(m.mem, p, v) /\ f # 0
    BY <1>1 DEF PagesOf
  <2> DEFINE table == m.mem[Word(p, pde_index(v))]
  <2>1. pde_index(v) \in Slots \ {0} /\ pte_index(v) \in Slots
    BY UserPage
  <2>2. table # 0 /\ f = m.mem[Word(table, pte_index(v))]
    BY <2>0 DEF Page
  <2>3. Word(table, pte_index(v)) \in TableWords(m.mem, {p})
    BY <2>1, <2>2, TableOf
  <2> HIDE DEF table
  <2> QED BY <2>0, <2>2, <2>3, Kinds
<1>2. Own(n, {p}, S)
  BY <1>0, <1>1, SameOwned
<1>3. \A g \in Frames, s \in Slots : Word(g, s) \in Words /\ FrameOf(Word(g, s)) = g
  BY WordOf
<1>4. \A e \in Slots \ {0} : n.mem[Word(p, e)] = m.mem[Word(p, e)]
  BY <1>0, <1>1, <1>3
<1>5. ASSUME NEW u \in UserPages PROVE Page(n.mem, p, u) = Page(m.mem, p, u)
  <2> DEFINE e == pde_index(u)
             s == pte_index(u)
             table == m.mem[Word(p, e)]
  <2>1. e \in Slots \ {0} /\ s \in Slots
    BY UserPage
  <2>2. table # 0 => table \in T /\ table \in Frames
    BY <2>1, TableOf
  <2>3. /\ Page(m.mem, p, u) = IF table = 0 THEN 0 ELSE m.mem[Word(table, s)]
        /\ Page(n.mem, p, u) = IF table = 0 THEN 0 ELSE n.mem[Word(table, s)]
    BY <1>4, <2>1 DEF Page
  <2> HIDE DEF e, s, table
  <2> QED BY <1>0, <1>1, <1>3, <2>1, <2>2, <2>3
<1> QED BY <1>1, <1>2, <1>4, <1>5 DEF SameDir, SamePages

-----------------------------------------------------------------------------
(* Directory p is built beside what memory b holds.                        *)

Held(b, m, p) == m \in State /\ Own(m, {p}, b.used) /\ Agree(b, m)
Loose(b, m, p) == m \in State /\ Weak(m, p, b.used) /\ Agree(b, m)

(* What follows for the bitmap, and the kernel's part of the directory.    *)
LEMMA HeldFacts ==
  ASSUME NEW b, NEW m, NEW p, Held(b, m, p)
  PROVE  /\ m \in State /\ 0 \in b.used /\ 0 \in m.used /\ b.used \subseteq m.used /\ p \in m.used
         /\ p \notin b.used /\ p # 0 /\ Loose(b, m, p)
         /\ m.mem[Word(p, 0)] = KernelTable
<1>1. Weak(m, p, b.used)
  BY OwnWeak DEF Held
<1> QED BY <1>1 DEF Held, Own, Loose

(* new_table keeps it: the table is a new one, clean, or was there.        *)
LEMMA NewTableHeld ==
  ASSUME Sized, NEW b, NEW m, NEW p \in Frames, Held(b, m, p), NEW d \in Slots \ {0},
         NEW t, t = new_table(m, p, d), t.page # 0 => t.why = {}
  PROVE  /\ Held(b, t.m, p) /\ t.page \in Frames
         /\ t.page = 0 => t.m = m
         /\ t.page # 0 => t.m.mem[Word(p, d)] = t.page
         /\ SamePages(m, t.m, p, UserPages)
<1> DEFINE old == m.mem[Word(p, d)]
           new == Take(m)
           mm == IF new.page = 0 THEN m.mem ELSE Put(m.mem, Word(p, d), new.page)
           stale == Blame("stale", Content(m.mem, new.page) # Zeros)
<1>1. m \in State /\ m.mem \in Mem /\ 0 \in m.used /\ Own(m, {p}, b.used) /\ Agree(b, m)
  BY HeldFacts DEF Held, State
<1>2. \/ old # 0 /\ t = [m |-> m, page |-> old, why |-> {}]
      \/ old = 0 /\ t = [m |-> [used |-> new.used, mem |-> mm], page |-> new.page, why |-> stale]
  BY DEF new_table
<1>3. /\ new.used \in SUBSET Frames /\ new.page \in Frames
      /\ new.page = 0 => new.used = m.used \cup {0}
      /\ new.page # 0 => new.used = m.used \cup {new.page} /\ new.page \notin m.used
  BY <1>1, TakePage
<1>4. Word(p, d) \in Words /\ old \in Frames
  BY WordOf, <1>1 DEF Mem
<1>5. t.m \in State /\ t.page \in Frames
  BY <1>1, NewTableType
<1>6. CASE old # 0
  BY <1>1, <1>2, <1>4, <1>6 DEF Held, SamePages
<1>7. CASE old = 0 /\ new.page = 0
  <2>1. t.m = m /\ t.page = 0
    <3>1. t.m.used = m.used /\ t.m.mem = m.mem /\ t.page = 0
      <4>1. new.used = m.used /\ mm = m.mem
        BY <1>1, <1>3, <1>7
      <4>2. t.m.used = new.used /\ t.m.mem = mm /\ t.page = new.page
        <5> HIDE DEF new, mm, stale, old
        <5> QED BY <1>2, <1>7
      <4> QED BY <1>7, <4>1, <4>2
    <3>2. t.m = [used |-> t.m.used, mem |-> t.m.mem] /\ m = [used |-> m.used, mem |-> m.mem]
      BY <1>1, <1>5 DEF State
    <3> QED BY <3>1, <3>2, Zenon
  <2> QED BY <1>1, <2>1, Sizes DEF Held, SamePages
<1>8. CASE old = 0 /\ new.page # 0
  <2> DEFINE x == new.page
             n == t.m
  <2>1. x \in Frames /\ x \notin m.used /\ n.used = m.used \cup {x} /\ n.mem = Put(m.mem, Word(p, d), x)
        /\ t.page = x /\ stale = {}
    BY <1>2, <1>3, <1>8
  <2>2. Content(m.mem, x) = Zeros
    BY <2>1 DEF Blame
  <2> HIDE DEF x, n
  <2>3. \A s \in Slots : m.mem[Word(x, s)] = 0
    <3>1. \A s \in Slots : Content(m.mem, x)[s] = m.mem[Word(x, s)]
      BY <1>1, <2>1, ContentMem
    <3>2. \A s \in Slots : Zeros[s] = 0
      BY DEF Zeros
    <3> QED BY <2>2, <3>1, <3>2
  <2>4. \A u \in Words : n.mem[u] = IF u = Word(p, d) THEN x ELSE m.mem[u]
    BY <1>1, <2>1, PutMem
  <2>5. Own(n, {p}, b.used) /\ x # 0 /\ SamePages(m, n, p, UserPages)
    <3>1. m \in State /\ Own(m, {p}, b.used) /\ m.mem[Word(p, d)] = 0
      BY <1>1, <1>8
    <3>2. Linked(m, n, Word(p, d), x) /\ Clean(m, x)
      BY <2>1, <2>3, <2>4 DEF Linked, Clean
    <3> HIDE DEF old, new, mm, stale
    <3> QED BY <3>1, <3>2, LinkTable
  <2>6. FrameOf(Word(p, d)) = p
    BY WordOf
  <2>7. Agree(b, n)
    BY <1>1, <2>4, <2>6, HeldFacts DEF Agree
  <2> QED BY <1>4, <1>5, <2>1, <2>4, <2>5, <2>7 DEF Held, n
<1> QED BY <1>6, <1>7, <1>8

(* map_page keeps it, and changes the page it maps only.                   *)
LEMMA MapPageHeld ==
  ASSUME Sized, NEW b, NEW q \in Work, NEW p \in Frames, Held(b, q.m, p),
         NEW v \in UserPages, NEW table, table = q.m.mem[Word(p, pde_index(v))], table # 0,
         Page(q.m.mem, p, v) = 0,
         NEW r, r = map_page(q, Word(table, pte_index(v)), Take(q.m))
  PROVE  /\ Held(b, r.m, p) /\ r.why = q.why
         /\ SameDir(q.m, r.m, p) /\ SamePages(q.m, r.m, p, UserPages \ {v})
<1> DEFINE m == q.m
           t == Take(m)
           w == Word(table, pte_index(v))
           mm == IF t.page = 0 THEN m.mem ELSE Put(m.mem, w, t.page)
           n == [used |-> t.used, mem |-> mm]
<1>1. m \in State /\ m.mem \in Mem /\ 0 \in m.used /\ Own(m, {p}, b.used) /\ Agree(b, m)
  BY HeldFacts DEF Held, State
<1>2. /\ t.used \in SUBSET Frames /\ t.page \in Frames
      /\ t.page = 0 => t.used = m.used \cup {0}
      /\ t.page # 0 => t.used = m.used \cup {t.page} /\ t.page \notin m.used
  BY <1>1, TakePage
<1>3. r = IF q.err THEN q ELSE [q EXCEPT !.m = n, !.err = (t.page = 0)]
  BY DEF map_page
<1>4. r \in Work
  BY <1>2, MapPageType
<1> HIDE DEF n
<1>5. CASE q.err
  BY <1>3, <1>5 DEF SameDir, SamePages
<1>6. CASE ~q.err
  <2>1. r.m = n /\ r.why = q.why
    BY <1>3, <1>6 DEF Work
  <2>2. n.used = t.used /\ n.mem = mm /\ n \in State
    BY <1>4, <2>1 DEF n, Work
  <2>3. CASE t.page = 0
    <3>1. n.used = m.used /\ n.mem = m.mem
      BY <1>1, <1>2, <2>2, <2>3
    <3>2. Own(n, {p}, b.used) /\ Agree(b, n)
      BY <1>1, <3>1, SMTT(60) DEF Own, Agree
    <3> QED BY <2>1, <2>2, <3>1, <3>2 DEF Held, SameDir, SamePages
  <2>4. CASE t.page # 0
    <3>1. \A u \in Words : n.mem[u] = IF u = w THEN t.page ELSE m.mem[u]
      BY <1>1, <1>2, <2>2, <2>4, PutMem
    <3>2. n.used = m.used \cup {t.page} /\ t.page \in Frames /\ t.page \notin m.used
      BY <1>2, <2>2, <2>4
    <3> HIDE DEF t
    <3>3. Own(n, {p}, b.used) /\ SameDir(m, n, p) /\ SamePages(m, n, p, UserPages \ {v})
      <4>1. m \in State /\ Own(m, {p}, b.used) /\ Page(m.mem, p, v) = 0
        BY <1>1
      <4>2. table = m.mem[Word(p, pde_index(v))] /\ table # 0
        OBVIOUS
      <4>3. Linked(m, n, Word(table, pte_index(v)), t.page)
        BY <3>1, <3>2 DEF Linked
      <4> HIDE DEF m, mm, w
      <4> QED BY <4>1, <4>2, <4>3, LinkPage
    <3>4. pde_index(v) \in Slots \ {0} /\ pte_index(v) \in Slots
      BY UserPage
    <3>5. table \in Frames /\ table \notin b.used
      <4> DEFINE d == pde_index(v)
      <4> HIDE DEF d
      <4>1. /\ Word(p, d) \in DirWords({p}) /\ Word(p, d) \in Words /\ m.mem[Word(p, d)] \in Frames
            /\ m.mem[Word(p, d)] # 0 =>
                 /\ m.mem[Word(p, d)] \in TablesOf(m.mem, {p}) /\ m.mem[Word(p, d)] \notin b.used \cup {p}
                 /\ \A e \in Slots \ {0} : m.mem[Word(p, e)] = m.mem[Word(p, d)] => e = d
                 /\ \A a \in Slots : Word(m.mem[Word(p, d)], a) \in TableWords(m.mem, {p})
        BY <1>1, <3>4, TableOf, Zenon DEF d
      <4>2. table = m.mem[Word(p, d)]
        BY DEF d
      <4> QED BY <4>1, <4>2
    <3>6. FrameOf(w) = table
      BY <3>4, <3>5, WordOf
    <3>7. Agree(b, n)
      BY <1>1, <3>1, <3>5, <3>6 DEF Agree
    <3> QED BY <2>1, <2>2, <3>3, <3>7 DEF Held
  <2> QED BY <2>3, <2>4
<1> QED BY <1>5, <1>6

(* Pages that share a table follow each other in it.                       *)
LEMMA NextPages ==
  ASSUME NEW v \in UserPages, NEW k \in Nat, pte_index(v) + k < Entries
  PROVE  /\ v + k \in UserPages
         /\ pde_index(v + k) = pde_index(v) /\ pte_index(v + k) = pte_index(v) + k
         /\ \A f \in Frames : Word(f, pte_index(v)) + k = Word(f, pte_index(v) + k)
<1> DEFINE d == pde_index(v)
           s == pte_index(v)
<1>1. d \in Slots \ {0} /\ s \in Slots /\ v = Word(d, s)
  BY UserPage, PageSlots
<1>2. v = d * Entries + s /\ s + k \in Slots /\ d \in Nat /\ s \in Nat /\ d * Entries \in Nat
  BY <1>1, Sizes DEF Word, Slots
<1> HIDE DEF d, s
<1>3. v + k = Word(d, s + k)
  BY <1>2 DEF Word
<1>4. v + k \in UserPages /\ pde_index(v + k) = d /\ pte_index(v + k) = s + k
  BY <1>1, <1>2, <1>3, UserPage, PageSlots
<1>5. \A f \in Frames : Word(f, s) + k = Word(f, s + k)
  <2> SUFFICES ASSUME NEW f \in Frames PROVE Word(f, s) + k = Word(f, s + k)
    OBVIOUS
  <2>1. f * Entries \in Nat
    BY Sizes
  <2> QED BY <1>2, <2>1 DEF Word
<1> QED BY <1>4, <1>5 DEF d, s

(* map_pages blames no one that was not blamed before it.                  *)
LEMMA MapPagesWhy ==
  ASSUME Sized, NEW p \in Work, NEW w, NEW count \in Nat
  PROVE  map_pages(p, w, count).why = p.why
<1>1. PICK f : /\ f[0] = p
               /\ \A k \in 1 .. count : f[k] = map_page(f[k - 1], w + k - 1, Take(f[k - 1].m))
               /\ map_pages(p, w, count) = f[count]
  BY MapPagesLoop
<1> DEFINE S == {q \in Work : q.why = p.why}
<1>2. ASSUME NEW k \in 1 .. count, f[k - 1] \in S
      PROVE  f[k] \in S
  <2> DEFINE q == f[k - 1]
             t == Take(q.m)
  <2>1. q \in Work /\ q.why = p.why /\ q.m \in State
    BY <1>2 DEF Work
  <2>2. t.used \in SUBSET Frames /\ t.page \in Frames
    BY <2>1, TakePage
  <2>3. f[k] = map_page(q, w + k - 1, t)
    BY <1>1
  <2> HIDE DEF t
  <2>4. f[k] \in Work
    BY <2>1, <2>2, <2>3, MapPageType
  <2>5. f[k].why = q.why
    BY <2>1, <2>3 DEF map_page, Work
  <2> QED BY <2>1, <2>4, <2>5
<1> HIDE DEF S
<1>3. f[0] \in S
  BY <1>1 DEF S
<1>4. f[count] \in S
  BY <1>2, <1>3, RoundsIn
<1> QED BY <1>1, <1>4 DEF S

Unmapped(m, p, V) == \A u \in V : Page(m.mem, p, u) = 0

(* Pages of one table are mapped, the table there.                         *)
LEMMA MapPagesHeld ==
  ASSUME Sized, NEW b, NEW q \in Work, NEW p \in Frames, Held(b, q.m, p),
         NEW v \in UserPages, NEW table \in Frames \ {0}, table = q.m.mem[Word(p, pde_index(v))],
         NEW count \in Nat, pte_index(v) + count <= Entries,
         Unmapped(q.m, p, v .. v + count - 1),
         NEW r, r = map_pages(q, Word(table, pte_index(v)), count)
  PROVE  /\ Held(b, r.m, p)
         /\ SamePages(q.m, r.m, p, UserPages \ (v .. v + count - 1))
<1> DEFINE d == pde_index(v)
           w == Word(table, pte_index(v))
           Done(k, x) == /\ Held(b, x.m, p) /\ x.m.mem[Word(p, d)] = table
                         /\ SamePages(q.m, x.m, p, UserPages \ (v .. v + k - 1))
<1>1. PICK f : /\ f[0] = q
               /\ \A k \in 1 .. count : f[k] = map_page(f[k - 1], w + k - 1, Take(f[k - 1].m))
               /\ map_pages(q, w, count) = f[count]
  <2> HIDE DEF w
  <2> QED BY MapPagesLoop
<1>2. ASSUME NEW k \in 1 .. count, f[k - 1] \in Work, Done(k - 1, f[k - 1])
      PROVE  f[k] \in Work /\ Done(k, f[k])
  <2> DEFINE x == f[k - 1]
             y == f[k]
             u == v + (k - 1)
  <2>1. /\ u \in UserPages /\ pde_index(u) = d /\ pte_index(u) = pte_index(v) + (k - 1)
        /\ Word(table, pte_index(u)) = w + k - 1
        /\ u \in v .. v + count - 1 /\ u \notin v .. v + (k - 1) - 1
    <3>1. k - 1 \in Nat /\ pte_index(v) \in Nat /\ pte_index(v) + (k - 1) < Entries /\ v \in Nat
      <4>1. pte_index(v) \in Slots /\ v \in Nat
        BY UserPage, PageSlots
      <4> QED BY <4>1, Sizes DEF Slots
    <3>2. w \in Nat
      BY UserPage, WordOf
    <3>3. /\ u \in UserPages /\ pde_index(u) = d /\ pte_index(u) = pte_index(v) + (k - 1)
          /\ w + (k - 1) = Word(table, pte_index(v) + (k - 1))
      BY <3>1, NextPages
    <3>4. w + (k - 1) = w + k - 1 /\ u \in v .. v + count - 1 /\ u \notin v .. v + (k - 1) - 1
      BY <3>1, <3>2
    <3> QED BY <3>3, <3>4
  <2>2. y = map_page(x, Word(table, pte_index(u)), Take(x.m))
    BY <1>1, <2>1
  <2>3. Page(x.m.mem, p, u) = 0
    BY <1>2, <2>1 DEF Unmapped, SamePages
  <2>4. table = x.m.mem[Word(p, pde_index(u))] /\ table # 0 /\ Held(b, x.m, p)
    BY <1>2, <2>1
  <2>5. x \in Work
    BY <1>2
  <2>6. y \in Work
    <3>1. x.m \in State
      BY <2>5 DEF Work
    <3>2. Take(x.m).used \in SUBSET Frames /\ Take(x.m).page \in Frames
      BY <3>1, TakePage
    <3> QED BY <2>2, <2>5, <3>2, MapPageType
  <2> HIDE DEF x, y, u
  <2>7. /\ Held(b, y.m, p)
        /\ SameDir(x.m, y.m, p) /\ SamePages(x.m, y.m, p, UserPages \ {u})
    BY <2>1, <2>2, <2>3, <2>4, <2>5, MapPageHeld
  <2>8. y.m.mem[Word(p, d)] = table
    BY <2>1, <2>4, <2>7, UserPage DEF SameDir
  <2>9. \A a \in UserPages \ (v .. v + k - 1) : a # u /\ a \notin v .. v + (k - 1) - 1
    BY Sizes DEF UserPages, u
  <2>10. SamePages(q.m, y.m, p, UserPages \ (v .. v + k - 1))
    BY <1>2, <2>7, <2>9 DEF SamePages, x
  <2> QED BY <2>6, <2>7, <2>8, <2>10 DEF y
<1> DEFINE I == [k \in 0 .. count |-> {x \in Work : Done(k, x)}]
<1>3. f[0] \in I[0]
  BY <1>1 DEF SamePages
<1>4. ASSUME NEW k \in 1 .. count, f[k - 1] \in I[k - 1] PROVE f[k] \in I[k]
  <2>1. k \in 0 .. count /\ k - 1 \in 0 .. count
    OBVIOUS
  <2>2. f[k - 1] \in Work /\ Done(k - 1, f[k - 1])
    <3> HIDE DEF Done
    <3> QED BY <1>4, <2>1
  <2>3. f[k] \in Work /\ Done(k, f[k])
    BY <1>2, <2>2
  <2> HIDE DEF Done
  <2> QED BY <2>1, <2>3
<1> HIDE DEF I, Done
<1>5. f[count] \in I[count]
  <2>1. \A k \in 0 .. count : f[k] \in I[k]
    BY <1>3, <1>4, Rounds
  <2> QED BY <2>1
<1>6. Done(count, f[count])
  BY <1>5 DEF I
<1> QED BY <1>1, <1>6 DEF Done

(* alloc_vpages keeps it, and changes none but the pages it was asked for. *)
LEMMA AllocHeld ==
  ASSUME Sized, NEW b, NEW m, NEW p \in Frames, Held(b, m, p),
         NEW v \in UserPages, NEW count \in Nat \ {0},
         Unmapped(m, p, v + 1 .. v + count - 1),
         NEW a, a = alloc_vpages(m, p, v, count), a.why = {}
  PROVE  /\ Held(b, a.m, p)
         /\ SamePages(m, a.m, p, UserPages \ (v .. v + count - 1))
<1> DEFINE d == pde_index(v)
           t == new_table(m, p, d)
           w == Word(t.page, pte_index(v))
           q == [m |-> t.m, err |-> FALSE,
                 why |-> t.why \cup Blame("overrun", pte_index(v) + count > Entries)]
<1>1. a = IF t.page = 0 THEN [m |-> t.m, err |-> TRUE, why |-> {}]
          ELSE IF t.m.mem[w] # 0 THEN [m |-> t.m, err |-> FALSE, why |-> t.why]
          ELSE map_pages(q, w, count)
  BY DEF alloc_vpages
<1>2. d \in Slots \ {0} /\ d \in Slots /\ pte_index(v) \in Slots /\ m \in State
  BY UserPage, HeldFacts
<1>3. t.m \in State /\ t.page \in Frames /\ t.why \in SUBSET Whys
  BY <1>2, NewTableType
<1>4. ASSUME t.page # 0 => t.why = {}
      PROVE  /\ Held(b, t.m, p)
             /\ t.page # 0 => t.m.mem[Word(p, d)] = t.page
             /\ SamePages(m, t.m, p, UserPages)
  <2> HIDE DEF d
  <2> QED BY <1>2, <1>4, NewTableHeld
<1>5. CASE t.page = 0
  <2>1. a.m = t.m
    BY <1>1, <1>5
  <2> QED BY <1>4, <1>5, <2>1 DEF SamePages
<1>6. CASE t.page # 0 /\ t.m.mem[w] # 0
  <2>1. a.m = t.m /\ a.why = t.why
    BY <1>1, <1>6
  <2> QED BY <1>4, <1>6, <2>1 DEF SamePages
<1>7. CASE t.page # 0 /\ t.m.mem[w] = 0
  <2>1. a = map_pages(q, w, count)
    BY <1>1, <1>7
  <2>2. q \in Work /\ q.why = t.why \cup Blame("overrun", pte_index(v) + count > Entries) /\ q.m = t.m
    BY <1>3 DEF Work, Whys, Blame
  <2>3. q.why = {}
    <3> HIDE DEF q, w
    <3> QED BY <2>1, <2>2, MapPagesWhy
  <2>4. t.why = {} /\ ~(pte_index(v) + count > Entries)
    BY <2>2, <2>3 DEF Blame
  <2>5. pte_index(v) + count <= Entries
    <3>1. pte_index(v) \in Nat /\ Entries \in Nat
      BY <1>2, Sizes
    <3> QED BY <2>4, <3>1
  <2>6. Held(b, t.m, p) /\ t.m.mem[Word(p, d)] = t.page /\ SamePages(m, t.m, p, UserPages)
    BY <1>4, <1>7, <2>4
  <2>7. Unmapped(t.m, p, v .. v + count - 1)
    <3>1. Page(t.m.mem, p, v) = 0
      BY <1>3, <1>7, <2>6, PageIs
    <3>2. ASSUME NEW u \in v + 1 .. v + count - 1 PROVE Page(t.m.mem, p, u) = 0
      <4>1. u - v \in Nat /\ pte_index(v) + (u - v) < Entries /\ v + (u - v) = u
        <5>1. pte_index(v) \in Nat /\ Entries \in Nat /\ v \in Nat
          BY <1>2, Sizes, UserPage, PageSlots
        <5> HIDE DEF t, q, w
        <5> QED BY <2>5, <3>2, <5>1
      <4>2. u \in UserPages
        BY <4>1, NextPages
      <4> QED BY <2>6, <3>2, <4>2 DEF SamePages, Unmapped
    <3>3. \A u \in v .. v + count - 1 : u = v \/ u \in v + 1 .. v + count - 1
      BY Sizes DEF UserPages
    <3> QED BY <3>1, <3>2, <3>3 DEF Unmapped
  <2> HIDE DEF q
  <2>8. /\ Held(b, a.m, p)
        /\ SamePages(q.m, a.m, p, UserPages \ (v .. v + count - 1))
    <3>1. q \in Work /\ Held(b, q.m, p) /\ Unmapped(q.m, p, v .. v + count - 1)
      BY <2>2, <2>6, <2>7
    <3>2. t.page \in Frames \ {0} /\ t.page = q.m.mem[Word(p, pde_index(v))]
      BY <1>3, <1>7, <2>2, <2>6
    <3>3. a = map_pages(q, Word(t.page, pte_index(v)), count)
      BY <2>1
    <3> DEFINE table == t.page
    <3> HIDE DEF t, table
    <3>4. /\ table \in Frames \ {0} /\ table = q.m.mem[Word(p, pde_index(v))]
          /\ a = map_pages(q, Word(table, pte_index(v)), count)
      BY <3>2, <3>3 DEF table
    <3> QED BY <2>5, <3>1, <3>4, MapPagesHeld
  <2> QED BY <2>2, <2>6, <2>8 DEF SamePages
<1> QED BY <1>5, <1>6, <1>7

(* A range of pages is given back, with the page after it: what is left is *)
(* loose, and frame 0 is free if that page was not mapped.                 *)
LEMMA FreeLoose ==
  ASSUME NEW b, NEW m, NEW p \in Frames, Held(b, m, p),
         NEW v \in UserPages, NEW count \in Nat, pte_index(v) + count < Entries,
         m.mem[Word(p, pde_index(v))] # 0,
         NEW r, r = free_vpages(m, p, v, count)
  PROVE  /\ Loose(b, r, p)
         /\ \A u \in UserPages : Page(r.mem, p, u) \in {0, Page(m.mem, p, u)}
         /\ Page(m.mem, p, v + count) = 0 => 0 \notin r.used
<1> DEFINE d == pde_index(v)
           table == m.mem[Word(p, d)]
           F == FreedWords(m, p, v, count)
           rest == Cleared(m, F)
<1>1. m \in State /\ Own(m, {p}, b.used) /\ Agree(b, m) /\ p \notin b.used /\ 0 \in b.used
      /\ m.mem \in Mem /\ b.used \subseteq m.used
  BY HeldFacts DEF Held, State
<1>2. d \in Slots \ {0} /\ pte_index(v) \in Slots /\ v \in Pages
  BY UserPage
<1>3. /\ table \in Frames /\ table \in TablesOf(m.mem, {p}) /\ table \notin b.used \cup {p}
      /\ \A s \in Slots : Word(table, s) \in TableWords(m.mem, {p})
  <2> HIDE DEF d
  <2> QED BY <1>1, <1>2, TableOf DEF d
<1>4. /\ F \in SUBSET Words /\ rest \in State
      /\ r = IF rest.mem[Word(table, 0)] # 0 THEN rest
             ELSE [used |-> rest.used \ {table}, mem |-> Put(rest.mem, Word(p, 0), 0)]
      /\ r \in State
  BY <1>1, <1>2, <1>3, FreeVpagesIs
<1>5. \A k \in 0 .. count : /\ pte_index(v) + k \in Slots
                            /\ Word(table, pte_index(v)) + k = Word(table, pte_index(v) + k)
  <2> SUFFICES ASSUME NEW k \in 0 .. count
               PROVE  /\ pte_index(v) + k \in Slots
                      /\ Word(table, pte_index(v)) + k = Word(table, pte_index(v) + k)
    OBVIOUS
  <2>1. pte_index(v) \in Nat /\ k \in Nat /\ Entries \in Nat
    BY <1>2, Sizes DEF Slots
  <2>2. pte_index(v) + k < Entries
    BY <2>1
  <2>3. Word(table, pte_index(v)) + k = Word(table, pte_index(v) + k)
    <3> HIDE DEF table
    <3> QED BY <1>3, <2>1, <2>2, NextPages
  <2> QED BY <2>1, <2>2, <2>3 DEF Slots
<1>6. \A w \in F : FrameOf(w) = table /\ w \in TableWords(m.mem, {p})
  <2> SUFFICES ASSUME NEW w \in F PROVE FrameOf(w) = table /\ w \in TableWords(m.mem, {p})
    OBVIOUS
  <2>1. w \in Word(table, pte_index(v)) .. Word(table, pte_index(v)) + count /\ w \in Words
    BY <1>4 DEF FreedWords
  <2>2. Word(table, pte_index(v)) \in Nat
    BY <1>2, <1>3, WordOf
  <2> DEFINE k == w - Word(table, pte_index(v))
  <2>3. k \in 0 .. count /\ w = Word(table, pte_index(v)) + k
    BY <2>1, <2>2, Sizes DEF Words
  <2> HIDE DEF k
  <2>4. pte_index(v) + k \in Slots /\ w = Word(table, pte_index(v) + k)
    BY <1>5, <2>3
  <2> HIDE DEF table
  <2> QED BY <1>3, <2>4, WordOf
<1> DEFINE last == Word(table, pte_index(v) + count)
<1>7. last \in F
  <2>1. Word(table, pte_index(v)) + count = last /\ pte_index(v) + count \in Slots
    BY <1>5
  <2>2. last \in Words /\ Word(table, pte_index(v)) \in Nat
    <3> HIDE DEF table
    <3> QED BY <1>2, <1>3, <2>1, WordOf
  <2>3. last \in Word(table, pte_index(v)) .. Word(table, pte_index(v)) + count
    BY <2>1, <2>2
  <2> QED BY <1>1, <2>2, <2>3 DEF FreedWords, Mem
<1>8. /\ rest.used = m.used \ {m.mem[w] : w \in F}
      /\ \A w \in Words : rest.mem[w] = IF w \in F THEN 0 ELSE m.mem[w]
  BY <1>1, <1>4, ClearedType
<1> HIDE DEF F, rest
<1>9. /\ r.used \subseteq m.used \ {m.mem[w] : w \in F}
      /\ \A f \in m.used : f \notin {m.mem[w] : w \in F} /\ f # table => f \in r.used
  BY <1>4, <1>8
<1>10. \A w \in Words : w # Word(p, 0) => r.mem[w] = IF w \in F THEN 0 ELSE m.mem[w]
  <2>1. rest.mem \in Mem /\ 0 \in Frames
    BY <1>4, Sizes DEF State
  <2>2. \A w \in Words : Put(rest.mem, Word(p, 0), 0)[w] = IF w = Word(p, 0) THEN 0 ELSE rest.mem[w]
    BY <2>1, PutMem
  <2> QED BY <1>4, <1>8, <2>2
<1> HIDE DEF table, last, d
<1>11. \A w \in LinksOf(m.mem, {p}) : w \in Words /\ w # Word(p, 0)
  <2>1. FrameOf(Word(p, 0)) = p /\ SlotOf(Word(p, 0)) = 0
    BY WordOf, Sizes
  <2>2. p \notin TablesOf(m.mem, {p})
    BY <1>1, Kinds
  <2> QED BY <2>1, <2>2 DEF LinksOf, DirWords, TableWords
<1>12. \A w \in DirWords({p}) : r.mem[w] = m.mem[w]
  <2>1. \A w \in DirWords({p}) : w \in LinksOf(m.mem, {p}) /\ FrameOf(w) = p
    BY DEF LinksOf, DirWords
  <2> QED BY <1>3, <1>6, <1>10, <1>11, <2>1
<1>13. LinksOf(r.mem, {p}) = LinksOf(m.mem, {p})
  <2>1. TablesOf(r.mem, {p}) = TablesOf(m.mem, {p})
    BY <1>12, SameTables
  <2> QED BY <2>1 DEF LinksOf, TableWords
<1>14. \A w \in F : m.mem[w] \notin b.used \/ m.mem[w] = 0
  BY <1>6, <1>1 DEF Own, LinksOf
<1>15. Weak(r, p, b.used)
  <2>1. b.used \ {0} \subseteq r.used
    BY <1>1, <1>3, <1>9, <1>14
  <2>2. \A w \in LinksOf(r.mem, {p}) : r.mem[w] # 0 => r.mem[w] \notin b.used \cup {p}
    BY <1>1, <1>10, <1>11, <1>13 DEF Own
  <2>3. \A f \in r.used \ (b.used \cup {p}) : \E w \in LinksOf(r.mem, {p}) : r.mem[w] = f
    <3> SUFFICES ASSUME NEW f \in r.used \ (b.used \cup {p})
                 PROVE  \E w \in LinksOf(m.mem, {p}) : r.mem[w] = f
      BY <1>13
    <3>1. f \in m.used \ ({p} \cup b.used) /\ f \notin {m.mem[w] : w \in F}
      BY <1>9
    <3>2. PICK w \in LinksOf(m.mem, {p}) : m.mem[w] = f
      BY <1>1, <3>1 DEF Own
    <3> QED BY <1>10, <1>11, <3>1, <3>2
  <2> QED BY <1>1, <2>1, <2>2, <2>3 DEF Weak
<1>16. Agree(b, r)
  <2>1. FrameOf(Word(p, 0)) = p
    BY WordOf, Sizes
  <2> QED BY <1>1, <1>3, <1>6, <1>10, <2>1 DEF Agree
<1>17. ASSUME NEW u \in UserPages PROVE Page(r.mem, p, u) \in {0, Page(m.mem, p, u)}
  <2> DEFINE e == pde_index(u)
             a == pte_index(u)
             other == m.mem[Word(p, e)]
  <2>1. e \in Slots \ {0} /\ a \in Slots
    BY UserPage
  <2> HIDE DEF e, a
  <2>2. /\ Word(p, e) \in DirWords({p})
        /\ other # 0 => other \in Frames /\ Word(other, a) \in TableWords(m.mem, {p})
    BY <1>1, <2>1, TableOf
  <2>3. r.mem[Word(p, e)] = other
    BY <1>12, <2>2
  <2>4. other # 0 => r.mem[Word(other, a)] \in {0, m.mem[Word(other, a)]}
    BY <1>10, <1>11, <2>2 DEF LinksOf
  <2>5. /\ Page(m.mem, p, u) = IF other = 0 THEN 0 ELSE m.mem[Word(other, a)]
        /\ Page(r.mem, p, u) = IF other = 0 THEN 0 ELSE r.mem[Word(other, a)]
    BY <2>3 DEF Page, e, a
  <2> QED BY <2>4, <2>5
<1>18. ASSUME Page(m.mem, p, v + count) = 0 PROVE 0 \notin r.used
  <2>1. v + count \in UserPages /\ pde_index(v + count) = d /\ pte_index(v + count) = pte_index(v) + count
    BY NextPages DEF d
  <2>2. m.mem[last] = 0
    BY <1>18, <2>1 DEF Page, last, table, d
  <2> QED BY <1>7, <1>9, <2>2
<1> QED BY <1>1, <1>4, <1>15, <1>16, <1>17, <1>18 DEF Loose

-----------------------------------------------------------------------------
(* A program is loaded, and its stack mapped.                              *)

StackPage == Entries * Entries - StackPages
Beyond(v) == {u \in UserPages : u >= v}

(* A load goes well, stops, or is undone; the pages from v on stay free.   *)
Loading(b, q, p, v) ==
  /\ Unmapped(q.m, p, Beyond(v))
  /\ Held(b, q.m, p) \/ (q.err /\ Loose(b, q.m, p) /\ 0 \notin q.m.used)

(* Pages of the directory are filled: no page is mapped or unmapped.       *)
LEMMA FilledHeld ==
  ASSUME NEW b, NEW m, NEW p \in Frames, Held(b, m, p),
         NEW F, F \subseteq PagesOf(m, p), NEW n \in State, Filled(m, n, F)
  PROVE  Held(b, n, p) /\ SamePages(m, n, p, UserPages)
<1>1. m \in State /\ Own(m, {p}, b.used) /\ Agree(b, m)
  BY HeldFacts DEF Held
<1>2. /\ Own(n, {p}, b.used) /\ F \cap b.used = {}
      /\ SameDir(m, n, p) /\ SamePages(m, n, p, UserPages)
  BY <1>1, FillPages
<1>3. Agree(b, n)
  BY <1>1, <1>2 DEF Agree, Filled
<1> QED BY <1>2, <1>3 DEF Held

(* A page of the directory is filled with a text.                          *)
LEMMA FillHeld ==
  ASSUME NEW b, NEW m, NEW p \in Frames, Held(b, m, p), NEW v \in UserPages,
         Page(m.mem, p, v) # 0, NEW text \in [Slots -> Frames],
         NEW n, n = [m EXCEPT !.mem = Fill(@, Page(m.mem, p, v), text)]
  PROVE  Held(b, n, p) /\ SamePages(m, n, p, UserPages)
<1> DEFINE f == Page(m.mem, p, v)
<1>1. m \in State /\ m.mem \in Mem
  BY HeldFacts DEF State
<1>2. n.used = m.used /\ n.mem = Fill(m.mem, f, text) /\ n = [used |-> n.used, mem |-> n.mem]
  BY <1>1 DEF State
<1>3. f \in PagesOf(m, p)
  BY DEF PagesOf
<1> HIDE DEF f
<1>4. n.mem \in Mem /\ \A u \in Words : FrameOf(u) # f => n.mem[u] = m.mem[u]
  BY <1>1, <1>2, FillMem
<1>5. n \in State
  BY <1>1, <1>2, <1>4 DEF State
<1>6. Filled(m, n, {f}) /\ {f} \subseteq PagesOf(m, p)
  BY <1>2, <1>3, <1>4 DEF Filled
<1> QED BY <1>5, <1>6, FilledHeld

(* A read that stays in the pages of its address is stored in pages of the *)
(* directory.                                                              *)
LEMMA ReadHeld ==
  ASSUME NEW b, NEW m, NEW p \in Frames, Held(b, m, p), NEW a \in Nat, NEW size \in Int,
         \A i \in 0 .. size - 1 : (a + i) \div Entries \in UserPages,
         lands(m, p, a, size), NEW text \in [Slots -> Frames], trans_vtop(m, p, a) \in Nat,
         NEW n, n = [used |-> m.used, mem |-> Read(m.mem, trans_vtop(m, p, a), size, text)]
  PROVE  Held(b, n, p) /\ SamePages(m, n, p, UserPages)
<1> DEFINE at == trans_vtop(m, p, a)
           F == PagesOf(m, p)
<1>1. m \in State /\ m.mem \in Mem /\ m.used \in SUBSET Frames
  BY HeldFacts DEF State
<1>2. \A i \in 0 .. size - 1 : at + i >= Entries /\ trans_vtop(m, p, a + i) = at + i
  BY DEF lands
<1>3. at \in Nat
  OBVIOUS
<1> HIDE DEF at
<1>4. n = [used |-> m.used, mem |-> Read(m.mem, at, size, text)]
  BY DEF at
<1>5. n.used = m.used /\ n.mem \in Mem /\ n \in State
      /\ \A w \in Words : w \notin at .. at + size - 1 => n.mem[w] = m.mem[w]
  BY <1>1, <1>4, ReadMem DEF State
<1>6. ASSUME NEW w \in Words, w \in at .. at + size - 1 PROVE FrameOf(w) \in F
  <2> DEFINE i == w - at
             u == (a + i) \div Entries
             table == m.mem[Word(p, pde_index(u))]
             f == Page(m.mem, p, u)
  <2>1. i \in 0 .. size - 1 /\ at + i = w /\ a + i \in Nat
    BY <1>3, <1>6
  <2> HIDE DEF i
  <2>2. u \in UserPages /\ w >= Entries /\ trans_vtop(m, p, a + i) = w
    BY <1>2, <2>1
  <2>3. f \in Frames /\ trans_vtop(m, p, a + i) = IF table = 0 THEN 0 ELSE Word(f, (a + i) % Entries)
    BY <1>1, <2>1, <2>2, PageIs
  <2>4. (a + i) % Entries \in Slots /\ Entries \in Nat \ {0}
    BY <2>1, Sizes, Division, Zenon DEF Slots
  <2> DEFINE o == (a + i) % Entries
  <2> HIDE DEF u, table, f, o
  <2>5. w = Word(f, o)
    BY <2>2, <2>3, <2>4 DEF o
  <2>6. FrameOf(w) = f
    BY <2>3, <2>4, <2>5, WordOf DEF o
  <2>7. f # 0
    <3> SUFFICES ASSUME f = 0 PROVE FALSE
      OBVIOUS
    <3>1. w = 0 * Entries + o
      BY <2>5 DEF Word
    <3> QED BY <2>2, <2>4, <3>1 DEF o, Slots
  <2> QED BY <2>2, <2>6, <2>7 DEF PagesOf, f
<1>7. Filled(m, n, F)
  BY <1>5, <1>6 DEF Filled
<1> HIDE DEF F
<1>8. F \subseteq PagesOf(m, p)
  BY DEF F
<1> QED BY <1>5, <1>7, <1>8, FilledHeld

(* The pages of a segment lie in the user's part, below the stack.         *)
LEMMA SegmentUser ==
  ASSUME NEW seg, Segment(seg)
  PROVE  /\ page_count(seg) \in Nat \ {0} /\ rounds(seg) \in Nat /\ rounds(seg) <= page_count(seg)
         /\ \A k \in 1 .. page_count(seg) : first_page(seg) + k - 1 \in UserPages
         /\ first_page(seg) \in UserPages
         /\ first_page(seg) \in Nat /\ first_page(seg) + page_count(seg) \in Nat
         /\ first_page(seg) + page_count(seg) <= StackPage
<1>1. Entries \in Nat /\ Entries * Entries \in Nat /\ StackPages \in Nat
  BY Sizes, SpaceAssumption
<1> DEFINE all == Entries * Entries
<1>2. all \in Nat /\ UserPages = Entries .. all - 1 /\ StackPage = all - StackPages
      /\ Pages = 0 .. all - 1
  BY <1>1 DEF UserPages, StackPage, Pages
<1>3. /\ page_count(seg) \in Nat \ {0} /\ rounds(seg) \in Nat /\ rounds(seg) <= page_count(seg)
      /\ first_page(seg) \in Pages /\ Entries <= first_page(seg)
      /\ first_page(seg) + page_count(seg) <= all - StackPages
  BY SegmentPages
<1> HIDE DEF all
<1> QED BY <1>1, <1>2, <1>3

(* Where a round reads is in the user's part, and goes no further.         *)
LEMMA RoundUser ==
  ASSUME NEW seg, Segment(seg), NEW k \in 1 .. rounds(seg)
  PROVE  \A i \in 0 .. ReadSize(seg, k) - 1 : (ReadAt(seg, k) + i) \div Entries \in UserPages
<1> DEFINE a == ReadAt(seg, k)
           size == ReadSize(seg, k)
           all == Entries * Entries
           top == all * Entries
<1>1. /\ a \in Nat /\ a >= all /\ size \in Int /\ a + size <= (all - StackPages) * Entries
  BY RoundReads
<1>2. all \in Nat /\ Entries \in Nat \ {0} /\ StackPages \in Nat /\ top \in Nat
      /\ (all - StackPages) * Entries <= top
  BY Sizes, SpaceAssumption
<1>3. UserPages = Entries .. all - 1
  BY DEF UserPages
<1> HIDE DEF a, size
<1>4. ASSUME NEW i \in 0 .. size - 1 PROVE (a + i) \div Entries \in UserPages
  <2>1. a + i \in Nat /\ a + i >= all /\ a + i < top
    BY <1>1, <1>2, <1>4
  <2> DEFINE x == a + i
             q == x \div Entries
  <2> HIDE DEF x
  <2>2. q \in Nat /\ q * Entries <= x /\ x < q * Entries + Entries
    BY <1>2, <2>1, Multiples, Division, Zenon DEF x
  <2> HIDE DEF q
  <2>3. q * Entries < all * Entries
    BY <1>2, <2>1, <2>2 DEF x
  <2>4. q < all
    <3> HIDE DEF all
    <3> QED BY <1>2, <2>2, <2>3, Multiples
  <2>5. Entries * Entries < (q + 1) * Entries
    <3>1. (q + 1) * Entries = q * Entries + Entries
      BY <1>2, <2>2
    <3> QED BY <1>2, <2>1, <2>2, <3>1 DEF x
  <2>6. Entries < q + 1
    <3>1. q + 1 \in Nat
      BY <2>2
    <3> QED BY <1>2, <2>5, <3>1, Multiples
  <2> HIDE DEF all
  <2>7. q \in UserPages
    BY <1>2, <1>3, <2>2, <2>4, <2>6
  <2> QED BY <2>7 DEF q, x
<1> QED BY <1>4 DEF a, size

(* A round of load_phead: the page is filled, or all pages of the segment  *)
(* are undone.                                                             *)
LEMMA ReadPageLoading ==
  ASSUME Sized, NEW b, NEW q \in Work, NEW p \in Frames, NEW seg, Segment(seg),
         Loading(b, q, p, first_page(seg) + page_count(seg)),
         NEW k \in 1 .. rounds(seg), NEW fails,
         NEW r, r = read_page(q, p, seg, k, fails), r.why = {}
  PROVE  Loading(b, r, p, first_page(seg) + page_count(seg))
<1> DEFINE end == first_page(seg) + page_count(seg)
           u == first_page(seg) + k - 1
           addr == ReadAt(seg, k)
           at == trans_vtop(q.m, p, addr)
           size == ReadSize(seg, k)
           over == pte_index(first_page(seg)) + page_count(seg) + 1 > Entries
<1>1. /\ u \in UserPages /\ first_page(seg) \in UserPages /\ page_count(seg) \in Nat \ {0}
      /\ end \in Nat
  <2>1. k \in 1 .. page_count(seg)
    BY SegmentUser
  <2> QED BY <2>1, SegmentUser
<1>2. q.m \in State /\ r \in Work
  BY ReadPageType DEF Work
<1>3. r = IF q.err THEN q
          ELSE IF at = 0 \/ fails
          THEN [m |-> free_vpages(q.m, p, first_page(seg), page_count(seg)), err |-> TRUE,
                why |-> q.why \cup Blame("overrun", over)]
          ELSE [m |-> [used |-> q.m.used, mem |-> Read(q.m.mem, at, size, seg.text)],
                err |-> FALSE, why |-> q.why \cup Blame("astray", ~lands(q.m, p, addr, size))]
  BY ReadPageIs
<1>4. CASE q.err
  BY <1>3, <1>4
<1>5. CASE ~q.err /\ (at = 0 \/ fails)
  <2> DEFINE n == free_vpages(q.m, p, first_page(seg), page_count(seg))
  <2>1. r = [m |-> n, err |-> TRUE, why |-> q.why \cup Blame("overrun", over)]
    BY <1>3, <1>5
  <2>2. r.m = n /\ r.err /\ ~over
    BY <2>1 DEF Blame
  <2>3. pte_index(first_page(seg)) + page_count(seg) < Entries
    <3>1. pte_index(first_page(seg)) \in Nat /\ Entries \in Nat
      BY <1>1, UserPage, Sizes
    <3> QED BY <1>1, <2>2, <3>1
  <2>4. Held(b, q.m, p) /\ Unmapped(q.m, p, Beyond(end))
    BY <1>5 DEF Loading
  <2>5. CASE q.m.mem[Word(p, pde_index(first_page(seg)))] = 0
    <3>1. n = q.m
      BY <2>5 DEF free_vpages
    <3> QED BY <2>2, <2>4, <3>1 DEF Loading
  <2>6. CASE q.m.mem[Word(p, pde_index(first_page(seg)))] # 0
    <3>1. /\ Loose(b, n, p)
          /\ \A a \in UserPages : Page(n.mem, p, a) \in {0, Page(q.m.mem, p, a)}
          /\ Page(q.m.mem, p, end) = 0 => 0 \notin n.used
      BY <1>1, <2>3, <2>4, <2>6, FreeLoose
    <3>2. end \in UserPages
      BY <1>1, <2>3, NextPages
    <3>3. Page(q.m.mem, p, end) = 0
      BY <1>1, <2>4, <3>2 DEF Unmapped, Beyond
    <3>4. Unmapped(n, p, Beyond(end))
      BY <2>4, <3>1 DEF Unmapped, Beyond
    <3> QED BY <2>2, <3>1, <3>3, <3>4 DEF Loading
  <2> QED BY <2>5, <2>6
<1>6. CASE ~q.err /\ at # 0 /\ ~fails
  <2> DEFINE n == [used |-> q.m.used, mem |-> Read(q.m.mem, at, size, seg.text)]
  <2>1. r = [m |-> n, err |-> FALSE, why |-> q.why \cup Blame("astray", ~lands(q.m, p, addr, size))]
    BY <1>3, <1>6
  <2>2. r.m = n /\ lands(q.m, p, addr, size)
    BY <2>1 DEF Blame
  <2>3. Held(b, q.m, p) /\ Unmapped(q.m, p, Beyond(end))
    BY <1>6 DEF Loading
  <2>4. seg.text \in [Slots -> Frames]
    BY SegmentPages
  <2>5. addr \in Nat /\ size \in Int /\ addr \div Entries = u
        /\ \A i \in 0 .. size - 1 : (addr + i) \div Entries \in UserPages
    BY RoundReads, RoundUser
  <2>6. at \in Nat
    <3> HIDE DEF u, addr
    <3>1. at = 0 \/ (Page(q.m.mem, p, u) \in Frames /\ at = Word(Page(q.m.mem, p, u), addr % Entries))
      BY <1>1, <1>2, <2>5, PageIs
    <3>2. addr % Entries \in Slots
      BY <2>5, Sizes, Division, Zenon DEF Slots
    <3>3. 0 \in Nat /\ Words \subseteq Nat
      BY WordOf
    <3> QED BY <3>1, <3>2, <3>3, WordOf
  <2>7. Held(b, n, p) /\ SamePages(q.m, n, p, UserPages)
    <3> HIDE DEF u, addr, size
    <3> QED BY <2>2, <2>3, <2>4, <2>5, <2>6, ReadHeld
  <2> HIDE DEF n
  <2> QED BY <2>2, <2>3, <2>7 DEF Loading, Unmapped, SamePages, Beyond
<1> QED BY <1>4, <1>5, <1>6

(* load_phead maps and fills the pages of its segment, stops, or undoes    *)
(* them.                                                                   *)
LEMMA LoadPheadLoading ==
  ASSUME Sized, NEW b, NEW m, NEW p \in Frames, NEW seg, Segment(seg),
         Held(b, m, p), Unmapped(m, p, Beyond(first_page(seg) + 1)),
         NEW bad, NEW l, l = load_phead(m, p, seg, bad), l.why = {}
  PROVE  Loading(b, l, p, first_page(seg) + page_count(seg))
<1> DEFINE end == first_page(seg) + page_count(seg)
<1>1. /\ page_count(seg) \in Nat \ {0} /\ rounds(seg) \in Nat /\ first_page(seg) \in UserPages
      /\ first_page(seg) \in Nat /\ first_page(seg) \in Pages
  BY SegmentUser, UserPage
<1>2. PICK f : /\ f[0] = alloc_vpages(m, p, first_page(seg), page_count(seg))
               /\ \A k \in 1 .. rounds(seg) : f[k] = read_page(f[k - 1], p, seg, k, k = bad)
               /\ load_phead(m, p, seg, bad) = f[rounds(seg)]
  BY <1>1, LoadPheadLoop
<1> DEFINE S == {q \in Work : q.why = {} => Loading(b, q, p, end)}
<1>3. f[0] \in S
  <2> DEFINE a == alloc_vpages(m, p, first_page(seg), page_count(seg))
  <2>1. a \in Work
    BY <1>1, HeldFacts, AllocVpagesType
  <2>2. ASSUME a.why = {} PROVE Loading(b, a, p, end)
    <3>1. Unmapped(m, p, first_page(seg) + 1 .. first_page(seg) + page_count(seg) - 1)
      <4>1. \A u \in first_page(seg) + 1 .. first_page(seg) + page_count(seg) - 1 : u \in Beyond(first_page(seg) + 1)
        <5> SUFFICES ASSUME NEW u \in first_page(seg) + 1 .. first_page(seg) + page_count(seg) - 1
                     PROVE  u \in UserPages /\ u >= first_page(seg) + 1
          BY DEF Beyond
        <5> DEFINE k == u - first_page(seg) + 1
        <5>1. k \in 1 .. page_count(seg) /\ first_page(seg) + k - 1 = u /\ u >= first_page(seg) + 1
          BY <1>1
        <5> HIDE DEF k
        <5>2. first_page(seg) + k - 1 \in UserPages
          BY <5>1, SegmentUser
        <5> QED BY <5>1, <5>2
      <4> QED BY <4>1 DEF Unmapped
    <3>2. Held(b, a.m, p) /\ SamePages(m, a.m, p, UserPages \ (first_page(seg) .. first_page(seg) + page_count(seg) - 1))
      BY <1>1, <2>2, <3>1, AllocHeld
    <3> HIDE DEF a
    <3>3. \A u \in Beyond(end) : /\ u \in UserPages \ (first_page(seg) .. first_page(seg) + page_count(seg) - 1)
                                 /\ u \in Beyond(first_page(seg) + 1)
      BY <1>1, Sizes DEF Beyond, UserPages
    <3>4. Unmapped(a.m, p, Beyond(end))
      BY <3>2, <3>3 DEF Unmapped, SamePages
    <3> QED BY <3>2, <3>4 DEF Loading
  <2> QED BY <1>2, <2>1, <2>2
<1>4. ASSUME NEW k \in 1 .. rounds(seg), f[k - 1] \in S
      PROVE  f[k] \in S
  <2> DEFINE q == f[k - 1]
             r == f[k]
  <2>1. r = read_page(q, p, seg, k, k = bad) /\ q \in Work /\ (q.why = {} => Loading(b, q, p, end))
    BY <1>2, <1>4
  <2> HIDE DEF q, r
  <2>2. r \in Work
    BY <2>1, ReadPageType
  <2>3. ASSUME r.why = {} PROVE Loading(b, r, p, end)
    <3>1. q.why = {}
      BY <2>1, <2>3 DEF read_page, Work
    <3> QED BY <2>1, <2>3, <3>1, ReadPageLoading
  <2> QED BY <2>2, <2>3 DEF r
<1> HIDE DEF S
<1>5. f[rounds(seg)] \in S
  BY <1>1, <1>3, <1>4, RoundsIn
<1> QED BY <1>2, <1>5 DEF S

(* The loadable segments follow each other.                                *)
Ordered(segs) ==
  /\ Segments(segs)
  /\ \A i \in 1 .. Len(segs) : segs[i].loadable =>
       \A j \in 1 .. i - 1 :
         segs[j].loadable => segs[i].vaddr >= segs[j].vaddr + segs[j].memsz

(* They have at most a page in common.                                     *)
LEMMA SegmentsMeet ==
  ASSUME NEW seg, Segment(seg), NEW before, Segment(before),
         seg.vaddr >= before.vaddr + before.memsz
  PROVE  first_page(before) + page_count(before) <= first_page(seg) + 1
<1>1. /\ Entries \in Nat \ {0} /\ seg.vaddr \in Nat /\ before.vaddr \in Nat /\ before.memsz \in Nat
      /\ first_page(seg) \in Nat
  BY Sizes, SegmentUser DEF Segment
<1> DEFINE q == first_page(seg) + 1
<1>2. q \in Nat /\ q * Entries = first_page(seg) * Entries + Entries
  BY <1>1
<1>3. seg.vaddr < first_page(seg) * Entries + Entries
  BY <1>1, Multiples, Zenon DEF first_page
<1> HIDE DEF q
<1>4. first_page(seg) * Entries \in Nat
  BY <1>1
<1>5. before.vaddr + before.memsz <= q * Entries
  BY <1>1, <1>2, <1>3, <1>4
<1>6. (before.vaddr \div Entries) + DivUp(before.memsz, Entries) <= q
  BY <1>1, <1>2, <1>5, Span
<1> QED BY <1>6 DEF first_page, page_count, q

(* The first page that the segments before header a leave free.            *)
End(segs, a) == IF a = 1 THEN Entries ELSE first_page(segs[a - 1]) + page_count(segs[a - 1])

Ready(b, q, p, segs) ==
  /\ Loading(b, q, p, StackPage)
  /\ ~q.err => /\ Unmapped(q.m, p, Beyond(End(segs, q.at)))
               /\ q.at = 1 \/ segs[q.at - 1].loadable

(* A round of load_elf_file leaves the pages behind the segments read so   *)
(* far free.                                                               *)
LEMMA LoadHeaderReady ==
  ASSUME Sized, NEW b, NEW p \in Frames, NEW segs, Ordered(segs), NEW fault,
         NEW q \in ElfWork, q.at <= Len(segs), Ready(b, q, p, segs),
         NEW r, r = load_header(q, p, segs, fault), r.why = {}
  PROVE  Ready(b, r, p, segs)
<1> DEFINE bad == IF fault[1] = q.at THEN fault[2] ELSE -1
           seg == segs[q.at]
           l == load_phead(q.m, p, seg, bad)
           end == first_page(seg) + page_count(seg)
<1>1. /\ q.m \in State /\ q.err \in BOOLEAN /\ q.at \in Nat \ {0} /\ Len(segs) \in Nat
      /\ q.at \in 1 .. Len(segs)
  BY DEF ElfWork, Ordered, Segments
<1>2. CASE q.err
  <2>1. r = q
    BY <1>2 DEF load_header
  <2> QED BY <2>1
<1>3. CASE ~q.err /\ bad = 0
  <2>1. r = [q EXCEPT !.err = TRUE]
    BY <1>3 DEF load_header
  <2>2. r.m = q.m /\ r.err
    BY <2>1 DEF ElfWork
  <2> QED BY <1>3, <2>2 DEF Ready, Loading
<1>4. CASE ~q.err /\ bad # 0 /\ ~seg.loadable
  <2>1. r = q
    BY <1>4 DEF load_header
  <2> QED BY <2>1
<1>5. CASE ~q.err /\ bad # 0 /\ seg.loadable
  <2>1. r = [m |-> l.m, err |-> l.err, why |-> q.why \cup l.why, at |-> q.at + 1]
    BY <1>5 DEF load_header
  <2>2. r.m = l.m /\ r.err = l.err /\ l.why = {} /\ r.at = q.at + 1
    BY <2>1
  <2>3. /\ Held(b, q.m, p) /\ Unmapped(q.m, p, Beyond(End(segs, q.at)))
        /\ q.at = 1 \/ segs[q.at - 1].loadable
    BY <1>5 DEF Ready, Loading
  <2>4. Segment(seg)
    BY <1>1, <1>5 DEF Ordered, Segments
  <2>5. /\ end \in Nat /\ first_page(seg) \in UserPages /\ first_page(seg) \in Nat /\ end <= StackPage
    BY <2>4, SegmentUser
  <2>6. End(segs, q.at) <= first_page(seg) + 1
    <3>1. CASE q.at = 1
      BY <2>5, <3>1, Sizes DEF End, UserPages
    <3>2. CASE q.at # 1
      <4>1. q.at - 1 \in 1 .. q.at - 1 /\ q.at - 1 \in 1 .. Len(segs)
        BY <1>1, <3>2
      <4>2. first_page(segs[q.at - 1]) + page_count(segs[q.at - 1]) \in Nat
        <5>1. Segment(segs[q.at - 1])
          BY <2>3, <3>2, <4>1 DEF Ordered, Segments
        <5> DEFINE before == segs[q.at - 1]
        <5> HIDE DEF before
        <5>2. first_page(before) + page_count(before) \in Nat
          BY <5>1, SegmentUser DEF before
        <5> QED BY <5>2 DEF before
      <4>3. first_page(seg) + 1 >= first_page(segs[q.at - 1]) + page_count(segs[q.at - 1])
        <5> DEFINE before == segs[q.at - 1]
        <5>1. Segment(before)
          BY <2>3, <3>2, <4>1 DEF Ordered, Segments
        <5>2. before.loadable
          BY <2>3, <3>2
        <5>3. seg.vaddr >= before.vaddr + before.memsz
          BY <1>1, <1>5, <4>1, <5>2 DEF Ordered
        <5> HIDE DEF before, seg
        <5>4. first_page(before) + page_count(before) <= first_page(seg) + 1
          BY <2>4, <5>1, <5>3, SegmentsMeet
        <5>5. first_page(before) + page_count(before) \in Nat
          BY <5>1, SegmentUser
        <5> QED BY <2>5, <5>4, <5>5 DEF before
      <4> DEFINE e == first_page(segs[q.at - 1]) + page_count(segs[q.at - 1])
      <4>4. End(segs, q.at) = e
        BY <3>2 DEF End
      <4> HIDE DEF e
      <4> QED BY <2>5, <4>2, <4>3, <4>4 DEF e
    <3> QED BY <3>1, <3>2
  <2>7. Unmapped(q.m, p, Beyond(first_page(seg) + 1))
    <3>1. End(segs, q.at) \in Nat
      <4>1. CASE q.at = 1
        BY <4>1, Sizes DEF End
      <4>2. CASE q.at # 1
        <5>1. q.at - 1 \in 1 .. Len(segs)
          BY <1>1, <4>2
        <5>2. Segment(segs[q.at - 1])
          BY <2>3, <4>2, <5>1 DEF Ordered, Segments
        <5> DEFINE before == segs[q.at - 1]
        <5> HIDE DEF before
        <5>3. first_page(before) + page_count(before) \in Nat
          BY <5>2, SegmentUser DEF before
        <5> QED BY <4>2, <5>3 DEF before, End
      <4> QED BY <4>1, <4>2
    <3> DEFINE e == End(segs, q.at)
    <3> HIDE DEF e
    <3>2. \A u \in Beyond(first_page(seg) + 1) : u \in Beyond(e)
      BY <2>5, <2>6, <3>1, Sizes DEF Beyond, UserPages, e
    <3> QED BY <2>3, <3>2 DEF Unmapped, e
  <2>8. Loading(b, l, p, end)
    <3> HIDE DEF seg, bad
    <3> QED BY <2>2, <2>3, <2>4, <2>7, LoadPheadLoading
  <2>9. \A u \in Beyond(StackPage) : u \in Beyond(end)
    <3>1. StackPage \in Nat
      BY Sizes, SpaceAssumption DEF StackPage
    <3> HIDE DEF end
    <3> QED BY <2>5, <3>1, Sizes DEF Beyond, UserPages
  <2>10. Loading(b, r, p, StackPage) /\ Unmapped(r.m, p, Beyond(end))
    <3> HIDE DEF end, l
    <3> QED BY <2>2, <2>8, <2>9 DEF Loading, Unmapped
  <2>11. End(segs, r.at) = end /\ segs[r.at - 1].loadable
    <3>1. r.at # 1 /\ r.at - 1 = q.at
      BY <1>1, <2>2
    <3> QED BY <1>5, <3>1 DEF End
  <2> QED BY <2>10, <2>11 DEF Ready
<1> QED BY <1>2, <1>3, <1>4, <1>5

(* The stack lies in the user's part, and ends with the last table.        *)
LEMMA StackPageUser ==
  /\ StackPage \in UserPages /\ StackPage \in Nat /\ StackPage + StackPages = Entries * Entries
  /\ \A u \in StackPage .. StackPage + StackPages - 1 : u \in Beyond(StackPage)
  /\ StackPages \in Nat \ {0}
<1>1. Entries \in Nat /\ StackPages \in 1 .. Entries /\ Entries > 1 /\ Entries * Entries \in Nat
  BY Sizes, SpaceAssumption
<1>2. Entries * Entries >= Entries + Entries
  BY <1>1
<1> DEFINE all == Entries * Entries
<1>3. all \in Nat /\ all >= Entries + Entries /\ StackPage = all - StackPages
      /\ UserPages = Entries .. all - 1
  BY <1>1, <1>2 DEF StackPage, UserPages
<1> HIDE DEF all
<1>4. /\ StackPage \in UserPages /\ StackPage \in Nat /\ StackPage + StackPages = all
      /\ \A u \in StackPage .. StackPage + StackPages - 1 : u \in UserPages /\ u >= StackPage
  BY <1>1, <1>3
<1> QED BY <1>1, <1>4 DEF all, Beyond

(* load_elf_file leaves the pages of the stack free, and the directory     *)
(* loaded, in part or undone.                                              *)
LEMMA LoadElfLoading ==
  ASSUME Sized, NEW b, NEW m, NEW p \in Frames, Held(b, m, p), Unmapped(m, p, UserPages),
         NEW segs, Ordered(segs), NEW fault,
         NEW r, r = load_elf_file(m, p, segs, fault), r.why = {}
  PROVE  Loading(b, r, p, StackPage)
<1>1. Segments(segs) /\ Len(segs) \in Nat /\ m \in State
  BY HeldFacts DEF Ordered, Segments
<1>2. PICK f : /\ f[0] = [m |-> m, err |-> FALSE, why |-> {}, at |-> 1]
               /\ \A k \in 1 .. Len(segs) : f[k] = load_header(f[k - 1], p, segs, fault)
               /\ load_elf_file(m, p, segs, fault) = f[Len(segs)]
  BY <1>1, LoadElfLoop
<1> DEFINE Good(q) == q.why = {} => Ready(b, q, p, segs)
           I == [k \in 0 .. Len(segs) |-> {q \in ElfWork : q.at <= k + 1 /\ Good(q)}]
<1>3. f[0] \in I[0]
  <2> DEFINE q == [m |-> m, err |-> FALSE, why |-> {}, at |-> 1]
  <2>1. q \in ElfWork /\ q.at <= 0 + 1
    BY <1>1 DEF ElfWork
  <2>2. Unmapped(q.m, p, Beyond(StackPage)) /\ Unmapped(q.m, p, Beyond(End(segs, q.at)))
    BY DEF Unmapped, Beyond
  <2>3. Good(q)
    BY <2>2 DEF Ready, Loading
  <2> HIDE DEF q, Good
  <2> QED BY <1>1, <1>2, <2>1, <2>3 DEF q
<1>4. ASSUME NEW k \in 1 .. Len(segs), f[k - 1] \in I[k - 1] PROVE f[k] \in I[k]
  <2> DEFINE q == f[k - 1]
             r0 == f[k]
  <2>1. k \in 0 .. Len(segs) /\ k - 1 \in 0 .. Len(segs) /\ k \in Nat
    BY <1>1
  <2>2. r0 = load_header(q, p, segs, fault)
    BY <1>2
  <2>3. q \in ElfWork /\ q.at <= (k - 1) + 1 /\ Good(q)
    <3> HIDE DEF Good
    <3> QED BY <1>4, <2>1
  <2> HIDE DEF q, r0
  <2>4. q.at <= k /\ q.at <= Len(segs) /\ q.at \in Nat
    BY <1>1, <2>1, <2>3 DEF ElfWork
  <2>5. r0 \in ElfWork /\ r0.at <= q.at + 1
    BY <1>1, <2>2, <2>3, <2>4, LoadHeaderType
  <2>6. r0.at <= k + 1
    BY <2>1, <2>4, <2>5 DEF ElfWork
  <2>7. ASSUME r0.why = {} PROVE Ready(b, r0, p, segs)
    <3>1. q.why = {}
      BY <2>2, <2>7 DEF load_header, ElfWork
    <3> QED BY <2>2, <2>3, <2>4, <2>7, <3>1, LoadHeaderReady
  <2>8. Good(r0)
    BY <2>7
  <2> HIDE DEF Good
  <2> QED BY <2>1, <2>5, <2>6, <2>8 DEF r0
<1> HIDE DEF I
<1>5. f[Len(segs)] \in I[Len(segs)]
  <2>1. \A k \in 0 .. Len(segs) : f[k] \in I[k]
    BY <1>1, <1>3, <1>4, Rounds
  <2> QED BY <1>1, <2>1
<1>6. Good(r)
  <2> HIDE DEF Good
  <2> QED BY <1>1, <1>2, <1>5 DEF I
<1> QED BY <1>6 DEF Ready

(* Frame 0 is free: it is what alloc_pages finds, and takes for a failure. *)
ZeroTaken(m) == [used |-> m.used \cup {0}, mem |-> m.mem]

(* The search of the bitmap starts with frame 0.                           *)
LEMMA TakesZero ==
  ASSUME Sized, NEW m \in State, 0 \notin m.used
  PROVE  Take(m).page = 0 /\ Take(m).used = m.used \cup {0}
BY TakePage

(* Frame 0 is marked again: nothing else changes.                          *)
LEMMA LooseTaken ==
  ASSUME NEW b, NEW m, NEW p, Loose(b, m, p)
  PROVE  Loose(b, ZeroTaken(m), p) /\ 0 \in ZeroTaken(m).used
<1> DEFINE n == ZeroTaken(m)
<1>1. m \in State /\ Weak(m, p, b.used) /\ Agree(b, m)
  BY DEF Loose
<1>2. n.used = m.used \cup {0} /\ n.mem = m.mem /\ n \in State
  BY <1>1, Sizes DEF ZeroTaken, State
<1> HIDE DEF n
<1>3. Weak(n, p, b.used)
  BY <1>1, <1>2 DEF Weak
<1>4. Agree(b, n)
  BY <1>1, <1>2 DEF Agree
<1> QED BY <1>2, <1>3, <1>4 DEF Loose, n

(* With frame 0 free the first page is not to be had, which marks frame 0. *)
LEMMA MapPagesFail ==
  ASSUME Sized, NEW q \in Work, ~q.err, 0 \notin q.m.used, NEW w, NEW count \in Nat \ {0},
         NEW r, r = map_pages(q, w, count)
  PROVE  r.err /\ r.m = ZeroTaken(q.m)
<1> DEFINE z == [q EXCEPT !.m = ZeroTaken(q.m), !.err = TRUE]
           I == [k \in 0 .. count |-> IF k = 0 THEN {q} ELSE {z}]
<1>1. PICK f : /\ f[0] = q
               /\ \A k \in 1 .. count : f[k] = map_page(f[k - 1], w + k - 1, Take(f[k - 1].m))
               /\ map_pages(q, w, count) = f[count]
  BY MapPagesLoop
<1>2. q.m \in State
  BY DEF Work
<1>3. z.err /\ z.m = ZeroTaken(q.m)
  BY DEF Work
<1>4. \A u : map_page(q, u, Take(q.m)) = z
  <2>1. Take(q.m).page = 0 /\ Take(q.m).used = q.m.used \cup {0}
    BY <1>2, TakesZero
  <2> QED BY <2>1 DEF map_page, ZeroTaken
<1>5. \A u, t : map_page(z, u, t) = z
  BY <1>3 DEF map_page
<1> HIDE DEF z
<1>6. f[0] \in I[0]
  BY <1>1
<1>7. ASSUME NEW k \in 1 .. count, f[k - 1] \in I[k - 1] PROVE f[k] \in I[k]
  <2>1. k \in 0 .. count /\ k - 1 \in 0 .. count /\ k # 0
    OBVIOUS
  <2>2. f[k - 1] = q \/ f[k - 1] = z
    BY <1>7, <2>1
  <2>3. f[k] = map_page(f[k - 1], w + k - 1, Take(f[k - 1].m))
    BY <1>1
  <2>4. f[k] = z
    BY <1>4, <1>5, <2>2, <2>3
  <2> QED BY <2>1, <2>4
<1> HIDE DEF I
<1>8. f[count] \in I[count]
  <2>1. \A k \in 0 .. count : f[k] \in I[k]
    BY <1>6, <1>7, Rounds
  <2> QED BY <2>1
<1>9. f[count] = z
  BY <1>8 DEF I
<1> QED BY <1>1, <1>3, <1>9

(* After a load that went well the stack is mapped or not; after one that  *)
(* was undone it is not, and frame 0 is taken again.                       *)
LEMMA StackBuilt ==
  ASSUME Sized, NEW b, NEW p \in Frames, NEW e, e.m \in State, Loading(b, e, p, StackPage),
         NEW a, a = alloc_vpages(e.m, p, StackPage, StackPages), a.why = {}
  PROVE  Held(b, a.m, p) \/ (e.err /\ a.err /\ Loose(b, a.m, p) /\ 0 \in a.m.used)
<1> DEFINE v == StackPage
           m == e.m
<1>1. /\ v \in UserPages /\ v \in Nat /\ StackPages \in Nat \ {0}
      /\ \A u \in v .. v + StackPages - 1 : u \in Beyond(v)
      /\ Unmapped(m, p, Beyond(v)) /\ m \in State
  BY StackPageUser DEF Loading
<1>2. CASE Held(b, m, p)
  <2>1. Unmapped(m, p, v + 1 .. v + StackPages - 1)
    BY <1>1 DEF Unmapped
  <2> QED BY <1>1, <1>2, <2>1, AllocHeld
<1>3. CASE e.err /\ Loose(b, m, p) /\ 0 \notin m.used
  <2> DEFINE d == pde_index(v)
             old == m.mem[Word(p, d)]
             t == new_table(m, p, d)
             w == Word(t.page, pte_index(v))
             q == [m |-> t.m, err |-> FALSE,
                   why |-> t.why \cup Blame("overrun", pte_index(v) + StackPages > Entries)]
  <2>1. a = IF t.page = 0 THEN [m |-> t.m, err |-> TRUE, why |-> {}]
            ELSE IF t.m.mem[w] # 0 THEN [m |-> t.m, err |-> FALSE, why |-> t.why]
            ELSE map_pages(q, w, StackPages)
    BY DEF alloc_vpages
  <2>2. a.err /\ a.m = ZeroTaken(m)
    <3>1. CASE old = 0
      <4>1. t.page = 0 /\ t.m = ZeroTaken(m)
        <5>1. Take(m).page = 0 /\ Take(m).used = m.used \cup {0}
          BY <1>1, <1>3, TakesZero
        <5> QED BY <3>1, <5>1 DEF new_table, ZeroTaken
      <4> QED BY <2>1, <4>1
    <3>2. CASE old # 0
      <4>1. t = [m |-> m, page |-> old, why |-> {}]
        BY <3>2 DEF new_table
      <4>2. m.mem[Word(old, pte_index(v))] = 0
        <5>1. Page(m.mem, p, v) = 0
          <6>1. v + 0 \in v .. v + StackPages - 1 /\ v + 0 = v
            BY <1>1
          <6> QED BY <1>1, <6>1 DEF Unmapped
        <5> QED BY <3>2, <5>1 DEF Page
      <4>3. a = map_pages(q, w, StackPages)
        BY <2>1, <3>2, <4>1, <4>2
      <4>4. q \in Work /\ ~q.err /\ q.m = m
        BY <1>1, <4>1 DEF Work, Whys, Blame
      <4> HIDE DEF q, w
      <4> QED BY <1>1, <1>3, <4>3, <4>4, MapPagesFail
    <3> QED BY <3>1, <3>2
  <2>3. Loose(b, a.m, p) /\ 0 \in a.m.used
    BY <1>3, <2>2, LooseTaken
  <2> QED BY <1>3, <2>2, <2>3
<1> QED BY <1>2, <1>3 DEF Loading

(* The word with the number of arguments: in the stack's last page; where  *)
(* there is none, a word of frame 0 is set to what it is.                  *)
ZeroFrame(m) == \A s \in Slots : m.mem[Word(0, s)] = 0

(* copy_args_envs stores into a page of the directory or changes nothing.  *)
LEMMA ArgsHeld ==
  ASSUME NEW b, b.used \subseteq Frames, 0 \in b.used, ZeroFrame(b),
         NEW m, NEW p \in Frames, Held(b, m, p), NEW n, n = copy_args_envs(m, p)
  PROVE  Held(b, n, p)
<1> DEFINE a == Entries * Entries * Entries - 1
           v == Entries * Entries - 1
           f == Page(m.mem, p, v)
           w == trans_vtop(m, p, a)
<1>1. m \in State /\ Own(m, {p}, b.used) /\ Agree(b, m) /\ m.mem \in Mem
  BY HeldFacts DEF Held, State
<1>2. v \in UserPages /\ Entries - 1 \in Slots /\ 0 \in Slots
  <2>1. Entries * Entries >= Entries + Entries /\ Entries * Entries \in Nat /\ Entries \in Nat /\ Entries > 1
    BY Sizes
  <2> QED BY <2>1 DEF UserPages, Slots
<1>3. a \in Nat /\ a \div Entries = v /\ a % Entries = Entries - 1
  <2>1. Entries \in Nat \ {0} /\ v \in Nat /\ Entries - 1 \in 0 .. Entries - 1
    BY <1>2, Sizes DEF UserPages
  <2>2. a = v * Entries + (Entries - 1)
    BY <2>1
  <2>3. (v * Entries + (Entries - 1)) \div Entries = v /\ (v * Entries + (Entries - 1)) % Entries = Entries - 1
    BY <2>1, Quotient, Zenon
  <2> QED BY <2>1, <2>2, <2>3
<1> HIDE DEF v, a
<1>4. /\ f \in Frames /\ w \in Words /\ FrameOf(w) \in {0, f}
      /\ \E s \in Slots : w = Word(FrameOf(w), s)
  <2>1. f \in Frames /\ (w = 0 \/ w = Word(f, Entries - 1))
    BY <1>1, <1>2, <1>3, PageIs
  <2>2. 0 = Word(0, 0) /\ 0 \in Frames
    BY Sizes DEF Word
  <2> HIDE DEF f, w
  <2> QED BY <1>2, <2>1, <2>2, WordOf
<1>10. n = [m EXCEPT !.mem = Put(@, w, 0)]
  BY DEF copy_args_envs, a
<1> HIDE DEF f, w
<1>5. /\ n.used = m.used /\ n.mem \in Mem /\ n \in State
      /\ \A u \in Words : n.mem[u] = IF u = w THEN 0 ELSE m.mem[u]
  <2>1. n.used = m.used /\ n.mem = Put(m.mem, w, 0) /\ n = [used |-> n.used, mem |-> n.mem]
    BY <1>1, <1>10 DEF State
  <2>2. 0 \in Frames
    BY Sizes
  <2>3. n.mem \in Mem /\ \A u \in Words : n.mem[u] = IF u = w THEN 0 ELSE m.mem[u]
    BY <1>1, <2>1, <2>2, PutMem
  <2> QED BY <1>1, <2>1, <2>3 DEF State
<1>7. CASE FrameOf(w) = 0
  <2>1. m.mem[w] = 0
    <3>1. PICK s \in Slots : w = Word(0, s)
      BY <1>4, <1>7
    <3> QED BY <1>1, <1>4, <1>7, <3>1 DEF Agree, ZeroFrame
  <2>2. n = m
    <3>1. \A u \in Words : n.mem[u] = m.mem[u]
      BY <1>5, <2>1
    <3>2. n.mem = m.mem
      BY <1>1, <1>5, <3>1 DEF Mem
    <3> QED BY <1>1, <1>5, <3>2 DEF State
  <2> QED BY <2>2
<1>8. CASE FrameOf(w) # 0
  <2>1. Filled(m, n, {f})
    BY <1>4, <1>5, <1>8 DEF Filled
  <2>2. {f} \subseteq PagesOf(m, p)
    BY <1>2, <1>4, <1>8 DEF PagesOf, f
  <2> QED BY <1>5, <2>1, <2>2, FilledHeld
<1> QED BY <1>7, <1>8
=============================================================================
