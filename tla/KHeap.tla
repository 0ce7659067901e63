------------------------------- MODULE KHeap --------------------------------
(***************************************************************************)
(* The kernel heap, mm/memory.c: blocks with a header in front of them, a  *)
(* doubly linked list of the free ones, chunks of pages taken when nothing *)
(* fits.  kmalloc and kfree follow pointers that the code leaves stale, so *)
(* the headers are kept where they are, in memory: reading the header at   *)
(* an address gives what was last stored there, whatever block it was of.  *)
(* Address 0 is memory, too: a store through a null pointer goes there.    *)
(*                                                                         *)
(* The callers run with interrupts off, so each call is one action.        *)
(***************************************************************************)
EXTENDS Integers, FiniteSets, Sequences, Functions

CONSTANTS
  Page,         \* bound: addresses in a page, counted in headers
  NPages,       \* bound: pages that are free at boot, 1 .. NPages
  ChunkPages,   \* pages the heap takes at a time, 8 in the code
  Sizes,        \* the sizes asked for
  MaxCalls,     \* bound: calls in a history
  Fuel          \* bound: a walk that takes more steps never ends

ASSUME HeapAssumption ==
  /\ {Page, NPages, ChunkPages, MaxCalls, Fuel} \subseteq Nat \ {0}
  /\ ChunkPages <= NPages
  /\ 2 * Fuel > 3 * (NPages + 1) * Page + 10
  /\ Sizes \subseteq Nat

MEM_HSIZE == 1
Chunk == ChunkPages * Page
Pages == 1 .. NPages
AddressesOf(ps) == UNION {p * Page .. p * Page + Page - 1 : p \in ps}

VARIABLES
  blk,        \* the headers in memory
  free_list,  \* the first free block, 0 for none
  heap,       \* the pages the heap has
  other,      \* the pages page tables and programs have
  live,       \* history: the blocks in use, headers included
  cause,      \* history: what went wrong
  calls       \* history: how many calls there were

vars == <<blk, free_list, heap, other, live, cause, calls>>

Top == (NPages + 1) * Page + Chunk
NoHeader == [used |-> "data", size |-> 0, is_head |-> FALSE, prev |-> 0, next |-> 0]

(* The first word of memory is not null: what is there is not an address.  *)
WILD == Top + 1

(* alloc_pages: the lowest run of n free pages, 0 without one.             *)
alloc_pages(n) ==
  LET runs == {p \in 1 .. NPages - n + 1 : (p .. p + n - 1) \cap (heap \cup other) = {}}
  IN  IF runs = {} THEN 0 ELSE CHOOSE p \in runs : \A q \in runs : p <= q

Init ==
  /\ heap = 1 .. ChunkPages
  /\ other = {}
  /\ blk = [a \in 0 .. Top |->
              IF a = Page THEN [NoHeader EXCEPT !.used = "FREE", !.size = Chunk, !.is_head = TRUE]
              ELSE IF a = 0 THEN [NoHeader EXCEPT !.next = WILD]
              ELSE NoHeader]
  /\ free_list = Page
  /\ live = {}
  /\ cause = {}
  /\ calls = 0

-----------------------------------------------------------------------------
(* The blocks on the list, in order; more than Fuel of them: it is a ring. *)
ListOf(b, first) ==
  LET walk[k \in 0 .. Fuel] ==
        IF k = 0 THEN << >>
        ELSE LET l == walk[k - 1]
                 a == IF l = << >> THEN first ELSE b[l[k - 1]].next
             IN  IF Len(l) < k - 1 \/ a = 0 THEN l ELSE Append(l, a)
  IN  walk[Fuel]

FreeBlocks == Range(ListOf(blk, free_list))

(* The walk of kmalloc: cur is the first block of at least n, or 0, prev   *)
(* the block before it; both the first block if that one fits.             *)
Search(n) ==
  LET walk[k \in 0 .. Fuel] ==
        IF k = 0 THEN [cur |-> free_list, prev |-> free_list]
        ELSE LET w == walk[k - 1]
             IN  IF w.cur = 0 \/ blk[w.cur].size >= n THEN w
                 ELSE [cur |-> blk[w.cur].next, prev |-> w.cur]
  IN  walk[Fuel]

(* Mutant of split: the block keeps the size it had.                       *)
SplitKeepsSize(b, a, n) ==
  IF b[a].size <= n + MEM_HSIZE THEN b
  ELSE [b EXCEPT ![a + n] = [used |-> "FREE", size |-> b[a].size - n, is_head |-> FALSE,
                             prev |-> a, next |-> b[a].next],
                 ![a].next = a + n]

(* The headers once block a is cut to n, when more than a header is left.  *)
split(b, a, n) ==
  LET rest == a + n
  IN  IF b[a].size <= n + MEM_HSIZE THEN b
      ELSE [b EXCEPT ![rest] = [used |-> "FREE", size |-> b[a].size - n, is_head |-> FALSE,
                                prev |-> a, next |-> b[a].next],
                     ![b[a].next].prev = IF b[a].next = 0 THEN @ ELSE rest,
                     ![a].size = n,
                     ![a].next = rest]

(* Mutant of take: the block's header still says free.                     *)
TakeUnmarked(b, a) ==
  [blk |-> [b EXCEPT ![b[a].prev].next = IF b[a].prev = 0 THEN @ ELSE b[a].next,
                     ![b[a].next].prev = IF b[a].next = 0 THEN @ ELSE b[a].prev],
   first |-> IF b[a].prev # 0 THEN free_list ELSE b[a].next]

(* Block a marked used and unlinked; first is the list's first block then. *)
take(b, a) ==
  LET used == [b EXCEPT ![a].used = "USED"]
      p == b[a].prev
      n == b[a].next
  IN  [blk |-> [used EXCEPT ![p].next = IF p = 0 THEN @ ELSE n,
                            ![n].prev = IF n = 0 THEN @ ELSE p],
       first |-> IF p # 0 THEN free_list ELSE n]

Live(cur, n) == live \cup {[at |-> cur, size |-> n]}

(* From the free list.                                                     *)
kmalloc_fit(size) ==
  LET n == size + MEM_HSIZE
      w == Search(n)
      t == take(split(blk, w.cur, n), w.cur)
  IN  /\ n <= Chunk
      /\ w.cur # 0
      /\ blk' = t.blk
      /\ free_list' = t.first
      /\ live' = Live(w.cur, n)
      /\ UNCHANGED <<heap, other, cause>>

(* From a new chunk.  What is left of it is linked in behind the last free *)
(* block, through that block's null `next', or behind address 0.           *)
kmalloc_grow(size) ==
  LET n == size + MEM_HSIZE
      w == Search(n)
      p == alloc_pages(ChunkPages)
      new == p * Page
      rest == new + n
      linked == [blk EXCEPT ![new] = [used |-> "USED", size |-> n, is_head |-> TRUE,
                                      prev |-> 0, next |-> 0]]
      after == linked[w.prev].next
  IN  /\ n <= Chunk
      /\ w.cur = 0
      /\ p # 0
      /\ blk' = IF after = WILD THEN linked
                ELSE [linked EXCEPT ![rest] = [used |-> "FREE", size |-> Chunk - n, is_head |-> FALSE,
                                               prev |-> w.prev, next |-> after],
                                    ![after].prev = rest,
                                    ![w.prev].next = rest]
      /\ heap' = heap \cup (p .. p + ChunkPages - 1)
      /\ live' = Live(new, n)
      /\ cause' = cause \cup (IF after = WILD THEN {"null"} ELSE {})
                        \cup (IF rest \notin AddressesOf(p .. p + ChunkPages - 1)
                                THEN {"edge"} ELSE {})
                        \cup (IF after # WILD /\ new + Chunk \in FreeBlocks
                                THEN {"unmerged"} ELSE {})
      /\ UNCHANGED <<free_list, other>>

-----------------------------------------------------------------------------
(* Mutant of join: the block keeps its `next'.                             *)
JoinKeepsNext(b, cur, nb) == [b EXCEPT ![cur].size = @ + b[nb].size, ![nb].used = "0"]

(* The headers once block nb is part of block cur in front of it.          *)
join(b, cur, nb) ==
  [[[b EXCEPT ![cur].size = @ + b[nb].size, ![cur].next = b[nb].next]
      EXCEPT ![b[nb].next].prev = cur] EXCEPT ![nb].used = "0"]

(* One step of kfree's merging walk: at a block, at its neighbour `nb', or *)
(* at a list entry that may have been merged away.                         *)
merge_step(s) ==
  LET c  == s.blk[s.cur]
      nb == s.cur + c.size
      b  == s.blk[nb]
      joined == join(s.blk, s.cur, nb)
      end == s.cur + joined[s.cur].size
  IN  CASE s.at = "block" /\ s.cur = 0        -> [s EXCEPT !.at = "done"]
        [] s.at = "block" /\ s.cur # 0        -> [s EXCEPT !.at = "nb"]
        [] s.at = "nb" /\ b.used = "FREE"     ->
             IF joined[end].is_head THEN [blk |-> joined, cur |-> end, at |-> "block"]
             ELSE [blk |-> joined, cur |-> s.cur, at |-> "nb"]
        [] s.at = "nb" /\ b.used # "FREE"     -> [s EXCEPT !.cur = c.next, !.at = "skip"]
        [] s.at = "skip" /\ s.cur # 0 /\ c.used = "0" ->
             [blk |-> [s.blk EXCEPT ![s.cur].next = 0, ![s.cur].prev = 0],
              cur |-> c.next, at |-> "skip"]
        [] s.at = "skip" /\ (s.cur = 0 \/ c.used # "0") -> [s EXCEPT !.at = "block"]
        [] s.at = "done"                      -> s

Merged(b, first) ==
  LET walk[k \in 0 .. Fuel] ==
        IF k = 0 THEN [blk |-> b, cur |-> first, at |-> "block"] ELSE merge_step(walk[k - 1])
  IN  walk[Fuel]

(* To the front of the list; then neighbours are merged, and chunks that   *)
(* are free as a whole are given back, their headers left in the list.     *)
kfree(b) ==
  LET put   == [blk EXCEPT ![free_list].prev = b.at,
                           ![b.at].next = free_list, ![b.at].prev = 0, ![b.at].used = "FREE"]
      m     == Merged(put, b.at)
      list  == ListOf(m.blk, b.at)
      hangs == m.at # "done" \/ Len(list) = Fuel
      whole == {a \in Range(list) : m.blk[a].size = Chunk}
      gone  == {a \in FreeBlocks : m.blk[a].used = "FREE" /\ a \notin Range(list)}
      grown == {c \in live \ {b} : m.blk[c.at].size # blk[c.at].size}
      missed == {a \in Range(list) : a + m.blk[a].size \in Range(list)}
  IN  /\ b \in live
      /\ live' = live \ {b}
      /\ free_list' = b.at
      /\ IF hangs THEN UNCHANGED <<blk, heap>>
         ELSE /\ blk' = [a \in DOMAIN blk |-> IF a \in whole THEN [m.blk[a] EXCEPT !.size = 0]
                                              ELSE m.blk[a]]
              /\ heap' = heap \ UNION {a \div Page .. a \div Page + ChunkPages - 1 : a \in whole}
      /\ cause' = cause \cup (IF hangs THEN {"hang"} ELSE {})
                        \cup (IF ~hangs /\ gone # {} THEN {"lost"} ELSE {})
                        \cup (IF ~hangs /\ whole # {} THEN {"stale"} ELSE {})
                        \cup (IF ~hangs /\ grown # {} THEN {"swallowed"} ELSE {})
                        \cup (IF ~hangs /\ missed # {} THEN {"unmerged"} ELSE {})
                        \cup (IF ~hangs /\ (\E a \in whole : ~blk[a].is_head) THEN {"misfreed"} ELSE {})
      /\ UNCHANGED other

-----------------------------------------------------------------------------
(* Page tables and programs take pages and give them back; what they store *)
(* in them reads as no header.                                             *)
alloc_page ==
  /\ alloc_pages(1) # 0
  /\ other' = other \cup {alloc_pages(1)}
  /\ blk' = [a \in DOMAIN blk |-> IF a \div Page = alloc_pages(1) THEN NoHeader ELSE blk[a]]
  /\ UNCHANGED <<free_list, heap, live, cause>>

free_page(p) ==
  /\ p \in other
  /\ other' = other \ {p}
  /\ UNCHANGED <<blk, free_list, heap, live, cause>>

(* A history ends with the first thing gone wrong.                         *)
Next ==
  /\ cause = {}
  /\ calls < MaxCalls
  /\ calls' = calls + 1
  /\ \/ \E size \in Sizes : kmalloc_fit(size) \/ kmalloc_grow(size)
     \/ \E b \in live : kfree(b)
     \/ alloc_page
     \/ \E p \in Pages : free_page(p)

Spec == Init /\ [][Next]_vars

-----------------------------------------------------------------------------
(* The headers' fields hold flags, sizes and addresses of headers; the     *)
(* pages are somebody's or free.                                           *)
HeapTypeOK ==
  /\ \A a \in DOMAIN blk : blk[a].prev \in 0 .. Top /\ blk[a].size \in 0 .. Top
  /\ free_list \in 0 .. Top
  /\ heap \subseteq Pages /\ other \subseteq Pages \ heap
  /\ cause \subseteq {"hang", "lost", "stale", "swallowed", "misfreed", "unmerged",
                   "null", "edge"}

(* The blocks in use and the free blocks tile the heap's pages: no byte is *)
(* in two of them or in none, and every header the walk over neighbours    *)
(* meets is one.  kmalloc's splitting, its growth and kfree's merging each *)
(* keep it, as long as nothing has gone wrong.                             *)
Tiled ==
  cause = {} =>
    LET starts == {b.at : b \in live} \cup FreeBlocks
        Extent(a) == a .. a + blk[a].size - 1
    IN  /\ UNION {Extent(a) : a \in starts} = AddressesOf(heap)
        /\ \A a, c \in starts : a # c => Extent(a) \cap Extent(c) = {}
        /\ \A b \in live : blk[b.at].used = "USED" /\ blk[b.at].size >= b.size

(* The free list is what a doubly linked list has to be: `prev' undoes     *)
(* `next', and no block in use is on it.                                   *)
FreeListInv ==
  cause = {} =>
    LET list == ListOf(blk, free_list)
    IN  /\ Len(list) < Fuel
        /\ \A i \in 1 .. Len(list) :
             /\ blk[list[i]].used = "FREE"
             /\ blk[list[i]].prev = IF i = 1 THEN 0 ELSE list[i - 1]

(* No neighbours are both free, as kfree merges them.  It misses some when *)
(* its walk goes on in the next chunk, and kmalloc does not look behind the*)
(* chunk it takes; the next kfree would leave a block on the list that is  *)
(* part of another one.                                                    *)
Apart ==
  cause = {} => \A a, c \in FreeBlocks : a + blk[a].size # c

(* The heap's bookkeeping: blocks tile its pages, the free list is one, and*)
(* neighbours are merged, through every splitting, growth and merging that *)
(* goes well.                                                              *)
HeapInv == HeapTypeOK /\ Tiled /\ FreeListInv /\ Apart

(* Where the block behind b is on the free list, 0 if it is not free.      *)
RightAt(b) ==
  LET list == ListOf(blk, free_list)
  IN  IF \E i \in 1 .. Len(list) : list[i] = b.at + blk[b.at].size
      THEN CHOOSE i \in 1 .. Len(list) : list[i] = b.at + blk[b.at].size ELSE 0

(* A free block in memory before b that stays on the list when the one     *)
(* behind b has been merged and those before that one have fallen off.     *)
LeftStays(b) ==
  LET list == ListOf(blk, free_list)
  IN  \E i \in RightAt(b) + 1 .. Len(list) : list[i] + blk[list[i]].size = b.at

(* What b merges with ends where the next chunk begins: kfree goes on with *)
(* the block there, and by that one's `next', on the list or not.          *)
Strays(b) ==
  LET right == b.at + blk[b.at].size
      end == IF RightAt(b) > 0 THEN right + blk[right].size ELSE right
  IN  /\ blk[end].is_head
      /\ RightAt(b) > 0 \/ LeftStays(b)

(* kfree merges by unlinking the neighbour through `next' only.  When the  *)
(* block before the freed one is free, too, that one inherits a link to    *)
(* the freed block's successors, of which it is one, and kfree never ends: *)
(* this happens then, and at no other time, unless a walk strays.          *)
HangsOnLeftMerge ==
  [][\A b \in live \ live' :
       ~Strays(b) => (("hang" \in cause') <=> LeftStays(b))]_vars

(* The heap keeps the promise of an allocator in every call, those that    *)
(* end a history included: blocks in use are apart and in the heap's pages,*)
(* and pages are given back only when no such block is in them.  Except    *)
(* that kfree takes a block for a whole chunk by its size: one that begins *)
(* inside a chunk and ends in the one behind it may have that size.        *)
Promise == INSTANCE Allocator WITH arena <- AddressesOf(heap)
KeepsPromise ==
  [][IF "misfreed" \in cause'
     THEN \E p \in Pages : p .. p + ChunkPages \subseteq heap
     ELSE Promise!Alloc \/ Promise!Free]_<<heap, live>>
=============================================================================
