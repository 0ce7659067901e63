------------------------------- MODULE Frames -------------------------------
(***************************************************************************)
(* Physical memory, mm/bitmap.c and the first half of mm/page.c: a bitmap  *)
(* with a bit per frame, built from the memory map the loader left behind, *)
(* searched first-fit for runs of free frames.  The bitmap is the set of   *)
(* used frames.  The mutex of page.c makes each call atomic (module Sched  *)
(* has the mutex), so the calls are operators on that set.                 *)
(***************************************************************************)
EXTENDS Integers, Sequences, SequencesExt

CONSTANTS
  NFrames,       \* bound: frames the bitmap has a bit for (2^20 in the code)
  ByteBits,      \* bits in a byte of the bitmap, 8 in the code
  PAGE_SIZE,     \* the memory map's addresses are scaled down to this
  FreeMemStart   \* the first frame behind the kernel's image and tables

ASSUME FramesAssumption ==
  /\ {NFrames, ByteBits, PAGE_SIZE, FreeMemStart} \subseteq Nat \ {0}
  /\ ByteBits <= FreeMemStart /\ FreeMemStart < NFrames

Frames == 0 .. NFrames - 1

DivUp(n, d) == (n + d - 1) \div d

-----------------------------------------------------------------------------
(* The entries of the BIOS memory map: [start, size, ram].                 *)

(* Mutant of first_frame: a start inside a page is rounded down.           *)
FirstFrameDown(r) ==
  IF r.start < FreeMemStart * PAGE_SIZE THEN FreeMemStart ELSE r.start \div PAGE_SIZE

first_frame(r) ==
  IF r.start < FreeMemStart * PAGE_SIZE THEN FreeMemStart ELSE DivUp(r.start, PAGE_SIZE)

(* One past the last whole frame.                                          *)
end_frame(r) == (r.start + r.size) \div PAGE_SIZE

(* bitmap_set_bits: count bits upwards from index, or downwards below it.  *)
bitmap_set_bits(index, count, up) ==
  IF up THEN index .. index + count - 1 ELSE index - count .. index - 1

(* The bits an entry of the map clears: the rest of the byte it starts in, *)
(* the bits below its end in the byte it ends in, the bytes between.       *)
freed_by(r) ==
  LET start == first_frame(r)
      end   == end_frame(r)
  IN  IF ~r.ram \/ r.start + r.size <= FreeMemStart * PAGE_SIZE THEN {}
      ELSE (IF start % ByteBits # 0
              THEN bitmap_set_bits(start, ByteBits - (start % ByteBits), TRUE) ELSE {})
           \cup (IF end % ByteBits # 0
                   THEN bitmap_set_bits(end, end % ByteBits, FALSE) ELSE {})
           \cup (DivUp(start, ByteBits) * ByteBits .. (end \div ByteBits) * ByteBits - 1)

(* All bits set, then the map's entries in turn.                           *)
bitmap_init(layout) ==
  Frames \ UNION {freed_by(layout[i]) : i \in 1 .. Len(layout)}

(* Mutant of layout_bits: the reserved regions' sizes are added twice.     *)
LayoutBitsTwice(layout) ==
  DivUp(FoldSeq(LAMBDA r, sum : sum + (IF r.ram THEN 1 ELSE 2) * r.size, 0, layout), PAGE_SIZE)

(* bitmap.nbits: the sizes added up, holes in the map left out.            *)
layout_bits(layout) == DivUp(FoldSeq(LAMBDA r, sum : sum + r.size, 0, layout), PAGE_SIZE)

-----------------------------------------------------------------------------
(* Mutant of bitmap_alloc_bits: the last frame of the run is not looked at.*)
AllocOverlapping(used, n, count) ==
  LET runs == {i \in 0 .. n - count : i \notin used /\ (i .. i + count - 2) \cap used = {}}
  IN  IF runs = {} THEN -1 ELSE CHOOSE i \in runs : \A j \in runs : i <= j

(* The lowest run of count clear bits among the first n, -1 without one.   *)
bitmap_alloc_bits(used, n, count) ==
  LET runs == {i \in 0 .. n - count : (i .. i + count - 1) \cap used = {}}
  IN  IF runs = {} THEN -1 ELSE CHOOSE i \in runs : \A j \in runs : i <= j

bitmap_free_bits(used, index, count) == used \ (index .. index + count - 1)

(* alloc_pages: 0 for failure; index 0 is taken for one, its bits now set. *)
alloc_pages(used, n, count) ==
  LET i == bitmap_alloc_bits(used, n, count)
  IN  [used |-> IF i = -1 THEN used ELSE used \cup (i .. i + count - 1),
       page |-> IF i > 0 THEN i ELSE 0]

free_pages(used, page, count) == bitmap_free_bits(used, page, count)
=============================================================================
