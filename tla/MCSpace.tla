------------------------------ MODULE MCSpace -------------------------------
(* Constants for model-checking Space: 25 frames, the first six below the  *)
(* kernel's end, three words to a frame (a directory: the kernel's entry   *)
(* and two tables), four bits to a byte of the bitmap, and addresses       *)
(* counted in half pages.                                                  *)
EXTENDS Space

CONSTANTS init, t1, none

MCTasks == {init, t1}

Map(start, size, ram) == [start |-> start, size |-> size, ram |-> ram]

(* A region inside one byte of the bitmap, then RAM that starts inside a   *)
(* page; RAM that is soon used up.                                         *)
MCLayouts ==
  {<<Map(0, 12, TRUE), Map(12, 6, FALSE), Map(18, 4, TRUE), Map(22, 5, FALSE), Map(27, 23, TRUE)>>,
   <<Map(0, 29, TRUE), Map(29, 3, FALSE)>>}

Seg(vaddr, memsz, filesz, text, loadable) ==
  [vaddr |-> vaddr, memsz |-> memsz, filesz |-> filesz, text |-> text, loadable |-> loadable]

(* Words that read as an entry for the kernel's table and for a frame.     *)
Junk == [s \in Slots |-> IF s = 1 THEN KernelTable ELSE IF s = 2 THEN 10 ELSE 0]
MCTexts == {Zeros, Junk}

(* Two segments in one page, and a header that is not loadable; two with a *)
(* page in common, the first read on in its own second page, but the entry *)
(* point is 0; two more of which the second is read on past that page's    *)
(* end; a segment with a page in the next table.                           *)
MCPrograms ==
  {[segs |-> <<Seg(21, 1, 1, Junk, TRUE), Seg(22, 2, 2, Junk, TRUE), Seg(24, 2, 1, Zeros, FALSE)>>, entry |-> 1],
   [segs |-> <<Seg(19, 4, 4, Junk, TRUE), Seg(23, 1, 1, Junk, TRUE)>>, entry |-> 0],
   [segs |-> <<Seg(9, 4, 3, Junk, TRUE), Seg(14, 3, 2, Junk, TRUE)>>, entry |-> 1],
   [segs |-> <<Seg(16, 4, 3, Junk, TRUE)>>, entry |-> 1]}

(* No read, a header, its first page, its second page, the second header's.*)
MCFaults == {<<0, 0>>, <<1, 0>>, <<1, 1>>, <<1, 2>>, <<2, 1>>}
=============================================================================
