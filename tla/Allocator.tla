----------------------------- MODULE Allocator ------------------------------
(***************************************************************************)
(* What the kernel heap promises: a block that is handed out lies in memory*)
(* that belongs to the heap, apart from every other block in use, and      *)
(* stays so until it is freed.                                             *)
(***************************************************************************)
EXTENDS Integers

VARIABLES
  arena,   \* the addresses of the pages the heap has
  live     \* the blocks in use: [at, size]

Space(b) == b.at .. b.at + b.size - 1

Init == live = {}

Alloc ==
  /\ arena \subseteq arena'
  /\ \E b \in live' :
       /\ live' = live \cup {b}
       /\ Space(b) \subseteq arena'
       /\ \A c \in live : Space(b) \cap Space(c) = {}

Free ==
  /\ arena' \subseteq arena
  /\ \E b \in live : live' = live \ {b}
  /\ \A c \in live' : Space(c) \subseteq arena'

Spec == Init /\ [][Alloc \/ Free]_<<arena, live>>
=============================================================================
