------------------------------- MODULE MCWalks ------------------------------
(* Four tasks beside the idle task: the first of the sleepers, the last,   *)
(* neighbours or all of them are due at a tick.  Up to seven blocks wait:  *)
(* sync comes round to the front twice.  Three loose nodes: a node's       *)
(* neighbours are the head, the same node on both sides, or two nodes.     *)
EXTENDS Walks, TLC

CONSTANTS h1, h2, idle, n1, n2, n3, n4, n5, n6, n7

MCHeads == {h1, h2}
MCBlocks == {n1, n2, n3, n4, n5, n6, n7}
MCNodes == MCBlocks \cup {idle}
MCBoot == <<idle, n1, n2, n3, n4>>
MCLoose == {n1, n2, n3}
MCSymmetry == Permutations(MCBlocks)
=============================================================================
