------------------------------- MODULE MCRing -------------------------------
(* Two queues and three nodes: a node's neighbours can be the head, the    *)
(* same node on both sides, or two nodes, and nodes move between rings.    *)
EXTENDS Ring, TLC

CONSTANTS h1, h2, n1, n2, n3

MCHeads == {h1, h2}
MCNodes == {n1, n2, n3}
MCSymmetry == Permutations(MCHeads) \cup Permutations(MCNodes)
=============================================================================
