------------------------------ MODULE MCKHeap -------------------------------
(* Constants for model-checking KHeap: two chunks of two pages and a page  *)
(* for others; sizes that leave a header's worth over or fill a chunk.     *)
EXTENDS KHeap
=============================================================================
