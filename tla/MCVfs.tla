------------------------------- MODULE MCVfs -------------------------------
(* Three tasks with two descriptors each and a file table of two entries:  *)
(* one task waits in the last close of an entry, one has the mutex and one *)
(* opens.                                                                  *)
EXTENDS Vfs
=============================================================================
