------------------------------- MODULE MCExt2 -------------------------------
(* An image for model-checking Ext2: blocks of four units; an inode table  *)
(* of four blocks and windows of two; a file `s' with half a block, a file *)
(* `g' that reaches two blocks behind its block of pointers and a file `h' *)
(* that fills one block, each with its inode in another block of the table.*)
EXTENDS Ext2

Inode(ino, kind, size, ptrs) == [ino |-> ino, kind |-> kind, size |-> size, ptrs |-> ptrs]
Data(name, n) == [i \in 1 .. Units |-> IF i <= n THEN [d |-> name, at |-> i] ELSE [d |-> "zero"]]

TableUnit(ino) ==
  CASE ino = 2  -> Inode(ino, "dir", 4, <<6, 0, 0, 0, 0>>)
    [] ino = 3  -> Inode(ino, "file", 1, <<5, 0, 0, 0, 0>>)
    [] ino = 4  -> Inode(ino, "file", 1, <<13, 0, 0, 0, 0>>)
    [] ino = 9  -> Inode(ino, "file", 15, <<7, 8, 9, 0, 0>>)
    [] ino = 13 -> Inode(ino, "file", 4, <<12, 0, 0, 0, 0>>)
    [] OTHER    -> Inode(ino, "free", 0, <<0, 0, 0, 0, 0>>)

MCImage ==
  [b \in 0 .. 13 |->
     CASE b \in 1 .. 4 -> [i \in 1 .. 4 |-> TableUnit(4 * (b - 1) + i)]
       [] b = 5  -> Data("s", 1)
       [] b = 6  -> <<[name |-> "s", ino |-> 3], [name |-> "h", ino |-> 13],
                      [name |-> "t1", ino |-> 4], [name |-> "g", ino |-> 9]>>
       [] b = 7  -> Data("g0", 4)
       [] b = 8  -> Data("g1", 4)
       [] b = 9  -> <<[p |-> 10], [p |-> 11], [p |-> 0], [p |-> 0]>>
       [] b = 10 -> Data("g2", 4)
       [] b = 11 -> Data("g3", 3)
       [] b = 12 -> Data("h", 4)
       [] b = 13 -> Data("t", 1)
       [] OTHER  -> Data("super", 4)]

MCOpens == {<<"s", O_RDONLY>>, <<"g", O_RDONLY>>, <<"h", O_WRONLY>>, <<"t", O_WRONLY>>}
MCBegins == {<<o[1], o[1]>> : o \in MCOpens} \cup {<<"t1", "t">>}
=============================================================================
