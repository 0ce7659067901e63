------------------------------ MODULE SyncWalk ------------------------------
(***************************************************************************)
(* The walk over the dirty blocks in ext2_sync, fs/ext2.c, with its        *)
(* pointers: list_each steps from node to node, the body writes a block,   *)
(* takes its node out of the list and steps on once more itself.           *)
(*                                                                         *)
(* The list's operations are those of Ring.  The list is only used with    *)
(* the file system's mutex held, so nothing comes between the steps of a   *)
(* walk.  Ext2 has the walk as one step, by Drained.                       *)
(***************************************************************************)
EXTENDS Ring

CONSTANTS
  dirty_blocks,
  Blocks        \* the nodes inside buffers

ASSUME SyncWalkAssumption == dirty_blocks \in Heads /\ Blocks \subseteq Nodes

VARIABLES
  sync_pc,  \* where the walk stands
  bn, temp, \* its variables
  written,  \* history: the blocks it has written, in order
  waiting   \* history: the list when it began

syncVars == <<sync_pc, bn, temp, written, waiting>>

dirty == contents[dirty_blocks]

(* Nothing is waiting; a node's pointers are not read before it is linked  *)
(* (Ring), they may as well be its own.                                    *)
SyncInit ==
  /\ contents = [h \in Heads |-> << >>]
  /\ next = [c \in Cells |-> c] /\ prev = [c \in Cells |-> c]
  /\ sync_pc = "user"
  /\ bn = dirty_blocks /\ temp = dirty_blocks
  /\ written = << >> /\ waiting = << >>

(* ext2_write, of a buffer that does not wait already.                     *)
dirty_insert(b) ==
  /\ sync_pc = "user" /\ b \in Blocks \ Members
  /\ queue_insert_tail(dirty_blocks, b)
  /\ UNCHANGED syncVars

(* list_each begins with the first.                                        *)
sync_start ==
  /\ sync_pc = "user"
  /\ bn' = next[dirty_blocks] /\ sync_pc' = "test"
  /\ written' = << >> /\ waiting' = dirty
  /\ UNCHANGED <<vars, temp>>

(* The block is written and the successor read, or the write fails and the *)
(* sync returns.                                                           *)
sync_round ==
  /\ sync_pc = "test"
  /\ \/ /\ bn # dirty_blocks
        /\ written' = Append(written, bn) /\ temp' = next[bn] /\ sync_pc' = "remove"
     \/ /\ bn # dirty_blocks
        /\ sync_pc' = "user" /\ UNCHANGED <<written, temp>>
     \/ /\ bn = dirty_blocks
        /\ sync_pc' = "done" /\ UNCHANGED <<written, temp>>
  /\ UNCHANGED <<vars, bn, waiting>>

(* list_remove is queue_remove, line by line.                              *)
sync_remove ==
  /\ sync_pc = "remove" /\ queue_remove(bn) /\ sync_pc' = "advance"
  /\ UNCHANGED <<bn, temp, written, waiting>>

(* Mutant of sync_advance: the end is looked for before the step as well.  *)
AdvanceToHead ==
  /\ sync_pc = "advance"
  /\ bn' = IF temp = dirty_blocks THEN temp ELSE next[temp]
  /\ sync_pc' = "test"
  /\ UNCHANGED <<vars, temp, written, waiting>>

(* Mutant of sync_advance: the node taken out is followed, not `temp'.     *)
SyncFromNode ==
  /\ sync_pc = "advance" /\ bn' = next[bn] /\ sync_pc' = "test"
  /\ UNCHANGED <<vars, temp, written, waiting>>

(* bn is set to temp and list_each goes to what is behind it, the head     *)
(* or, if temp is the head, the first that is left.                        *)
sync_advance ==
  /\ sync_pc = "advance" /\ bn' = next[temp] /\ sync_pc' = "test"
  /\ UNCHANGED <<vars, temp, written, waiting>>

sync_end ==
  /\ sync_pc = "done" /\ sync_pc' = "user"
  /\ UNCHANGED <<vars, bn, temp, written, waiting>>

SyncNext ==
  \/ \E b \in Blocks : dirty_insert(b)
  \/ sync_start \/ sync_round \/ sync_remove \/ sync_advance \/ sync_end

SyncSpec == SyncInit /\ [][SyncNext]_<<vars, syncVars>>

-----------------------------------------------------------------------------
(* A sync that meets no error writes all the waiting blocks exactly when   *)
(* they are 0, 1, 3, 7 ... in number: it steps over every other one and,   *)
(* when it has written the last, past the head back to the front.  What it *)
(* takes and what it leaves is what Ext2 says.                             *)
SyncSkips ==
  sync_pc = "done" =>
    /\ written = Drained(waiting).taken /\ dirty = Drained(waiting).left
    /\ dirty = << >> <=> \E k \in 0 .. Len(waiting) : Len(waiting) = 2^k - 1

(* A block that waits is written once and then leaves the list, or stays   *)
(* in it, in order, whatever write fails: no walk goes round for ever, no  *)
(* block is dropped unwritten.                                             *)
WrittenOrWaiting ==
  sync_pc \in {"test", "advance", "done"} =>
    /\ IsInjective(written)
    /\ dirty = SelectSeq(waiting, LAMBDA b : b \notin Range(written))
=============================================================================
