-------------------------------- MODULE Walks --------------------------------
(***************************************************************************)
(* The users of rings together: task_tick and task_sleep, ext2_sync and    *)
(* ext2_write, and anybody who moves nodes one at a time.                  *)
(*                                                                         *)
(* No node and no head is shared between them in the kernel, a user sees   *)
(* nothing of the others, so each behaviour is of one user alone, chosen   *)
(* in the initial state; the variables of the other walks are `off'.       *)
(***************************************************************************)
EXTENDS TickWalk, SyncWalk

CONSTANT Loose   \* bound: the nodes moved about one at a time

ASSUME WalksAssumption == Loose \subseteq Nodes

TickOff ==
  /\ sleep_ticks = [t \in Nodes |-> 0] /\ pc = "off"
  /\ q = sleep_task_queue /\ succ = sleep_task_queue
  /\ before = [contents |-> contents, sleep_ticks |-> sleep_ticks]

SyncOff ==
  /\ sync_pc = "off" /\ bn = dirty_blocks /\ temp = dirty_blocks
  /\ written = << >> /\ waiting = << >>

(* Init of Ring, for loose nodes.                                          *)
LooseInit ==
  LET Anywhere == {[c \in Cells |-> IF c \in Loose THEN f[c] ELSE c] : f \in [Loose -> Heads \cup Loose]}
  IN  /\ next \in Anywhere /\ prev \in Anywhere
      /\ contents = [h \in Heads |-> << >>]

WalksInit ==
  \/ TickInit /\ SyncOff
  \/ SyncInit /\ TickOff
  \/ LooseInit /\ TickOff /\ SyncOff

(* A node at a time, into a ring at either end or out of it.               *)
LooseNext ==
  /\ pc = "off" /\ sync_pc = "off"
  /\ Next /\ Members' \subseteq Loose

WalksNext ==
  \/ TickNext /\ UNCHANGED syncVars
  \/ SyncNext /\ UNCHANGED tickVars
  \/ LooseNext /\ UNCHANGED <<tickVars, syncVars>>

WalksSpec == WalksInit /\ [][WalksNext]_<<vars, tickVars, syncVars>>
=============================================================================
