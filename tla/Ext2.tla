-------------------------------- MODULE Ext2 --------------------------------
(***************************************************************************)
(* The buffer cache, fs/buffer.c, and the files of the ext2 file system    *)
(* over it, fs/ext2.c: path lookup, the window of cached inodes, reading,  *)
(* writing, seeking, and the sync that closing a file makes.               *)
(*                                                                         *)
(* The callers hold the file system's mutex, so each call is one action.   *)
(* A block is a sequence of units: inodes, directory entries, pointers to  *)
(* blocks, pieces of data.  Each inode bears its number.                   *)
(***************************************************************************)
EXTENDS Integers, FiniteSets, Queues, TLC

CONSTANTS
  Units,       \* bound: units in a block; 1024 pointers in the code
  Direct,      \* blocks an inode points to itself, 12 in the code
  Window,      \* blocks of inodes in the cache, 5 in the code
  Table,       \* bound: the blocks of the inode table, from block 1 on
  BUFFER_HASH_SIZE,
  PerBucket,   \* buffers in a bucket, 100 in the code
  Image,       \* the disk when it is mounted, a function from block numbers
  Regular,     \* the numbers of the inodes of its regular files
  Opens,       \* the pairs <<name, mode>> files are opened with
  Begins,      \* the pairs <<n, p>> of names where n begins with p
  Files,       \* the entries of the file table, numbers
  Reads, Writes,  \* the sizes of reads and of writes
  Offsets,     \* the offsets of seeks
  Bad,         \* the blocks that may fail to be read
  Ticks,       \* bound: the numbers of calls after which a second may end
  MaxCalls     \* bound: calls in a history

ASSUME Ext2Assumption ==
  /\ {Units, Direct, Window, BUFFER_HASH_SIZE, PerBucket, MaxCalls} \subseteq Nat \ {0}
  /\ Regular \cup Ticks \subseteq Nat

RootInode == 2
O_RDONLY == 0
O_WRONLY == 1
NoBlock == -1
Closed == [ino |-> 0, inode |-> 0, pos |-> 0, cur_block |-> 0, mode |-> 0]
Junk == [i \in 1 .. Units |-> [d |-> "junk"]]
IsInode(u) == "ptrs" \in DOMAIN u

VARIABLES
  m,      \* the disk, the buffers and the window of inodes
  file,   \* the file table
  now,    \* the timestamp
  truth,  \* history: what the files hold if every call did what it says
  cause,  \* history: what went wrong
  calls   \* history: how many calls there were

vars == <<m, file, now, truth, cause, calls>>

-----------------------------------------------------------------------------
(* What is on a disk, by the layout of ext2: block k of inode u.  Block 0  *)
(* is the boot block, a pointer to it points nowhere.                      *)
PointerOf(unit) == IF "p" \in DOMAIN unit THEN unit.p ELSE NoBlock
BlockOf(d, u, k) ==
  LET j == k - Direct - Units
      In(b, i) == IF b <= 0 THEN b ELSE PointerOf(d[b][i + 1])
  IN  IF k < Direct THEN u.ptrs[k + 1]
      ELSE IF k < Direct + Units THEN In(u.ptrs[Direct + 1], k - Direct)
      ELSE In(In(u.ptrs[Direct + 2], j \div Units), j % Units)

Content(d, u) ==
  [k \in 1 .. u.size |->
     LET b == BlockOf(d, u, (k - 1) \div Units)
     IN  IF b <= 0 THEN [d |-> "hole"] ELSE d[b][((k - 1) % Units) + 1]]

InodeOn(d, ino) == d[1 + (ino - 1) \div Units][1 + ((ino - 1) % Units)]

Init ==
  /\ m = [disk  |-> Image,
          bufs  |-> << >>,     \* the buffers, in the order they were made
          heads |-> [h \in 0 .. BUFFER_HASH_SIZE - 1 |-> << >>],  \* newest first
          dirty |-> << >>,
          begin |-> 0,         \* the window's first block, 0 for none
          idata |-> [i \in 1 .. Window * Units |-> [d |-> "junk"]],
          bad   |-> NoBlock,   \* the block that cannot be read in this call
          failed |-> FALSE,    \* a read failed in this call
          harm  |-> {}]        \* history: what went wrong in the buffers
  /\ file = [f \in Files |-> Closed]
  /\ now = 0
  /\ truth = [ino \in Regular |-> Content(Image, InodeOn(Image, ino))]
  /\ cause = {}
  /\ calls = 0

-----------------------------------------------------------------------------
(* Mutant of evict: the buffer taken is marked to be read.                 *)
EvictUnread(bufs, exp, looked, bno) ==
  [bufs EXCEPT ![exp] = [@ EXCEPT !.block_no = bno, !.exp_time = now, !.b_state = 0]]

evict(bufs, exp, looked, bno) ==
  [[bufs EXCEPT ![exp] = [@ EXCEPT !.block_no = bno, !.exp_time = now]]
     EXCEPT ![looked].b_state = 2]

(* buffer.c: below PerBucket a bucket is not searched, every call makes a  *)
(* new buffer.  A full one is: a hit returns with the mutex locked; a miss *)
(* takes the buffer used longest ago but marks the last one looked at.     *)
bget_block(c, bno) ==
  LET h    == bno % BUFFER_HASH_SIZE
      head == c.heads[h]
      Least(S) == CHOOSE i \in S : \A j \in S : i <= j
      Old  == {i \in DOMAIN head : \A j \in DOMAIN head :
                 c.bufs[head[i]].exp_time <= c.bufs[head[j]].exp_time}
      Hits == {i \in DOMAIN head : c.bufs[head[i]].block_no = bno /\ c.bufs[head[i]].b_state = 1}
      New(id) ==
        [m |-> [c EXCEPT !.bufs = Append(@, [block_no |-> bno, exp_time |-> now, b_state |-> 0,
                                             data |-> Junk]),
                         !.heads[h] = <<id>> \o @],
         id |-> id]
      Hit(id) == [m |-> [c EXCEPT !.bufs[id].exp_time = now, !.harm = @ \cup {"locked"}], id |-> id]
      Evict(id) ==
        [m |-> [c EXCEPT !.bufs = evict(@, id, Last(head), bno),
                         !.harm = @ \cup {IF c.bufs[id].b_state = 0 THEN "reused" ELSE "evicted"}],
         id |-> id]
  IN  IF Len(head) < PerBucket THEN New(Len(c.bufs) + 1)
      ELSE IF Hits # {} THEN Hit(head[Least(Hits)])
      ELSE Evict(head[Least(Old)])

(* id is 0 for NULL.  A pointer that is no block's number leads anywhere;  *)
(* a call is followed up to the first thing that goes wrong.               *)
read_block(c, bno) ==
  LET Found(g, b) ==
        LET disk == IF b.b_state = 2 THEN [g.m.disk EXCEPT ![bno] = b.data] ELSE g.m.disk
        IN  IF b.b_state = 1 THEN g
            ELSE IF bno = c.bad THEN [g EXCEPT !.m.disk = disk, !.m.failed = TRUE]
            ELSE [g EXCEPT !.m.disk = disk, !.m.bufs[g.id].data = disk[bno],
                           !.m.bufs[g.id].b_state = 1]
      Read(g) == Found(g, g.m.bufs[g.id])
      Judged(r, b) ==
        [m |-> IF r.m.disk # c.disk \/ (b.b_state = 1 /\ b.data # c.disk[bno])
               THEN [r.m EXCEPT !.harm = @ \cup {"misfiled"}] ELSE r.m,
         id |-> IF r.m.harm # {} \/ b.b_state # 1 THEN 0 ELSE r.id]
      Judge(r) == Judged(r, r.m.bufs[r.id])
  IN  IF c.harm # {} THEN [m |-> c, id |-> 0]
      ELSE IF bno \notin DOMAIN Image THEN [m |-> [c EXCEPT !.harm = {"astray"}], id |-> 0]
      ELSE Judge(Read(bget_block(c, bno)))

DataOf(r) == r.m.bufs[r.id].data

-----------------------------------------------------------------------------
(* The blocks from `first' on that are read before a read fails, that one  *)
(* included.                                                               *)
UpToBad(c, first) ==
  LET n == IF c.bad \in first .. first + Window - 1 THEN c.bad - first + 1 ELSE Window
  IN  [i \in 1 .. n |-> first + i - 1]

(* What an inode of the cache makes of the unit it is written over: one    *)
(* that is no inode has its fields replaced where those of an inode are.   *)
(* Left out: the group, which gets the owner, and the count of sectors,    *)
(* which is cut to 16 bits.                                                *)
Stored(cached, u) ==
  IF IsInode(cached) /\ IsInode(u) THEN [cached EXCEPT !.kind = u.kind] ELSE [was |-> cached]

(* Mutant of write_inode: the cached inodes are dropped.                   *)
WindowDropped(c) == c

write_inode(c) ==
  LET Back(s, b) ==
        LET Put(r, data) ==
              IF r.id = 0 THEN r.m
              ELSE [r.m EXCEPT !.bufs[r.id].data = data, !.disk[r.m.bufs[r.id].block_no] = data]
            Merge(r) ==
              Put(r, [i \in 1 .. Units |-> Stored(s.idata[(b - c.begin) * Units + i], DataOf(r)[i])])
        IN  Merge(read_block(s, b))
  IN  IF c.begin = 0 THEN c ELSE FoldLeft(Back, c, UpToBad(c, c.begin))

(* The place of inode `ino' in the window that begins at block b.          *)
Slot(b, ino) == (1 + (ino - 1) \div Units - b) * Units + ((ino - 1) % Units) + 1
InWindow(b, ino) == b # 0 /\ 1 + (ino - 1) \div Units - b \in 0 .. Window - 1

(* inode is a place in the window, 0 for NULL.  Loading a window overwrites*)
(* the old one block by block and sets `begin' only at the end.            *)
iget_inode(c, ino) ==
  LET first == 1 + (ino - 1) \div Units
      Copy(r, b) ==
        IF r.id = 0 THEN r.m
        ELSE [r.m EXCEPT !.idata = [i \in DOMAIN @ |->
                IF (i - 1) \div Units = b - first THEN DataOf(r)[((i - 1) % Units) + 1] ELSE @[i]]]
      Load(s, b) == Copy(read_block(s, b), b)
      Loaded(w) ==
        IF w.harm # {} \/ c.bad \in first .. first + Window - 1
        THEN [m |-> w, inode |-> 0]
        ELSE [m |-> [w EXCEPT !.begin = first], inode |-> Slot(first, ino)]
  IN  IF InWindow(c.begin, ino) THEN [m |-> c, inode |-> Slot(c.begin, ino)]
      ELSE Loaded(FoldLeft(Load, write_inode(c), UpToBad(c, first)))

(* The first entry whose name begins with the one asked for; ino is 0 when *)
(* there is none or a block cannot be read.                                *)
find_inode_in_dir(c, inode, name) ==
  LET dir == c.idata[inode]
      Search(s, r) ==
        LET fits == {i \in 1 .. Units : DataOf(r)[i].ino # 0 /\ <<DataOf(r)[i].name, name>> \in Begins}
        IN  IF r.id = 0 THEN [m |-> r.m, ino |-> 0, done |-> TRUE]
            ELSE IF fits = {} THEN [s EXCEPT !.m = r.m]
            ELSE [m |-> r.m, done |-> TRUE,
                  ino |-> DataOf(r)[CHOOSE i \in fits : \A j \in fits : i <= j].ino]
      Scan(s, k) == IF s.done THEN s ELSE Search(s, read_block(s.m, dir.ptrs[k]))
      none == [m |-> c, ino |-> 0, done |-> FALSE]
  IN  IF dir.kind # "dir" THEN none
      ELSE FoldLeft(Scan, none, [k \in 1 .. (dir.size + Units - 1) \div Units |-> k])

(* Paths are one name long: every file is in the root directory.           *)
find_inode_by_path(c, name) ==
  LET Inode(e) == IF e.ino = 0 THEN [m |-> e.m, ino |-> 0, inode |-> 0]
                  ELSE [ino |-> e.ino] @@ iget_inode(e.m, e.ino)
      Root(i) == IF i.inode = 0 THEN [ino |-> 0] @@ i
                 ELSE Inode(find_inode_in_dir(i.m, i.inode, name))
  IN  Root(iget_inode(c, RootInode))

(* The pointer at byte k of a block of pointers of four bytes: the code    *)
(* adds an index to a pointer to bytes.                                    *)
PointerAt(data, k) == IF k % 4 = 0 THEN PointerOf(data[k \div 4 + 1]) ELSE NoBlock

(* The number of block `index' of inode u.                                 *)
iget_bno(c, u, index) ==
  LET double == index - Direct - Units
      triple == double - Units * Units
      Entry(r, k) == [m |-> r.m, bno |-> IF r.id = 0 THEN NoBlock ELSE PointerAt(DataOf(r), k)]
      Follow(s, k) == Entry(read_block(s.m, s.bno), k)
      Root(i) == [m |-> c, bno |-> u.ptrs[Direct + i]]
  IN  IF index < Direct THEN [m |-> c, bno |-> u.ptrs[index + 1]]
      ELSE IF double < 0 THEN Follow(Root(1), index - Direct)
      ELSE IF triple < 0 THEN FoldLeft(Follow, Root(2), <<double \div Units, double % Units>>)
      ELSE FoldLeft(Follow, Root(3), <<triple \div (Units * Units),
                                       (triple % (Units * Units)) \div Units, triple % Units>>)

-----------------------------------------------------------------------------
(* Mutant of next_block: the next block is read from the same place in it. *)
NextKeepsBegin(s, next, room) ==
  [s EXCEPT !.m = next.m, !.pos = @ + room, !.left = @ - room, !.cur_block = @ + 1, !.bno = next.bno]

next_block(s, next, room) ==
  [s EXCEPT !.m = next.m, !.pos = @ + room, !.left = @ - room, !.begin = 0,
            !.cur_block = @ + 1, !.bno = next.bno]

(* One block of a read of `size' units from inode u.  It is the whole size *)
(* that is compared with the room in the block, not what is left of it, and*)
(* a read that ends with its block leaves cur_block at it.                 *)
read_step(s, u, size) ==
  LET room == Units - s.begin
      Got(r) ==
        IF r.id = 0 THEN [s EXCEPT !.m = r.m, !.left = 0, !.size = 0]
        ELSE IF size <= room
        THEN [s EXCEPT !.m = r.m, !.got = @ \o SubSeq(DataOf(r), s.begin + 1, s.begin + s.left),
                       !.pos = @ + s.left, !.left = 0]
        ELSE [next_block(s, iget_bno(r.m, u, s.cur_block + 1), room)
                EXCEPT !.got = @ \o SubSeq(DataOf(r), s.begin + 1, Units)]
  IN  IF s.left <= 0 THEN s ELSE Got(read_block(s.m, s.bno))

ext2_read(c, fl, asked) ==
  LET u     == c.idata[fl.inode]
      size  == IF fl.pos + asked > u.size THEN u.size - fl.pos ELSE asked
      start == [begin |-> fl.pos % Units, got |-> << >>, left |-> size, size |-> size,
                pos |-> fl.pos, cur_block |-> fl.cur_block] @@ iget_bno(c, u, fl.cur_block)
  IN  FoldLeft(LAMBDA s, i : read_step(s, u, size), start, [i \in 1 .. (asked + Units) \div Units + 1 |-> i])

Overwrite(data, at, n) ==
  [i \in 1 .. IF at + n > Len(data) THEN at + n ELSE Len(data) |->
     IF at < i /\ i <= at + n THEN [d |-> "new"] ELSE data[i]]

(* Mutant of Grow: the inode's size is left as it is.                      *)
GrowNot(c, inode, size) == c

Grow(c, inode, size) == [c EXCEPT !.idata[inode].size = @ + size]

(* Only the block at the position is written, the rest of a longer write is*)
(* dropped; the inode grows by the whole size wherever the position is.    *)
ext2_write(c, fl, size) ==
  LET at == fl.pos % Units
      n  == IF size <= Units - at THEN size ELSE Units - at
      Into(r) ==
        IF r.id = 0 THEN [m |-> r.m, n |-> 0]
        ELSE [n |-> n, m |-> Grow([r.m EXCEPT !.bufs[r.id].data = Overwrite(@, at, n),
                                              !.dirty = Append(@, r.id)], fl.inode, size)]
      At(b) == Into(read_block(b.m, b.bno))
  IN  At(iget_bno(c, c.idata[fl.inode], fl.pos \div Units))

(* The blocks the walk over the list takes; module SyncWalk has the walk.  *)
write_dirty(c) ==
  LET w == Drained(c.dirty)
      Write(d, id) == [d EXCEPT ![c.bufs[id].block_no] = c.bufs[id].data]
  IN  [c EXCEPT !.disk = FoldLeft(Write, @, w.taken), !.dirty = w.left]

ext2_sync(c) == write_inode(write_dirty(c))

-----------------------------------------------------------------------------
(* What the caches and the disk below them hold, by the layout.            *)
Seen(c) == FoldLeft(LAMBDA d, id : [d EXCEPT ![c.bufs[id].block_no] = c.bufs[id].data],
                    c.disk, c.dirty)
InodeSeen(c, ino) ==
  IF InWindow(c.begin, ino) THEN c.idata[Slot(c.begin, ino)] ELSE InodeOn(c.disk, ino)

(* Every file is as it should be, and all else as it was.                  *)
Intact(c, tr) ==
  LET d == Seen(c)
  IN  /\ \A ino \in 1 .. Units * Table :
           LET u == InodeSeen(c, ino)
           IN  IF ino \notin Regular THEN u = InodeOn(Image, ino)
               ELSE /\ IsInode(u) /\ u.ino = ino /\ u.size = Len(tr[ino])
                    /\ Content(d, u) = tr[ino]
      /\ \A b \in {0} \cup Range(InodeOn(Image, RootInode).ptrs) : d[b] = Image[b]

(* The end of a call for file f: what it left, and what it did wrong.      *)
Done(c, tr, f, what, wrong) ==
  /\ m' = [c EXCEPT !.bad = NoBlock]
  /\ truth' = tr
  /\ cause' = {<<w, f>> : w \in c.harm \cup wrong
                             \cup (IF c.harm = {} /\ ~Intact(c, tr) THEN {what} ELSE {})}
  /\ calls' = calls + 1
  /\ UNCHANGED now

Start(bad) == [m EXCEPT !.bad = bad, !.failed = FALSE]

(* alloc_file has taken the first free entry.                              *)
open(f, name, mode, bad) ==
  LET Found(r) ==
        /\ file' = IF r.inode = 0 \/ r.m.idata[r.inode].kind = "dir" THEN file
                   ELSE [file EXCEPT ![f] = [ino |-> r.ino, inode |-> r.inode, pos |-> 0,
                                             cur_block |-> 0, mode |-> mode]]
        /\ Done(r.m, truth, f, "window", {})
  IN  /\ file[f] = Closed /\ \A g \in Files : g < f => file[g] # Closed
      /\ Found(find_inode_by_path(Start(bad), name))

(* The file's inode pointer still denotes the inode of a file.             *)
Usable(f) == file[f] # Closed /\ IsInode(m.idata[file[f].inode])

Least(i, j) == IF i < j THEN i ELSE j

read(f, size, bad) ==
  LET all == truth[file[f].ino]
      due == SubSeq(all, file[f].pos + 1, Least(file[f].pos + size, Len(all)))
      Got(r) ==
        /\ file' = [file EXCEPT ![f].pos = r.pos, ![f].cur_block = r.cur_block]
        /\ Done(r.m, truth, f, "window",
                {w \in {"misread", "overrun"} :
                   IF w = "overrun" THEN Len(r.got) > size
                   ELSE ~r.m.failed /\ r.m.harm = {}
                          /\ SubSeq(r.got, 1, Least(r.size, Len(r.got))) # due})
  IN  Usable(f) /\ Got(ext2_read(Start(bad), file[f], size))

write(f, size, bad) ==
  LET ino == file[f].ino
      Wrote(r) ==
        /\ file' = [file EXCEPT ![f].pos = @ + r.n]
        /\ Done(r.m, IF r.n = 0 THEN truth
                     ELSE [truth EXCEPT ![ino] = Overwrite(@, file[f].pos, size)], f, "write", {})
  IN  /\ Usable(f)
      /\ file[f].pos <= Len(truth[ino])
      /\ Wrote(ext2_write(Start(bad), file[f], size))

ext2_seek(f, offset) ==
  /\ file[f] # Closed
  /\ file' = [file EXCEPT ![f].pos = offset, ![f].cur_block = offset \div Units]
  /\ calls' = calls + 1
  /\ UNCHANGED <<m, now, truth, cause>>

(* The caches are written back unless bit 0 of the mode, O_WRONLY, is set. *)
ext2_close(f, bad) ==
  /\ file[f] # Closed
  /\ file' = [file EXCEPT ![f] = Closed]
  /\ Done(IF file[f].mode = O_WRONLY THEN m ELSE ext2_sync(Start(bad)), truth, f, "window", {})

tick ==
  /\ calls \in Ticks /\ now < Cardinality({n \in Ticks : n <= calls})
  /\ now' = now + 1
  /\ UNCHANGED <<m, file, truth, cause, calls>>

(* A history ends with the first thing gone wrong.                         *)
Next ==
  /\ cause = {}
  /\ calls < MaxCalls
  /\ \/ \E f \in Files, bad \in Bad \cup {NoBlock} :
          \/ \E o \in Opens : open(f, o[1], o[2], bad)
          \/ \E size \in Reads : read(f, size, bad)
          \/ \E size \in Writes : write(f, size, bad)
          \/ ext2_close(f, bad)
     \/ \E f \in Files, offset \in Offsets : ext2_seek(f, offset)
     \/ tick

Spec == Init /\ [][Next]_vars

-----------------------------------------------------------------------------
(* Why a read may return something else than the file's data.              *)
PointerStale(f) == m.idata[file[f].inode].ino # file[f].ino
Lags(f)    == file[f].cur_block # file[f].pos \div Units
Blocks(f)  == {BlockOf(m.disk, InodeOn(Image, file[f].ino), k) :
                 k \in 0 .. (Len(truth[file[f].ino]) - 1) \div Units}
Pending(f) == \E id \in Range(m.dirty) : m.bufs[id].block_no \in Blocks(f)
Far(f)     == file'[f].cur_block > Direct
Full(f)    == {<<"locked", f>>, <<"evicted", f>>, <<"reused", f>>} \cap cause' # {}

(* Until a bucket is full, a read returns the file's data unless the window*)
(* of inodes has moved away under the open file, the last read ended with  *)
(* its block, what was written to the file still waits in a buffer no read *)
(* finds, or the file has more than one block behind pointers.             *)
ReadsItsFile ==
  [][\A f \in Files :
       {<<"misread", f>>, <<"astray", f>>} \cap cause' # {} =>
         PointerStale(f) \/ Lags(f) \/ Pending(f) \/ Far(f)]_vars

(* A write leaves the file as it should be exactly when it appends within  *)
(* the last block and nothing written to the file before waits in a buffer.*)
WritesOnlyAppend ==
  [][\A f \in Files :
       Len(m'.dirty) > Len(m.dirty) /\ file'[f].pos # file[f].pos /\ ~Full(f) =>
         LET old == Len(truth[file[f].ino])
         IN  <<"write", f>> \notin cause' <=>
               /\ file[f].pos = old /\ old % Units # 0
               /\ Len(truth'[file[f].ino]) = file'[f].pos
               /\ ~PointerStale(f) /\ ~Pending(f)]_vars

(* Opening, reading and closing files keeps every file's data, size and    *)
(* block pointers, what waits in the caches counted in, unless a read from *)
(* the disk fails in a call or the window of inodes runs over the end of   *)
(* the inode table.                                                        *)
WindowKeepsFiles ==
  [][\A f \in Files :
       <<"window", f>> \in cause' =>
         m'.failed \/ m.begin + Window - 1 > Table \/ m'.begin + Window - 1 > Table]_vars

(* A full bucket that does not have a block serves another one's data for  *)
(* it, or writes another one's data over it: always when the buffer it     *)
(* takes was ever read into, and never before the bucket is full.          *)
EvictionMisfiles ==
  [][\A f \in Files : /\ <<"misfiled", f>> \in cause' => Full(f)
                      /\ <<"evicted", f>> \in cause' => <<"misfiled", f>> \in cause']_vars
=============================================================================
