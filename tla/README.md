# MangoOS in TLA+

MangoOS is a small 32-bit kernel for one x86 CPU: a round-robin scheduler with
mutexes and semaphores, an IDE disk driver, a paged memory manager, a kernel
heap, and an ext2 file system over a buffer cache. This directory holds TLA+
models of the kernel, the TLC configurations that check them on small instances,
and TLAPS proofs of the results that matter most, for every instance.

All paths below are relative to `src/source/` unless they start with `src/`.

## 1. The system

### What runs, and when it can be interrupted

Every gate of the IDT is an interrupt gate (`kernel/irq.c:100`), so system calls
and interrupt handlers run with interrupts off. Interrupts come in user mode, in
the idle task's `hlt` (`kernel/init.c:66`), and in the one kernel thread that
`task_init` starts with IF set (`kernel/task.c:75`): `init_task_entry`, which
execs `/boot/init` from the disk. A system call is therefore one atomic step up
to the point where it blocks; the init thread can be interrupted between any two
steps outside `enter_critical()`/`leave_critical()`. A handler that calls
`schedule()` (`task_tick`, `sem_notify`) is suspended in the middle and goes on
when the task it interrupted has the CPU again.

### Components

| component | code | state | operations | what makes it correct |
|---|---|---|---|---|
| scheduler | `kernel/sched.c`, `kernel/task.c`, `kernel/init.c` | task state, slice, sleep ticks, ready and sleep queue, `current` | `schedule`, `task_tick`, `sys_sleep`, `task_yield`, `sys_fork` | a task is in the one queue its state names; the CPU runs a task of the ready queue; nobody starves, sleepers wake |
| mutexes, semaphores | `kernel/ipc.c` | count, owner, depth, wait queues | lock, unlock, wait, notify | mutual exclusion, no lost wake-up, first come first served |
| queues | `lib/queue.c`, `lib/list.c` | `next` and `prev` of heads and nodes | insert head/tail, remove, insert | rings stay rings and keep their order |
| disk driver | `device/disk.c` | mutex, semaphore, `wait_interupt`, partitions | `disk_read`, `disk_write`, `do_handler_ide` | one command at a time, data moved only when the drive wants it, every transfer ends |
| interrupt controller | `kernel/irq.c`, `kernel/arch.c` | request, in-service, mask | `irq_install`, `enable_8259`, `pic_done` | each interrupt is ended, none is lost |
| device table | `device/dev.c` | type, minor, open count per entry | open, close, read, write | open counts pair with closes; only known majors open |
| frames | `mm/bitmap.c`, `mm/page.c` | one bit per 4 KB frame | `alloc_pages`, `free_pages` | a frame has one user |
| address spaces | `mm/page.c`, `kernel/task.c` | page directories and tables | `alloc_vpages`, `free_vpages`, `create_pde`, `destroy_pde`, `copy_memory` | tables name frames they own, no leak, no double free |
| kernel heap | `mm/memory.c` | free list of blocks | `kmalloc`, `kfree` | blocks partition the pages; blocks in use are apart; every call returns |
| files | `fs/file.c`, `fs/fs.c`, `kernel/task.c` | file table, reference counts, descriptors | open, close, fork's copy | count = references; an entry in use is nobody else's |
| mounts | `fs/fs.c` | mount table | `mount`, dispatch | longest match, one file system per entry |
| buffer cache | `fs/buffer.c` | hash buckets, block state, dirty list | `bget_block` | a block is cached once; an evicted dirty block reaches the disk |
| ext2 | `fs/ext2.c` | super block, groups, window of inodes, open files' positions | open, read, write, seek, sync, close, unlink | what was written is read; opening and closing changes no file |
| clock | `kernel/time.c` | `sys_tick`, `timestamp` | tick, RTC, `kernel_mktime` | seconds follow ticks; the date conversion is right |
| exec | `kernel/task.c` | image, arguments | `load_elf_file`, `sys_execve`, `copy_*_user` | image and arguments arrive whole |
| console | `lib/log.c` | screen position | `kprintf` | writes stay on the screen |
| system calls, strings, user library, boot | `kernel/syscall.c`, `lib/string.c`, `libc/`, `init/`, `boot/` | none that outlives a call | | |

How they meet: the timer handler drives the scheduler; the IDE handler notifies
the driver's semaphore; every user of a mutex or a semaphore goes through the
scheduler's queues; `task_init` and fork take frames and address spaces; the file
system calls the buffer cache, which calls the heap and the disk driver; the init
thread enters all of these with interrupts on.

### What is hard here

* One intrusive node, `task->rq`, is in the ready, the sleep or a wait queue;
  every operation moves it and has to keep state and queue in agreement.
* Interrupts decide where a task loses the CPU, handlers are suspended half way,
  and the end of the IDE interrupt is sent late (after a task switch).
* The IDE interrupt races `sem_wait`; requests share one latch while interrupts
  are off; polled transfers at boot leave a request behind.
* Errors return early: with a mutex held (disk, buffer cache), with a table entry
  taken (open), with half an address space (fork).
* Limits: full file table, full bucket, no memory, zero ticks.
* Frames change their use: what a program stored becomes a page table's entries,
  or a task structure's descriptors, because neither is cleared.
* Caches hand out pointers into themselves: an open file points into the window
  of inodes, which moves; a block is cached more than once.

`PROJECT.json` lists each of these under `hazards`, at its line, with the
properties that cover it, or the reason why none does.

## 2. Modules

| module | models | kind |
|---|---|---|
| `Sync` | what mutexes and semaphores promise: holders, depths, permits, who is blocked | abstract specification |
| `Queues` | queues as sequences: `Position`, `Without`, `InOrder`, `Drained` | operators |
| `Sched` | scheduler, sleep, tick, fork, mutexes, semaphores | component; implements `Sync` |
| `Ring` | the doubly linked rings pointer by pointer | component; implements the sequences of `Queues` |
| `TickWalk` | the walk over the sleep queue in `task_tick`, with its pointers | composition, extends `Ring` |
| `SyncWalk` | the walk over the dirty blocks in `ext2_sync`, with its pointers | composition, extends `Ring` |
| `Walks` | the users of rings: both walks, and nodes moved one at a time | composition, extends `TickWalk`, `SyncWalk` |
| `Disk` | driver, drive and interrupt controller, run by the tasks of `Sched` | composition, extends `Sched` |
| `Frames` | the bitmap: how it is built from the memory map, runs of frames taken and given back | operators |
| `Space` | page tables, exec, fork's copy of memory, over the words of memory | component, extends `Frames` |
| `Allocator` | what a heap promises: blocks in use lie in its memory, apart | abstract specification |
| `KHeap` | `kmalloc` and `kfree`, header by header | component; keeps the promise of `Allocator` |
| `Ext2` | buffer cache, window of inodes, files of ext2 | component |
| `Vfs` | file table, descriptors, the calls on them and where they wait | component |
| `MCSched`, `MCRing`, `MCWalks`, `MCDisk`, `MCSpace`, `MCKHeap`, `MCExt2`, `MCVfs` | constants for TLC | |
| `SchedProofs`, `RingProofs`, `DiskProofs`, `VfsProofs`, `SpaceProofs`, `KHeapProofs` | theorems, each about the module of its name | |
| `BasicLemmas`, `PageLemmas` | lemmas: queues as sequences, least elements, induction and division; the operators of `Frames` and `Space` | |

### Sched

One action per C function: `sem_wait`, `sem_notify`, `mutex_lock`,
`mutex_unlock`, `sys_sleep`, `task_yield`, `task_tick`, `sys_fork`. Each runs
inside a critical section on the only CPU, so it is one action, with the
`schedule()` it ends in: `current'` is what `pick_next_task` returns for the
queues and states the step leaves behind. A caller that blocks goes on from the
call when it is `current` again. `queue` maps each queue (`"ready"`, `"sleep"`,
and each semaphore and mutex by its name) to its members in order; that the
pointers behave like these sequences is what `Ring` is for, and that the walk of
`task_tick` comes to every sleeper, as the one step here has it, is `TickWalk`. `Init` is the state
`kernel_init` has built when it turns interrupts on. The idle task calls nothing;
any other task may call anything, in any order; the tick and `sem_notify` (from a
handler) may come at any time, which includes the places where the hardware would
not let them. `sleep_ticks` counts ticks (`ms / TASK_SLICE`), `state` has
`"UNBORN"` for a task structure that is not allocated yet. `sys_fork` chooses
whether copying the memory succeeds; `task_init` has linked the child into the
ready queue before that is known.

Left out: address spaces, TSS and stack contents (the switch is `current'`), the
process list, and `alloc_task` returning NULL (the code then writes through it).

### Ring

`next` and `prev` map heads and nodes to heads and nodes; nodes start with
arbitrary pointers, as `task_init` finds them. The assignments of each function
are composed in the order of its statements: in `queue_remove`, the second
statement reads `q->next` after the first has written `prev`'s `next`, and so on.
`contents` is a history variable: the sequence the callers mean.
`lib/list.c` is the same code with one function more, `list_insert`.

### TickWalk, SyncWalk and Walks

Two loops change the list they walk over. `task_tick` reads the successor of a
sleeper, and `task_wakeup` then moves the sleeper's node to the ready queue;
`ext2_sync` takes the node it stands on out of the list and steps on itself, before
`list_each` steps on again. Here each statement that reads or writes a link is a
step, over the pointers of `Ring`: `walk_start`, `walk_round`, `task_wakeup` and
`task_wakeup_insert`, `walk_advance`; `sync_start`, `sync_round`, `sync_remove`,
`sync_advance`. Between walks, tasks go to sleep and blocks are written in any
order. `before` and `waiting` are history variables, the lists when the walk began. `Sched` and
`Ext2` have these walks as one step; the properties say that the result is the
same. `Walks` puts them into one specification with `Ring`'s own: the users share
neither heads nor nodes, so a behaviour is of one of them, which the initial state
chooses.

### Disk

`pc[t]` is where task t is in `disk_read` or `disk_write`:

| pc | code |
|---|---|
| `user` | outside the driver |
| `command` | after `mutex_lock`, before `send_cmd` (a task blocked in `mutex_lock` is here too) |
| `wait` | before `sem_wait` |
| `poll` | in `sem_wait` or in `wait_data` |
| `data` | before `read_data` or `write_data` |
| `unlock` | before `mutex_unlock` |

The driver's steps use `mutex_lock`, `sem_wait`, `sem_notify`, `mutex_unlock`,
`task_tick` and `sys_fork` of `Sched` as they are. `do_handler_ide` is two steps,
because `sem_notify` may switch: `isr` remembers whom the interrupt in service
interrupted, and that task's next step is `pic_done`. The timer has the higher
priority and is ended before `task_tick` (`kernel/time.c:131`), so it comes
through while an IDE interrupt is in service.

External, modelled from how the code uses it: the drive (idle, busy, wanting
data, error; one interrupt request per sector read or written, and one for an
error; the first sector of a write is wanted at once and without an interrupt, as
`disk.c:233-236` expects) and the latch of the 8259 (edge-triggered,
`arch.c:79`: a second request before the first is taken is not seen). `DiskInit`
lets the latch be set or clear: the polled transfers of boot request interrupts
nobody takes, and whether the latch keeps such a request depends on the
controller.

`Preemptible` is the set of tasks that run the driver with interrupts on: the
init thread. It stays preemptible in the model after it has entered user mode,
which only adds behaviours.

Not modelled: partition tables; `disk_open`'s refusal of a partition with count
0, which makes the two returns of `-ENOPART` with the mutex held
(`disk.c:194, 228`) unreachable once a device is open; a drive that is not ready
for the first sector of a write (`disk.c:236` does not wait for it).

### Frames and Space

`used` is the bitmap as a set, `mem` the words of memory, `cr3[t]` the directory
of task t. A frame is an array of words and has no type: it is a directory, a
table or a page because something refers to it as one. That is what makes a
stale table visible: `alloc_vpages` and `copy_memory` take a frame for a table
and do not clear it, so a program's data becomes mappings. The C functions are
operators from memory to memory and are called in the order of the code; a loop is
a recursive function over its rounds (`Loop`), the body an operator of its own
(`map_page`, `destroy_table`, `read_page`, `load_header`, `copy_round`). Their
errors are the code's: `alloc_vpages` stops half way, `free_vpages` takes one page too many and
looks at entry 0 only, `load_elf_file` reads a header again that it does not
load, `copy_memory` leaves half a copy. The actions are the calls: `sys_execve`
(any program, any of its reads may fail), `sys_fork`, `kmalloc_grow` (the heap
takes pages) and `UserStore` (a program writes to a page it has).

Addresses inside pages are counted in words: `trans_vtop` returns a word and not a
frame, and `read_page` stores up to a page of words from there on. A segment that
begins inside a page is therefore read on into the next frame of physical memory,
and where its page is not mapped, into frame 0 at its offset, as in the code.

`Init` is the state behind `kernel_init`: the bitmap, the heap's first chunk
(`mem_init`), the directories of the idle task and of the init thread.

`cause` records what went wrong without any caller being told: `load` (a failed
load goes on as if it had succeeded, since `sys_execve` compares the unsigned
entry point with 0 and gets -1), `stale`, `overrun` (more pages than the table
has entries for), `astray` (a read that goes on into a frame which is not that of
its next page, or begins in frame 0), `misread` (`distory_memory` reads words
across the borders of entries). After `load` the history goes on, with any other
it ends; the five cases are reached.

Left out: flags of entries (always the same), reads that return less than was
asked for, and what a read that fails has stored before, the argument vector of
exec (the loops at `kernel/task.c:392` end only when a counter overflows),
zero-size segments, the TLB.

### KHeap

`blk[a]` is the header last stored at address a: `kmalloc` and `kfree` follow
links they leave stale, so an address is read whether or not a block begins
there. Addresses are counted in headers. `kmalloc_fit` takes a block from the
list, `kmalloc_grow` takes a new chunk, `kfree` is the insertion, the merging walk
(`merge_step`, one step at a time, at most `Fuel` of them: a walk that takes more
never ends) and the release of whole chunks. `alloc_page` and `free_page` are the
rest of the kernel, whose pages lie between the heap's. `cause` again ends a
history: `hang`, `lost` (a free block fell off the list), `stale` (a chunk was
given back with its header still on the list), `swallowed` (a block merged with
the block behind its chunk), `unmerged` (free neighbours are left: the walk
went on in the next chunk, whose first block may not be on the list, or the new
chunk lies in front of a free block; the next `kfree` would leave a merged header on
the list), `misfreed` (a block that is no chunk given back as one), `null` and `edge`
(the rest of a new chunk linked through address 0, or beyond the chunk). `Allocator` says what callers rely on: `Alloc` gives a block
apart from all others, `Free` gives back no memory that is in use.

### Ext2

`m` has the disk, the buffers, their buckets, the dirty list and the window of
inodes. A block is a sequence of units, which are inodes, directory entries,
block pointers or pieces of data; each inode bears its number, so that a stale
pointer is seen. The callers hold the file system's mutex, so each call of
`fs/ext2.c` is one action: `open`, `read`, `write`, `ext2_seek`, `ext2_close`
(which syncs unless bit 0 of the mode is set), and the `tick` of the timestamp.
The functions below them are operators that hand on `m` as the C functions change
it; the walk of `ext2_sync` is `Drained`, which `SyncWalk` compares with the pointers. `truth` is a history variable, what each file would hold if every call did
what it says; `Intact` compares it with what the caches and the disk hold by the
layout of ext2 (`Content`, `BlockOf`, `InodeOn`, external). A call may meet one
block that cannot be read. `cause` names what a call did wrong, and the history
ends with it: `misread`, `astray` (a block number that is none), `write`,
`window`, `overrun`, and in a full bucket `locked`, `evicted`, `reused`,
`misfiled`.

Left out: `O_CREAT` and with it the allocation of inodes and blocks (`ext2_write`
never reaches `alloc_block`, both branches before it leave the loop), what
`write_inode` does to fields nobody reads (the group is overwritten with the owner,
the count of sectors cut to 16 bits), ext2's part of unlink, the bitmaps and the super block that sync writes back, paths of more
than one name, append mode, failures of mount. Blocks behind triple pointers are
there but no file of the instance reaches them.

### Vfs

`ref` and `mode` are the file table, `fds[t]` the descriptors of task t, `call[t]`
the call t is in: `waiting` for the mutex, `inside` with it and waiting for the
disk, or `left`, when `mutex_unlock` has handed the mutex over and switched, and
the rest of the call is still to run. System calls run with interrupts off, so
nothing else separates their steps. `sys_open`, `sys_unlink`, `access` (read,
write and seek), `sys_close`, `sys_sync` and `do_fork` run up to the first wait,
`resume`, `finish` and `leave` are the segments behind the waits. `Initial` is the
task the file system is first used by.

`cause`: `shared` (the table was full, and two opens share its last entry),
`stale` (a child's descriptor that its parent does not have: its structure lies in
frames programs have used), `astray` (a call on a mount entry that is not
mounted: names that do not begin with `/`, and `sys_sync`, which takes the
second entry).

Today only the kernel calls these functions (exec reads its file); the system
call table has `sleep`, `fork`, `execve` and `print`. The model allows any task
any of them. Left out: `sys_read`'s check of the descriptor against 2048 instead
of 128, further mounts and `umount`.

## 3. What the runs check

| run | instance | result |
|---|---|---|
| `sched_safety` | idle, init, two more tasks; two mutexes, one semaphore; slice 2; sleeps of 0 to 2 ticks; count at most 1, depth at most 2; tasks and mutexes symmetric | all safety properties, first-come-first-served, and `Sync` implemented |
| `sched_live` | four tasks, one semaphore, slice 2, sleeps up to 2 | `NoStarvation`, `SleepEnds` |
| `sched_zombie` | three tasks | **violated**: finding 1 |
| `walks` | two rings; three nodes with all initial pointers; idle and four more tasks with sleeps of one or two ticks; up to seven dirty blocks, any write of which may fail; nodes other than idle's symmetric | `Linked`, `EverySleeperOnce`, `SyncSkips`, `WrittenOrWaiting` |
| `ring_insert` | two rings, three nodes, all initial pointers, with `list_insert` | **violated**: finding 2 |
| `disk_safety` | idle, init (preemptible), two more tasks; up to two sectors; drive may fail | the driver's invariants |
| `disk_live` | idle, init, one more task; up to two sectors; no errors | `DiskDone` |
| `disk_boot` | three tasks, one sector | **violated**: finding 3 |
| `space` | two tasks; 25 frames of three words; two memory maps; four programs, five choices of the read that fails, if any; a first chunk of two pages, heap runs of one and two | ownership of frames, failed execs, fork's copy, who changes whose pages, reads past a page |
| `heap` | five pages, chunks of two, up to ten calls, sizes 1, 4, 5 and 7 | bookkeeping, when `kfree` hangs, `Allocator`'s promise |
| `ext2` | two open files, four files, four blocks of inodes, windows of two, one bucket of twelve; up to seven calls | when reads, writes, window and eviction go wrong |
| `vfs` | three tasks with two descriptors, two entries, up to six calls | counts, close against open, every call returns |

Bounds, and why they are enough. Two tasks beside idle and init give a wait queue
with two members behind an owner, which is what a wrong order of service needs,
and a sleeper woken in the same tick as another. Slice 2 has ticks that use up a
slice and ticks that do not. Depth 2 has a nested lock; two mutexes have a task
that blocks on one while it owns the other. Three nodes give a removed node two
different neighbours, the same neighbour twice, or the head. Four sleepers have
the first, the last, neighbours, all or none due at a tick; with seven dirty blocks
the walk of sync comes round to the front twice. Two sectors have a
first, a middle and a last interrupt of a transfer; the latch merges two requests
only with two. `MaxCount` bounds the semaphore's count in `sem_notify`: in
`Disk` it is 4, and the count never passes 2 (`WakeupsPaired`), so it cuts off
nothing. `MaxNest` bounds recursive locking; in `Disk` it only stops a task that
leaked the mutex (below) from leaking it more than twice.

`space`: three words give a directory a kernel entry and two tables, and a table
an entry in its middle; memory runs out in the middle of everything an exec or a
fork does; the maps have a region inside one byte of the bitmap, a start inside a
page, and enough or too little memory; `Junk`, what programs store, reads as
entries for the kernel's table and for a used frame; programs have two segments in
one page, which are read right, a second segment that is read on past that page,
and one that begins inside a page and whose next frame need not be its own. The number of calls is not
bounded. `heap`: two chunks that may be neighbours, a page between them, and
blocks of which three or more fit a chunk: enough for a block with free blocks on
both sides in either order of the list; free neighbours are left unmerged from the
eighth call on, and the two calls that such a pair needs to show on the list fit.
`ext2`: windows of two over a table of four
blocks have overlapping, disjoint and overrunning windows; one file reaches two
blocks behind its block of pointers; a bucket of twelve fills, and is searched and
evicted from, within the seven calls; the size of 6 is more than a block.
`Bad = {4}` fails the second half of a window. `vfs`: one task can be in the last
close, one hold the mutex and one open; two descriptors and two entries run out.

Deadlock is checked in the `sched`, `walks`, `ring` and `disk` runs: there is always a
tick, or another insertion, removal or walk. In `space`, `heap`, `ext2` and `vfs` a
history ends with the first thing gone wrong or, except in `space`, after
`MaxCalls`; the code does not stop there, the model says nothing of what follows.

### The properties

* `QueueInv`, `CurrentInv`: a task is linked into one queue, once, the one its
  state names; the running task and the idle task are in the ready queue. These
  are what `queue_remove(&task->rq)` and `current->rq.next` rely on.
* `LockInv`, `SemInv`: owner, depth and waiters of a mutex agree; no permit is left
  while somebody waits. (`SleepInv`, no sleeper has 0 ticks to go, is proved, section
  4; of the runs, `SleepEnds` needs it.)
* `HandoffInOrder`, `ImplementsSync`: action property and refinement.
* `NoStarvation`, `SleepEnds`: under weak fairness of the tick. The timer keeps
  ticking, and every system call returns to code with interrupts on or blocks.
* `Linked`: forward and backward links spell `contents`.
* `EverySleeperOnce`: a tick counts down every sleeper once and nobody else, and
  wakes those that are due in the order they slept in, although their nodes leave
  the ring under the walk.
* `SyncSkips`: a sync writes every other block, going round past the head, and all
  of them only when they are 0, 1, 3 or 7. `WrittenOrWaiting`: whatever write fails, a block
  is written once or still waits.
* `OneCommand`, `TransferInStep`: a task in the driver owns the mutex or is
  queued for it; commands go to a drive that is done; data moves only when the
  drive wants it, for the command's task, with the same number of sectors left on
  both sides.
* `WakeupsPaired`: notifies on their way (count and latch) are those owed to the
  mutex's owner, or one more. A task blocked in `sem_wait` hence has a busy drive
  or a latched request ahead of it.
* `LeakedLock`: outside the driver a task owns the mutex if and only if it has had
  `-ENODISK`: the error paths return with the mutex locked, no other path does,
  and nothing ever repairs it. The rest of the system then blocks on the disk.
* `EoiReachable`: the task that owes the end of interrupt can run.
* `DiskDone`: every transfer ends if the drive reports no error. Fairness: the
  drive answers (WF); a task in the driver that is given the CPU again and again
  gets a step done between two ticks of 10 ms (SF for each task); the timer and
  the IDE interrupt are taken if they can be taken again and again (SF: system
  calls keep shutting them out, and return to code with interrupts on).

* `Exclusive`, `NoLeak`: a frame has one purpose and is marked used for that
  long, and every used frame can still be found: over execs, forks and their
  failures at every point, loads that fail and go unnoticed included, unless something
  else of `cause` happened. `FailedExecUndone`,
  `ForkCopies`: a failed exec took nothing; a child has its parent's pages, in
  frames of its own. `KernelMapped`: every directory maps the kernel, also when a
  failed load has cleared an entry, and only a zombie, which stays in the ready
  queue, has none. `OthersKept`: an exec with its reads, a fork or a store changes no
  page of another task. `LoadsLand`: a read goes astray only for a segment that
  begins inside a page and has more in the file than the rest of that page.
* `OnlyRam`, `FrameZeroTaken`: only whole frames of RAM behind the kernel are up
  for allocation, except around a region inside one byte of the bitmap or without
  a whole frame in it; frame 0, which `alloc_pages` cannot tell from a failure, is
  not when a call ends, although `free_vpages` frees it in a failed load: exec goes
  on to the stack and fails for that frame, which marks it again.
* `HeapInv`: until something goes wrong, blocks tile the heap's pages, the free
  list is doubly linked and holds no block in use, and no free neighbours are left.
  `HangsOnLeftMerge`: `kfree` hangs if and only if a free block lies in
  front of the freed one and stays on the list, unless the walk strays into the
  next chunk. `KeepsPromise`: each call, those that end a history included, is a
  step of `Allocator`, except a `misfreed` one.
* `ReadsItsFile`, `WritesOnlyAppend`, `WindowKeepsFiles`, `EvictionMisfiles`: each names the exact conditions, or the only ones, under
  which the call does not do what it says. The disjuncts of `ReadsItsFile` are
  each reached alone.
* `RefsMatch`: a file's count is the number of descriptors that name it, and of
  entries lost by opens without a descriptor, up to `shared` or `stale`.
  `CloseBeforeReuse`: an entry given
  to an open while its last close waits is not opened before that close is through,
  and the close goes by its own mode unless that open waits behind it.
* `CallsReturn`: every call returns. Fairness: for each task, WF of `finish` (the
  disk answers, `DiskDone`), of `resume` and of `leave` (the scheduler runs every
  ready task, `NoStarvation`).

### Findings

1. `kernel/task.c:551` says a child whose memory could not be copied is made a
   zombie for the idle process to reclaim. It stays in the ready queue, is
   scheduled like any other task, and the idle task only halts.
2. `lib/list.c:29`: `list_insert` inserts at the given place. It reads `p->next`
   after overwriting it, and one call leaves two wrong back links. Nothing calls it.
3. `kernel/ipc.c:52` says notify and wait are used in pairs. The request latched
   by the polled transfers at boot is notified to nobody, and the disk semaphore
   stays one ahead. `TransferInStep` shows that the status poll after `sem_wait`
   keeps this harmless.

## 4. What is proved

`BasicLemmas` states what `Without`, `Append`, concatenation and `InOrder` do to
members, order and distinctness of sequences. `SchedProofs`, from
`SchedAssumption` alone:

* `SchedCorrect`: `Spec => [](TypeOK /\ QueueInv /\ CurrentInv /\ LockInv /\
  SemInv /\ SleepInv)`;
* `HandoffInOrderTheorem`: `Spec => HandoffInOrder`;
* `SchedImplementsSync`: `Spec => ImplementsSync`.

The inductive invariant is `IInv == TaskInv /\ SyncInv`. `TaskInv` relates tasks
and queues and is kept by one lemma per way of moving a node (`MoveTo`, the
tick's concatenation, fork's append), so each action needs only the lemma of the
move it makes. `SyncInv` relates counts and owners to the wait queues; it needs
`TaskInv`, since a handover is right only if the waiter is in no other queue, and
`CurrentInv`, since a caller must not be queued already. The refinement uses
`QueueInv` for "a task that calls is not blocked".

`RingProofs`, from `RingAssumption` alone:

* `RingsAreQueues`: `Spec => []Linked`. The invariant adds that rings are
  disjoint; the proof locates the neighbours of the node by its position.

`DiskProofs`, from `SchedAssumption` and `DiskAssumption` (which includes that the
driver's semaphore starts at 0, `disk.c:29`):

* `DiskImplementsSched`: `DiskSpec => Spec`. The driver and its interrupts use
  the kernel's calls as `Sched` allows, so the theorems above hold with them;
* `DiskCorrect`: `DiskSpec => [](DiskTypeOK /\ OneCommand /\ TransferInStep /\
  WakeupsPaired /\ LeakedLock /\ EoiReachable)`;
* `SleeperIsAwaited`: while a task is blocked in `sem_wait`, the drive is busy or
  the interrupt is latched.

The inductive invariant is `DInv == IInv /\ DriverInv`. `PlaceInv` ties each
task's place in the driver to the mutex: owner, queued, or outside; it carries
the depth of a mutex that a failed call left locked. `DriveInv` says where the
drive is when the mutex's owner is at each place (`InStep`), which is the fact
behind `OneCommand` and `TransferInStep`. `WakeupsPaired` is inductive with these
two: a second request can fall on a latched one only when the first was owed to
nobody. `ServedInv` (whoever the interrupt in service interrupted is runnable)
gives `EoiReachable` through `QueueInv`. The effect of each call of `Sched` on
the driver's mutex and semaphore is a lemma (`LockEffect`, `WaitEffect`, ...), and
the owner's own steps share one (`OwnerStep`).

`VfsProofs`, from `VfsAssumption` alone:

* `FilesCorrect`: `Spec => [](IInv /\ RefsMatch /\ CloseBeforeReuse)`.

The invariant says what a call in progress stands for and where it is to the
mutex. `CallInv`: a task in no call is idle, one in an `open`, `unlink` or `close`
still has the descriptor naming its entry. `MutexInv`: the owner is `inside` or
about to be resumed, waiters are queued once, and a call that is neither is in
neither. `OrderInv`: an `open` that was given the entry of a close in progress is
behind the close in the mutex's queue. `CloseInv`, from which `CloseBeforeReuse`
follows: until the close has left, nothing runs `ext2_open` on its entry, and the
mode it finds there differs from its own only if such an `open` waits. `RefsMatch`
counts pairs of tasks and descriptors, so each action has a lemma on how that set
of pairs changes (one added, one removed, those of a child added).

`SpaceProofs`, with the lemmas of `PageLemmas`:

* `SpaceCorrect`: `Spec => [](SpaceTypeOK /\ OnlyRam /\ FrameZeroTaken /\
  Exclusive /\ NoLeak /\ KernelMapped)`;
* `FailedExec`: `Spec => FailedExecUndone`;
* `ForkCorrect`: `Spec => ForkCopies`.

They hold for every number of frames, size of a frame, memory map, program and
set of tasks that the assumptions of `Frames` and `Space` allow.
`FramesAssumption` and `SpaceAssumption` bound sizes by each other.
`LayoutsAssumption` says that a memory map does not name more memory than the
bitmap has bits for (2^20 frames are all of a 32-bit machine's addresses) and has
room for the heap's first chunk and two directories. `ProgramsAssumption` is what a linker puts out and the
code does not check: segments in ascending order of their addresses, which need not
be those of pages, not empty, no longer in the file than in memory, in
the user's part and below the stack. Without the order, a later segment would be
loaded over an earlier one's pages, and the undoing of its load would free them.

The inductive invariant is `IInv == TypeInv /\ (cause \subseteq {"load"} =>
Separate)`. The properties that the run checks are about links, the words that
name a frame for a user, and are not inductive: a failed load leaves a
directory that is no longer in order until exec gives it back. So `Separate` says
of the memory between calls who owns what, `Own(m, R, S)`: each used frame is one
of the directories R, one of the others' frames S, or named by exactly one entry
of R's directories and tables; and that frame 0, which an empty entry of a
directory is followed to, reads as an empty table. At boot, `alloc_pages` finds the
heap's run and then the directories (`RunFound`, `Roomy`, `Booted`). Within exec and fork
three relations between the memory b at the start of the call and the memory m
now are followed from operator to operator:

* `Held(b, m, p)`: m is b and a directory p that owns whatever else is used;
* `Loose(b, m, p)`: after `free_vpages`, which frees a page too many and may free
  a table that the directory still names, p's entries may name free frames, but
  none of b's. `DestroyRestores` shows that `destroy_pde` then leaves the bitmap of
  b, whatever the entries: this is `FailedExecUndone`;
* `Copying(b, c, q, p, v)`: the pages of c below v are copied into p.

A loop's invariant is a family of sets, one for each round, taken through the
recursive function by `Rounds`, which rests on `Induction` of `BasicLemmas`; what
the loop does is stated as the existence of its sequence of states
(`MapPagesLoop`, `CopyMemoryLoop`, ...). `Combine` and `DestroyOwned` put a
finished directory in and take the old one out. Frame 0 needs its own argument
(`StackBuilt`): when a load was undone frame 0 is free, the first page of the
stack is the one `alloc_pages` finds there and takes for a failure, and with
that it is marked again; where the load was not undone it was never freed. A read
that lands (`lands`) changes words of the segment's own frames only (`ReadHeld`),
wherever in a page it begins; one that does not puts `astray` in `cause`
(`ReadPageLoading`).

`FreedBy` is the lemma behind `OnlyRam`: the bits that an entry of the memory map
clears, by bytes and by bits at both ends, name whole frames of the entry, or lie
in the byte where it ends.

`KHeapProofs`, from `HeapAssumption` alone:

* `HeapCorrect`: `Spec => []HeapInv`.

`HeapAssumption` says that the heap's first chunk fits the memory and that `Fuel`
is more than three steps for each free block: free blocks are not neighbours, so
there are at most half as many as addresses (`HalfList`). A walk that keeps to the
list and ends by itself is not cut off. The inductive invariant is `IInv == HeapTypeOK /\ (cause = {} => Tidy)`.
`HeapInv` speaks of the list and of the blocks in use; `Tidy` speaks of memory: a
block begins where a header says FREE or USED, and nowhere else (`Tile`); links lead
to headers, stale ones too (`Typed`); nothing is stored outside the heap's pages
(`Blank`); a head of a chunk is where a page begins and any other block has
one before it (`Heads`); the list is exactly the FREE headers (`Listed`). The
last is what makes `kfree`'s look at the neighbour's header right.

* `ListOf` and `Search` return the list and its first fitting block
  (`ListOfIs`, `SearchIs`): a chain without repetitions is shorter than `Fuel`
  because its blocks are different addresses.
* `kfree`: every step of the merging walk keeps the tiling, whatever links it
  follows (`Walk`, `StepWalk`). Where the walk is in its work is its `Phase`: at the
  freed block; done with it, merged with at most the one block behind it
  (`MergedRight`); the freed block merged into one before it (`MergedLeft`); or a
  block in use has grown (`Swallowed`). `StepPhase` shows that there are no others.
  The last two are reported, as is a pair of free neighbours that is left, so a call with
  nothing gone wrong ends in the second (`CleanWalk`), whose list is known
  (`FreedList`); `FreeKeeps` puts them together.
* `kmalloc` splits a block (`Cut`), replaces it in the list by what is left of it
  (`Relinked`, `Replaced`), or takes it whole (`FitWhole`). Growth is treated as
  if the new chunk were first linked in behind the last block (`ChunkAdded`) and
  then cut in its place (`GrownCut`), so that `CutKeeps` serves both.

* `PromiseKept`: `Spec => KeepsPromise`, for the calls that end a history, too.
  `kmalloc`'s block is apart from the others by the tiling, or because its chunk's
  pages were nobody's (`NewChunk`). What `kfree` leaves on its list was free before
  or is the freed block (`ListInFree`, also when the walk goes astray), so a block of
  a chunk's size that is a head covers the pages given back and none of another's
  (`Area`); one that is not a head is `misfreed`, and the address in front of it is in
  the heap, which leaves a chunk's pages and one more together (`TooManyPages`).

* `HangsExactly`: `Spec => HangsOnLeftMerge`. Until the walk strays, memory is one of
  three: as the call found it with the block put in front, with the block behind merged
  (`Once`), and with a block before it merged, too. With a block in front that stays,
  the walk comes to it and from then on goes round the entries between (`Round`,
  `StaysRound`); with none, the steps left are counted down (`Togo`, `OneLess`), and the
  list is as long as before at most but for the freed block.

The proofs found two things. Without the cause `unmerged`, `HeapInv` was false of
histories longer than those of the run. And with `Fuel` as small as the number of
addresses, many small free blocks would have made a walk that ends look like a hang.

Model-checked only: liveness (`NoStarvation`, `SleepEnds`, `DiskDone`,
`CallsReturn`), which is out of the prover's reach; the walks (`EverySleeperOnce`,
`SyncSkips`, `WrittenOrWaiting`), `OthersKept` and `LoadsLand`; the properties of `Ext2`, whose calls are folds over the blocks
of a file; and the runs expected to fail.

## 5. Plan

Done: `Sync`, `Queues`, `Sched`, `Ring`, `Disk`, `Vfs`, `Frames`, `Space`, `KHeap`,
with their proofs; `Allocator`, `TickWalk`, `SyncWalk` and `Ext2` with their runs.

To prove next, in this order:

1. `TickWalk`: `EverySleeperOnce`, by what is left of the ring behind the walk;
2. `Space`: `OthersKept`, from the relations of section 4;
3. `Ext2`: the window of inodes, `WindowKeepsFiles`.

To model next: unlink and creation in `Ext2`, with the bitmaps; exec's
reads as calls of `Vfs`.

## 6. Not modelled

* Boot sector and loader: straight-line code that runs once, alone.
* Console, strings, system call table, user library: no state that a call leaves
  for another, or only the cursor.
* Device table: one device, opened once, at mount; nothing closes it.
* `kernel_mktime` and the RTC: run once at boot; the result orders nothing but
  evictions.
* `umount` and mounts after the first: no caller.
* `free_task`: no caller, so task structures are never given back.
* Descriptor tables, interrupt masks, exception reports: set-up and output.
