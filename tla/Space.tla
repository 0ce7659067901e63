------------------------------- MODULE Space --------------------------------
(***************************************************************************)
(* Address spaces: the page tables of mm/page.c and the calls of           *)
(* kernel/task.c that build, copy, fill and replace them: task_init,       *)
(* sys_fork and sys_execve.                                                *)
(*                                                                         *)
(* Memory is an array of words, Entries to a frame, because a frame is     *)
(* whatever it is used as: a directory, a page table, or data a user wrote *)
(* that becomes a page table when the frame is taken for one and not       *)
(* cleared.  A word holds the number of the frame it maps, 0 for none; the *)
(* flag bits are always PAGE_SHARED.  Entry 0 of a directory stands for    *)
(* the kernel's part, the others are the user's.                           *)
(*                                                                         *)
(* The calls run with interrupts off (the one exception, the init thread's *)
(* exec, runs while no other task has a space), so each is one action; the *)
(* C functions it calls are operators on [used, mem], the bitmap and the   *)
(* words.                                                                  *)
(***************************************************************************)
EXTENDS Frames, FiniteSets

CONSTANTS
  Tasks, First,   \* First is the init thread
  Entries,        \* bound: words in a frame (1024 in the code)
  KernelTable,    \* the frame of the kernel's page table
  Layouts,        \* the memory maps looked at
  Programs,       \* the ELF files looked at
  Faults,         \* the reads that may fail: page fault[2] of header fault[1]
  Texts,          \* what a program's page, or a user's store, may hold
  StackPages,     \* bound: 501 in the code, at the top of the last table
  Misread,        \* frames distory_memory can take its misread entries for
  BootHeap,       \* bound: pages of the heap's first chunk (8 in the code)
  HeapRuns,       \* the runs of pages the kernel heap asks for
  MaxHeap,        \* bound: frames the kernel takes since boot
  NONE            \* no directory

Slots == 0 .. Entries - 1
Zeros == [s \in Slots |-> 0]

ASSUME SpaceAssumption ==
  /\ First \in Tasks
  /\ Entries \in Nat /\ Entries > 1
  /\ KernelTable \in 1 .. FreeMemStart - 1
  /\ Texts \subseteq [Slots -> Frames]
  /\ Zeros \in Texts
  /\ StackPages \in 1 .. Entries
  /\ Misread \subseteq Frames
  /\ BootHeap \in Nat \ {0} /\ HeapRuns \subseteq Nat \ {0}
  /\ NONE \notin Frames

(* The map does not name more memory than the bitmap has bits for, and     *)
(* there is room for the heap's first chunk and the directories of the     *)
(* idle task and the init thread.                                          *)
ASSUME LayoutsAssumption ==
  \A l \in Layouts :
    /\ \A i \in 1 .. Len(l) : l[i].start \in Nat /\ l[i].size \in Nat
    /\ FoldSeq(LAMBDA r, sum : sum + r.size, 0, l) \in 0 .. NFrames * PAGE_SIZE
    /\ LET free == (0 .. layout_bits(l) - 1) \ bitmap_init(l)
       IN  /\ \E f \in free : f .. f + BootHeap - 1 \subseteq free
           /\ Cardinality(free) >= BootHeap + 2

(* What a linker puts out: no more of a segment in the file than in memory,*)
(* the segments in the order of their addresses, which need not be those of*)
(* pages, in the user's part of the address space and below the stack.     *)
(* Addresses and sizes are counted in words.                               *)
ASSUME ProgramsAssumption ==
  \A program \in Programs :
    /\ program.entry \in Nat /\ Len(program.segs) \in Nat
    /\ \A i \in 1 .. Len(program.segs) :
         LET seg == program.segs[i]
         IN  seg.loadable =>
               /\ seg.memsz \in Nat \ {0} /\ seg.filesz \in 0 .. seg.memsz
               /\ seg.text \in Texts
               /\ seg.vaddr \in Nat /\ seg.vaddr >= Entries * Entries
               /\ seg.vaddr + seg.memsz <= (Entries * Entries - StackPages) * Entries
               /\ \A j \in 1 .. i - 1 :
                    program.segs[j].loadable =>
                      seg.vaddr >= program.segs[j].vaddr + program.segs[j].memsz

VARIABLES
  layout,   \* the memory map found at boot
  nbits,    \* the bits of the bitmap that are searched
  used,     \* the bitmap: the frames marked used
  mem,      \* the words of memory
  cr3,      \* a task's page directory
  zombie,   \* the tasks whose fork failed
  kernel,   \* the frames the kernel took since boot and never gives back
  ret,      \* the latest call or store, whose it was and how it ended
  cause     \* history: what has gone wrong in a way no caller is told

vars == <<layout, nbits, used, mem, cr3, zombie, kernel, ret, cause>>

Word(f, s) == f * Entries + s
WordsOf(f) == {Word(f, s) : s \in Slots}
Content(mm, f) == [s \in Slots |-> mm[Word(f, s)]]
Fill(mm, f, text) == [w \in DOMAIN mm |-> IF w \div Entries = f THEN text[w % Entries] ELSE mm[w]]
Read(mm, at, n, text) ==
  [w \in DOMAIN mm |-> IF w \in at .. at + n - 1 THEN text[w % Entries] ELSE mm[w]]
Put(mm, w, v) == IF w \in DOMAIN mm THEN [mm EXCEPT ![w] = v] ELSE mm

(* A page number of the linear address space picks a directory entry and   *)
(* an entry of the table it names.                                         *)
pde_index(v) == v \div Entries
pte_index(v) == v % Entries

(* What went wrong without anyone noticing.                                *)
Blame(what, yes) == IF yes THEN {what} ELSE {}

(* A loop: Step(k, s) is what round k makes of s.                          *)
Loop(Step(_, _), s, n) ==
  LET after[k \in 0 .. n] == IF k = 0 THEN s ELSE Step(k, after[k - 1]) IN after[n]

(* One page, taken from the bitmap of m.                                   *)
Take(m) == alloc_pages(m.used, nbits, 1)

-----------------------------------------------------------------------------
(* The table for directory entry d, its address in page, taken when there  *)
(* is none.  The frame is not cleared: the table is stale if it held words.*)
new_table(m, pde, d) ==
  LET old == m.mem[Word(pde, d)]
      Enter(new) ==
        [m |-> [used |-> new.used,
                mem  |-> IF new.page = 0 THEN m.mem ELSE Put(m.mem, Word(pde, d), new.page)],
         page |-> new.page,
         why |-> Blame("stale", Content(m.mem, new.page) # Zeros)]
  IN  IF old # 0 THEN [m |-> m, page |-> old, why |-> {}] ELSE Enter(Take(m))

(* A page for word w, as long as there was one for every word before it.   *)
map_page(p, w, t) ==
  IF p.err THEN p
  ELSE [p EXCEPT !.m = [used |-> t.used,
                        mem  |-> IF t.page = 0 THEN p.m.mem ELSE Put(p.m.mem, w, t.page)],
                 !.err = t.page = 0]

(* The loop of alloc_vpages: count pages mapped from word w on, which is   *)
(* incremented past the table's end if count is too big for it.            *)
map_pages(p, w, count) == Loop(LAMBDA k, q : map_page(q, w + k - 1, Take(q.m)), p, count)

(* A range whose first page is mapped is taken to be mapped.               *)
alloc_vpages(m, pde, v, count) ==
  LET In(t) ==
        LET w == Word(t.page, pte_index(v))
        IN  IF t.page = 0 THEN [m |-> t.m, err |-> TRUE, why |-> {}]
            ELSE IF t.m.mem[w] # 0 THEN [m |-> t.m, err |-> FALSE, why |-> t.why]
            ELSE map_pages([m |-> t.m, err |-> FALSE,
                            why |-> t.why \cup Blame("overrun", pte_index(v) + count > Entries)],
                           w, count)
  IN  In(new_table(m, pde, pde_index(v)))

(* Mutant of free_vpages: the page too many is not freed.                  *)
FreesExactly(m, pde, v, count) ==
  LET table == m.mem[Word(pde, pde_index(v))]
      words == (Word(table, pte_index(v)) .. Word(table, pte_index(v)) + count - 1) \cap DOMAIN m.mem
      rest  == [used |-> m.used \ {m.mem[w] : w \in words},
                mem |-> [w \in DOMAIN m.mem |-> IF w \in words THEN 0 ELSE m.mem[w]]]
  IN  IF table = 0 THEN m
      ELSE IF rest.mem[Word(table, 0)] # 0 THEN rest
      ELSE [used |-> free_pages(rest.used, table, 1), mem |-> Put(rest.mem, Word(pde, 0), 0)]

(* The loop runs count + 1 times, an empty entry frees frame 0; the table  *)
(* is taken to be empty when its entry 0 is, and entry 0 of the directory  *)
(* is cleared for it.                                                      *)
free_vpages(m, pde, v, count) ==
  LET table == m.mem[Word(pde, pde_index(v))]
      words == (Word(table, pte_index(v)) .. Word(table, pte_index(v)) + count) \cap DOMAIN m.mem
      rest  == [used |-> m.used \ {m.mem[w] : w \in words},
                mem |-> [w \in DOMAIN m.mem |-> IF w \in words THEN 0 ELSE m.mem[w]]]
  IN  IF table = 0 THEN m
      ELSE IF rest.mem[Word(table, 0)] # 0 THEN rest
      ELSE [used |-> free_pages(rest.used, table, 1), mem |-> Put(rest.mem, Word(pde, 0), 0)]

(* A directory with the kernel's part only; page is 0 when there is none.  *)
create_pde(m) ==
  LET p == Take(m)
  IN  [m |-> [used |-> p.used,
              mem |-> IF p.page = 0 THEN m.mem
                      ELSE Fill(m.mem, p.page, [Zeros EXCEPT ![0] = KernelTable])],
       page |-> p.page]

(* Mutant of destroy_pde: the page tables themselves are not freed.        *)
DestroyKeepsTables(m, pde) ==
  LET Clear(d, p) ==
        LET table == p.mem[Word(pde, d)]
        IN  IF table = 0 THEN p
            ELSE [used |-> p.used \ ({p.mem[w] : w \in WordsOf(table)} \ {0}),
                  mem |-> Put(Fill(p.mem, table, Zeros), Word(pde, d), 0)]
  IN  [Loop(Clear, m, Entries - 1) EXCEPT !.used = free_pages(@, pde, 1)]

(* Mutant of destroy_pde: the directory is freed, the loop was dropped.    *)
DestroyDirectoryOnly(m, pde) == [m EXCEPT !.used = free_pages(@, pde, 1)]

(* The pages of one table, and the table.                                  *)
destroy_table(m, pde, d) ==
  LET table == m.mem[Word(pde, d)]
      pages == {m.mem[w] : w \in WordsOf(table)} \ {0}
  IN  IF table = 0 THEN m
      ELSE [used |-> free_pages(m.used \ pages, table, 1),
            mem |-> Put(Fill(m.mem, table, Zeros), Word(pde, d), 0)]

(* Every page of every user table, the tables, the directory.              *)
destroy_pde(m, pde) ==
  LET cleared == Loop(LAMBDA d, p : destroy_table(p, pde, d), m, Entries - 1)
  IN  [cleared EXCEPT !.used = free_pages(@, pde, 1)]

-----------------------------------------------------------------------------
(* The word of memory behind address a: 0 where there is no table, a word  *)
(* of frame 0 where the table does not map a's page.                       *)
trans_vtop(m, pde, a) ==
  LET v     == a \div Entries
      table == m.mem[Word(pde, pde_index(v))]
  IN  IF table = 0 THEN 0 ELSE Word(m.mem[Word(table, pte_index(v))], a % Entries)

(* A size is rounded up to pages, wherever in a page the segment begins.   *)
first_page(seg) == seg.vaddr \div Entries
page_count(seg) == DivUp(seg.memsz, Entries)
rounds(seg) == DivUp(seg.filesz, Entries)

(* A read of n words to address a stays in a's page, or goes on in the page*)
(* after it: true when that is where the frame after the first one is.     *)
lands(m, pde, a, n) ==
  LET at == trans_vtop(m, pde, a)
  IN  \A i \in 0 .. n - 1 : at + i >= Entries /\ trans_vtop(m, pde, a + i) = at + i

(* Mutant of read_page: the last read is of a whole page, too.             *)
ReadsFullPages(p, pde, seg, k, fails) ==
  LET a  == seg.vaddr + (k - 1) * Entries
      at == trans_vtop(p.m, pde, a)
  IN  IF p.err THEN p
      ELSE IF at = 0 \/ fails
      THEN [m |-> free_vpages(p.m, pde, first_page(seg), page_count(seg)), err |-> TRUE, why |-> p.why]
      ELSE [m |-> [used |-> p.m.used, mem |-> Read(p.m.mem, at, Entries, seg.text)], err |-> FALSE,
            why |-> p.why \cup Blame("astray", ~lands(p.m, pde, a, Entries))]

(* Round k of a program header reads a page's worth of words to where its  *)
(* first is mapped, or that fails: a failure, or no table, undoes the      *)
(* mapping of all pages.                                                   *)
read_page(p, pde, seg, k, fails) ==
  LET a    == seg.vaddr + (k - 1) * Entries
      at   == trans_vtop(p.m, pde, a)
      left == seg.filesz - (k - 1) * Entries
      n    == IF left > Entries THEN Entries ELSE left
  IN  IF p.err THEN p
      ELSE IF at = 0 \/ fails
      THEN [m |-> free_vpages(p.m, pde, first_page(seg), page_count(seg)), err |-> TRUE,
            why |-> p.why \cup Blame("overrun", pte_index(first_page(seg)) + page_count(seg) + 1 > Entries)]
      ELSE [m |-> [used |-> p.m.used, mem |-> Read(p.m.mem, at, n, seg.text)], err |-> FALSE,
            why |-> p.why \cup Blame("astray", ~lands(p.m, pde, a, n))]

(* A program header's pages are mapped, then filled; the read of round bad *)
(* fails.                                                                  *)
load_phead(m, pde, seg, bad) ==
  Loop(LAMBDA k, p : read_page(p, pde, seg, k, k = bad),
       alloc_vpages(m, pde, first_page(seg), page_count(seg)), rounds(seg))

(* The headers in turn.  One that is not loadable is not stepped over: the *)
(* loop reads it again until it has run e_phnum times.  fault names a read *)
(* that fails: of a page of a header, or of the header itself, page 0.     *)
load_header(p, pde, segs, fault) ==
  LET bad == IF fault[1] = p.at THEN fault[2] ELSE -1
      Loaded(l) == [m |-> l.m, err |-> l.err, why |-> p.why \cup l.why, at |-> p.at + 1]
  IN  IF p.err THEN p
      ELSE IF bad = 0 THEN [p EXCEPT !.err = TRUE]
      ELSE IF ~segs[p.at].loadable THEN p
      ELSE Loaded(load_phead(p.m, pde, segs[p.at], bad))

load_elf_file(m, pde, segs, fault) ==
  Loop(LAMBDA i, p : load_header(p, pde, segs, fault),
       [m |-> m, err |-> FALSE, why |-> {}, at |-> 1], Len(segs))

(* The one word copy_args_envs stores when there are no arguments: argc,   *)
(* at the top of the stack.  copy_to_user_n stores where trans_vtop says.  *)
copy_args_envs(m, pde) ==
  [m EXCEPT !.mem = Put(@, trans_vtop(m, pde, Entries * Entries * Entries - 1), 0)]

(* Mutant of copy_memory: the child gets its parent's tables.              *)
CopySharesTables(m, pde, ppde) ==
  [m |-> [m EXCEPT !.mem = Fill(@, pde, [Content(m.mem, ppde) EXCEPT ![0] = KernelTable])],
   err |-> FALSE, why |-> {}]

(* A table for the child.  It is not cleared: what the parent does not map *)
(* stays as it is in the frame taken.                                      *)
copy_table(p, pde, d, t) ==
  [m |-> [used |-> t.used,
          mem  |-> IF t.page = 0 THEN p.m.mem ELSE Put(p.m.mem, Word(pde, d), t.page)],
   err |-> t.page = 0,
   why |-> p.why \cup Blame("stale", Content(p.m.mem, t.page) # Zeros)]

(* Mutant of copy_page: the child gets its parent's page, not a copy.      *)
CopyPageShares(p, pde, ptable, v) ==
  LET table == p.m.mem[Word(pde, pde_index(v))]
      from  == p.m.mem[Word(ptable, pte_index(v))]
  IN  IF p.err \/ from = 0 THEN p
      ELSE [p EXCEPT !.m.mem = Put(@, Word(table, pte_index(v)), from)]

(* The page the parent has at v, if any.                                   *)
copy_page(p, pde, ptable, v) ==
  LET table == p.m.mem[Word(pde, pde_index(v))]
      from  == p.m.mem[Word(ptable, pte_index(v))]
      Copied(t) ==
        [p EXCEPT !.m = [used |-> t.used,
                         mem  |-> IF t.page = 0 THEN p.m.mem
                                  ELSE Fill(Put(p.m.mem, Word(table, pte_index(v)), t.page),
                                            t.page, Content(p.m.mem, from))],
                  !.err = t.page = 0]
  IN  IF p.err \/ from = 0 THEN p ELSE Copied(Take(p.m))

(* One round of copy_memory's loops, for page v of the parent.             *)
copy_round(p, pde, ppde, v) ==
  LET ptable == p.m.mem[Word(ppde, pde_index(v))]
      q == IF pte_index(v) # 0 THEN p ELSE copy_table(p, pde, pde_index(v), Take(p.m))
  IN  IF p.err \/ ptable = 0 THEN p ELSE copy_page(q, pde, ptable, v)

(* Every table and page the parent has.  A failure stops the copy:         *)
(* distory_memory reads words across the entries' borders and frees no     *)
(* frame, or one it misread.                                               *)
copy_memory(m, pde, ppde) ==
  Loop(LAMBDA k, p : copy_round(p, pde, ppde, Entries + k - 1),
       [m |-> m, err |-> FALSE, why |-> {}], Entries * (Entries - 1))

-----------------------------------------------------------------------------
NoCall == [call |-> "none", task |-> First, ok |-> TRUE]
m0 == [used |-> used, mem |-> mem]
Store(m) == used' = m.used /\ mem' = m.mem

(* kernel_init: the heap's first chunk, the idle task's directory, then the*)
(* init thread's.                                                          *)
Init ==
  /\ layout \in Layouts
  /\ nbits = layout_bits(layout)
  /\ LET boot  == [used |-> bitmap_init(layout), mem |-> [w \in 0 .. NFrames * Entries - 1 |-> 0]]
         kern  == [Zeros EXCEPT ![0] = KernelTable]
         heap  == alloc_pages(boot.used, nbits, BootHeap)
         idle  == alloc_pages(heap.used, nbits, 1)
         first == alloc_pages(idle.used, nbits, 1)
     IN  /\ used = first.used
         /\ mem = Fill(Fill(boot.mem, idle.page, kern), first.page, kern)
         /\ cr3 = [t \in Tasks |-> IF t = First THEN first.page ELSE NONE]
         /\ kernel = (heap.page .. heap.page + BootHeap - 1) \cup {idle.page}
  /\ zombie = {}
  /\ ret = NoCall
  /\ cause = {}

Tables(t) == {mem[Word(cr3[t], d)] : d \in Slots \ {0}} \ {0}
Mapped(t) == (UNION {{mem[w] : w \in WordsOf(f)} : f \in Tables(t)}) \ {0}

(* A task has to have memory to run in; the init thread starts without,    *)
(* in the kernel, with its exec.                                           *)
Runs(t) == cr3[t] \notin {NONE, 0} /\ Mapped(t) # {}

(* Mutant of exec_entry: a failed load is noticed.                         *)
EntryChecked(err, program) == IF err THEN 0 ELSE program.entry

(* What exec takes for the entry point and compares with 0: it is unsigned,*)
(* and load_elf_file's -1 passes.                                          *)
exec_entry(err, program) == IF err THEN -1 ELSE program.entry

(* The program and which of its reads fails are the file system's choice.  *)
sys_execve(t) ==
  /\ Runs(t) \/ t = First
  /\ \E program \in Programs :
     \E fault \in Faults :
       LET Fail(m, why) == /\ Store(m)
                           /\ ret' = [call |-> "execve", task |-> t, program |-> program, ok |-> FALSE]
                           /\ cause' = cause \cup why
                           /\ UNCHANGED cr3
           Run(m, pde, why) == /\ Store(destroy_pde(copy_args_envs(m, pde), cr3[t]))
                               /\ ret' = [call |-> "execve", task |-> t, program |-> program, ok |-> TRUE]
                               /\ cause' = cause \cup why
                               /\ cr3' = [cr3 EXCEPT ![t] = pde]
           Stack(pde, elf, stack) ==
             IF stack.err THEN Fail(destroy_pde(stack.m, pde), elf.why \cup stack.why)
             ELSE Run(stack.m, pde, elf.why \cup stack.why \cup Blame("load", elf.err))
           Load(pde, elf) ==
             IF exec_entry(elf.err, program) = 0 THEN Fail(destroy_pde(elf.m, pde), elf.why)
             ELSE Stack(pde, elf, alloc_vpages(elf.m, pde, Entries * Entries - StackPages, StackPages))
           Begin(new) ==
             IF new.page = 0 THEN Fail(new.m, {})
             ELSE Load(new.page, load_elf_file(new.m, new.page, program.segs, fault))
       IN  Begin(create_pde(m0))
  /\ UNCHANGED <<layout, nbits, zombie, kernel>>

(* task_init does not look at what create_pde returned.                    *)
sys_fork(t, child) ==
  /\ Runs(t)
  /\ cr3[child] = NONE
  /\ LET new  == create_pde(m0)
         copy == copy_memory(new.m, new.page, cr3[t])
     IN  /\ \E freed \in {{}} \cup (IF copy.err THEN {{f} : f \in Misread} ELSE {}) :
              /\ Store([copy.m EXCEPT !.used = @ \ freed])
              /\ cause' = cause \cup copy.why \cup Blame("misread", freed # {})
         /\ cr3' = [cr3 EXCEPT ![child] = new.page]
         /\ zombie' = zombie \cup (IF copy.err THEN {child} ELSE {})
         /\ ret' = [call |-> "fork", task |-> t, ok |-> ~copy.err]
  /\ UNCHANGED <<layout, nbits, kernel>>

(* kmalloc takes pages for the kernel heap, count in a row.                *)
kmalloc_grow(count) ==
  /\ Cardinality(kernel) + count <= MaxHeap
  /\ LET p == alloc_pages(used, nbits, count)
     IN  /\ used' = p.used
         /\ kernel' = IF p.page = 0 THEN kernel ELSE kernel \cup (p.page .. p.page + count - 1)
         /\ ret' = NoCall
  /\ UNCHANGED <<layout, nbits, mem, cr3, zombie, cause>>

(* A program stores into a page of its own.                                *)
UserStore(t) ==
  /\ Runs(t)
  /\ \E f \in Mapped(t), text \in Texts \ {Zeros} : mem' = Fill(mem, f, text)
  /\ ret' = [call |-> "store", task |-> t, ok |-> TRUE]
  /\ UNCHANGED <<layout, nbits, used, cr3, zombie, kernel, cause>>

(* A history ends at the first thing that goes wrong unnoticed: what       *)
(* becomes of memory after that is anybody's guess.                        *)
Next ==
  /\ cause = {}
  /\ \/ \E t \in Tasks : sys_execve(t) \/ UserStore(t)
     \/ \E t, child \in Tasks : sys_fork(t, child)
     \/ \E count \in HeapRuns : kmalloc_grow(count)

Spec == Init /\ [][Next]_vars

-----------------------------------------------------------------------------
(* The variables have the types of the C data they stand for.              *)
SpaceTypeOK ==
  /\ nbits \in 0 .. NFrames
  /\ used \subseteq Frames
  /\ mem \in [0 .. NFrames * Entries - 1 -> Frames]
  /\ cr3 \in [Tasks -> Frames \cup {NONE}]
  /\ zombie \subseteq Tasks
  /\ kernel \subseteq Frames
  /\ cause \subseteq {"load", "stale", "overrun", "astray", "misread"}

Born(t) == cr3[t] # NONE
Directories == {cr3[t] : t \in {u \in Tasks : Born(u)}} \ {0}

(* The words that map something for a user: directory and table entries.   *)
Links ==
  UNION {{Word(cr3[t], d) : d \in Slots \ {0}} \cup UNION {WordsOf(f) : f \in Tables(t)} :
         t \in {u \in Tasks : Born(u)}}

(* A frame has one purpose: it is a directory, or one entry of one address *)
(* space names it, or the kernel has it; and it is marked used for that    *)
(* long.  So no task can reach another's memory and free_pages never frees *)
(* what is in use, over any sequence of execs, forks and failures, loads   *)
(* that fail halfway and are run all the same included: unless a page table*)
(* came up with entries of its frame's former life or was written past its *)
(* end, a segment that does not begin with a page was read into frames that*)
(* are not its own, or distory_memory misread an entry.                    *)
Exclusive ==
  cause \subseteq {"load"} =>
    /\ \A v, w \in Links : v # w /\ mem[v] = mem[w] => mem[v] = 0
    /\ LET named == {mem[w] : w \in Links} \ {0}
       IN  /\ named \cup Directories \cup kernel \subseteq used
           /\ named \cap (Directories \cup kernel) = {}
           /\ Directories \cap kernel = {}

(* No frame is lost: every used frame of RAM is the kernel's or still to   *)
(* be found from a directory, so failed execs gave back all they had taken *)
(* and a failed fork's half copy is what its zombie keeps, no more.        *)
NoLeak ==
  cause \subseteq {"load"} =>
    used = bitmap_init(layout) \cup kernel \cup Directories \cup ({mem[w] : w \in Links} \ {0})

(* Only RAM behind the kernel is handed out, whatever the memory map's     *)
(* order and alignment: bitmap_init clears no bit too many, except around  *)
(* a region that starts and ends inside one byte of the bitmap, or that    *)
(* has no whole frame in it.                                               *)
OnlyRam ==
  LET Whole(f, r) == /\ r.ram /\ f >= FreeMemStart
                     /\ f * PAGE_SIZE >= r.start
                     /\ (f + 1) * PAGE_SIZE <= r.start + r.size
      Tiny(f, r)  == /\ freed_by(r) # {}
                     /\ f \div ByteBits = end_frame(r) \div ByteBits
                     /\ \/ f \div ByteBits = first_frame(r) \div ByteBits
                        \/ end_frame(r) < first_frame(r)
  IN  \A f \in Frames \ bitmap_init(layout) :
        \E i \in 1 .. Len(layout) : Whole(f, layout[i]) \/ Tiny(f, layout[i])

(* Frame 0, which alloc_pages cannot tell from a failure, is never up for  *)
(* allocation when a call ends.  A failed load does free it, the one page  *)
(* too many of free_vpages; exec goes on to the stack, whose first page is *)
(* then not to be had, and fails for that.  A table that came up with      *)
(* entries, or was written past its end, may have the stack mapped already.*)
FrameZeroTaken == cause \subseteq {"load"} => 0 \in used

(* A directory the scheduler may load into cr3 maps the kernel: the switch *)
(* itself runs there.  free_vpages, undoing a load, clears the kernel's    *)
(* entry of the directory where it means the segment's; its page too many  *)
(* is why such a directory never runs (FrameZeroTaken).  A task with no    *)
(* directory at all is a zombie, and stays in the ready queue.             *)
KernelMapped ==
  cause \subseteq {"load"} => \A t \in Tasks :
    Born(t) => IF cr3[t] = 0 THEN t \in zombie ELSE mem[Word(cr3[t], 0)] = KernelTable

(* An exec that reports its failure has taken nothing, wherever it failed, *)
(* a load undone page by page with a page too many, a freed table still in *)
(* the directory, and no stack: the caller goes on with the space it had.  *)
FailedExecUndone ==
  [][ret'.call = "execve" /\ ~ret'.ok /\ cause' = {} => used' = used /\ cr3' = cr3]_vars

Page(mm, pde, v) ==
  LET table == mm[Word(pde, pde_index(v))]
  IN  IF table = 0 THEN 0 ELSE mm[Word(table, pte_index(v))]

(* What a task does, an exec with its reads, a fork or a store of its      *)
(* program, changes no page of another task and maps none for it.          *)
OthersKept ==
  [][cause' \subseteq {"load"} =>
       \A t \in Tasks, v \in Entries .. Entries * Entries - 1 :
         Born(t) /\ t # ret'.task =>
           LET f == Page(mem, cr3[t], v)
           IN  /\ cr3'[t] = cr3[t] /\ Page(mem', cr3[t], v) = f
               /\ f # 0 => Content(mem', f) = Content(mem, f)]_vars

(* A read goes astray only in a program with a segment that begins inside a*)
(* page and has more in the file than the rest of that page holds.  Other  *)
(* segments are read into frames of their own, whatever is mapped already  *)
(* by the segments before them and wherever the frames lie.                *)
LoadsLand ==
  [][ret'.call = "execve" /\ "astray" \in cause' =>
       \E i \in 1 .. Len(ret'.program.segs) :
         LET seg == ret'.program.segs[i]
         IN  seg.loadable /\ (seg.vaddr % Entries) # 0 /\ (seg.vaddr % Entries) + seg.filesz > Entries]_vars

(* A forked child has a copy of every page of its parent, in frames of its *)
(* own; and no other page, unless a table was stale.                       *)
ForkCopies ==
  [][\A p, c \in Tasks, v \in Entries .. Entries * Entries - 1 :
       ~Born(c) /\ Born(c)' /\ c \notin zombie' /\ ret'.task = p /\ cause' = {} =>
         LET from == Page(mem, cr3[p], v)
             to   == Page(mem', cr3'[c], v)
         IN  IF from = 0 THEN to = 0
             ELSE to \notin used /\ Content(mem', to) = Content(mem, from)]_vars
=============================================================================
