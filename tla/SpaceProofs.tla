----------------------------- MODULE SpaceProofs -----------------------------
(***************************************************************************)
(* The theorems of Space: who owns which frame, what a failed exec leaves  *)
(* and what a fork copies.  The inductive invariant is IInv; what each call*)
(* makes of memory is followed step by step in the lemmas before it.       *)
(***************************************************************************)
EXTENDS PageLemmas

-----------------------------------------------------------------------------
(* How an exec ends.                                                       *)

Failed(t, program, m, why) ==
  /\ Store(m) /\ cr3' = cr3 /\ cause' = cause \cup why
  /\ ret' = [call |-> "execve", task |-> t, program |-> program, ok |-> FALSE]
Ran(t, program, m, pde, why) ==
  /\ Store(m) /\ cr3' = [cr3 EXCEPT ![t] = pde] /\ cause' = cause \cup why
  /\ ret' = [call |-> "execve", task |-> t, program |-> program, ok |-> TRUE]

(* What exec has made when it starts to load, when it has loaded, and when *)
(* it has asked for a stack.                                               *)
Building(program, fault, new, elf, stack) ==
  /\ new = create_pde(m0)
  /\ elf = load_elf_file(new.m, new.page, program.segs, fault)
  /\ stack = alloc_vpages(elf.m, new.page, Entries * Entries - StackPages, StackPages)

(* The ways sys_execve ends: no directory, no entry point, no stack, or the*)
(* new program.                                                            *)
Ends(t, program, fault, new, elf, stack) ==
  /\ Building(program, fault, new, elf, stack)
  /\ \/ new.page = 0 /\ Failed(t, program, new.m, {})
     \/ /\ new.page # 0 /\ exec_entry(elf.err, program) = 0
        /\ Failed(t, program, destroy_pde(elf.m, new.page), elf.why)
     \/ /\ new.page # 0 /\ exec_entry(elf.err, program) # 0 /\ stack.err
        /\ Failed(t, program, destroy_pde(stack.m, new.page), elf.why \cup stack.why)
     \/ /\ new.page # 0 /\ exec_entry(elf.err, program) # 0 /\ ~stack.err
        /\ Ran(t, program, destroy_pde(copy_args_envs(stack.m, new.page), cr3[t]), new.page,
               elf.why \cup stack.why \cup Blame("load", elf.err))

(* Every exec ends in one of these ways.                                   *)
LEMMA ExecveEnds ==
  ASSUME NEW t, sys_execve(t)
  PROVE  \E program \in Programs, fault \in Faults : \E new, elf, stack :
           Ends(t, program, fault, new, elf, stack)
<1> DEFINE Made(program, fault) ==
             LET new == create_pde(m0)
                 elf == load_elf_file(new.m, new.page, program.segs, fault)
                 stack == alloc_vpages(elf.m, new.page, Entries * Entries - StackPages, StackPages)
             IN  Ends(t, program, fault, new, elf, stack)
<1>1. \E program \in Programs, fault \in Faults : Made(program, fault)
  BY ZenonT(60) DEF sys_execve, Ends, Building, Failed, Ran
<1> QED BY <1>1, Zenon

-----------------------------------------------------------------------------
(* The types.                                                              *)

TypeInv ==
  /\ SpaceTypeOK
  /\ layout \in Layouts /\ nbits = layout_bits(layout)
  /\ cr3[First] # NONE

(* What it says of the state of memory.                                    *)
LEMMA TypeFacts ==
  ASSUME TypeInv
  PROVE  /\ Sized /\ m0 \in State /\ m0.used = used /\ m0.mem = mem
         /\ used \in SUBSET Frames /\ mem \in Mem /\ cr3 \in [Tasks -> Frames \cup {NONE}]
         /\ zombie \subseteq Tasks /\ kernel \subseteq Frames
<1>1. nbits \in 1 .. NFrames
  BY BootBits DEF TypeInv
<1> QED BY <1>1 DEF TypeInv, SpaceTypeOK, Sized, m0, State, Mem, Words

(* Every operation leaves a state of memory.                               *)
LEMMA ExecveType ==
  ASSUME TypeInv, NEW t \in Tasks, sys_execve(t)
  PROVE  TypeInv'
<1> PICK program \in Programs, fault \in Faults : \E new, elf, stack :
           Ends(t, program, fault, new, elf, stack)
  BY ExecveEnds
<1> PICK new, elf, stack : Ends(t, program, fault, new, elf, stack)
  OBVIOUS
<1>1. /\ Building(program, fault, new, elf, stack)
      /\ \/ new.page = 0 /\ Failed(t, program, new.m, {})
         \/ /\ new.page # 0 /\ exec_entry(elf.err, program) = 0
            /\ Failed(t, program, destroy_pde(elf.m, new.page), elf.why)
         \/ /\ new.page # 0 /\ exec_entry(elf.err, program) # 0 /\ stack.err
            /\ Failed(t, program, destroy_pde(stack.m, new.page), elf.why \cup stack.why)
         \/ /\ new.page # 0 /\ exec_entry(elf.err, program) # 0 /\ ~stack.err
            /\ Ran(t, program, destroy_pde(copy_args_envs(stack.m, new.page), cr3[t]), new.page,
                   elf.why \cup stack.why \cup Blame("load", elf.err))
  BY DEF Ends
<1>2. Sized /\ m0 \in State
  BY TypeFacts
<1>3. cr3[t] \in Frames
  <2>1. cr3[t] # NONE
    BY DEF sys_execve, Runs, TypeInv
  <2> QED BY <2>1, TypeFacts
<1>4. new.m \in State /\ new.page \in Frames
  BY <1>1, <1>2, CreatePdeIs DEF Building
<1>5. elf \in ElfWork
  <2>1. Segments(program.segs)
    BY ProgramsAssumption, Zenon DEF Segments, Segment
  <2> QED BY <1>1, <1>2, <1>4, <2>1, LoadElfType DEF Building
<1>6. stack \in Work
  <2>1. Entries * Entries - StackPages \in Pages /\ StackPages \in Nat
    BY Sizes, SpaceAssumption DEF Pages
  <2>2. elf.m \in State
    BY <1>5 DEF ElfWork
  <2> DEFINE v == Entries * Entries - StackPages
  <2> HIDE DEF v
  <2>3. stack = alloc_vpages(elf.m, new.page, v, StackPages)
    BY <1>1 DEF Building, v
  <2>4. v \in Pages
    BY <2>1 DEF v
  <2> QED BY <1>2, <1>4, <2>1, <2>2, <2>3, <2>4, AllocVpagesType
<1>7. ASSUME NEW m, Store(m), m \in State, NEW why, cause' = cause \cup why, why \subseteq Whys \cup {"load"},
             \/ cr3' = cr3
             \/ cr3' = [cr3 EXCEPT ![t] = new.page]
      PROVE  TypeInv'
  <2>1. UNCHANGED <<layout, nbits, zombie, kernel>>
    BY DEF sys_execve
  <2>2. used' \in SUBSET Frames /\ mem' \in Mem
    BY <1>7 DEF Store, State
  <2>3. cr3' \in [Tasks -> Frames \cup {NONE}] /\ cr3'[First] # NONE
    BY <1>4, <1>7, TypeFacts, Sizes, SpaceAssumption DEF TypeInv
  <2>4. cause' \subseteq {"load", "stale", "overrun", "astray", "misread"}
    BY <1>7 DEF Whys, TypeInv, SpaceTypeOK
  <2> QED BY <2>1, <2>2, <2>3, <2>4 DEF TypeInv, SpaceTypeOK, Mem, Words
<1>8. CASE new.page = 0 /\ Failed(t, program, new.m, {})
  BY <1>4, <1>7, <1>8 DEF Failed
<1>9. CASE Failed(t, program, destroy_pde(elf.m, new.page), elf.why)
  <2>1. destroy_pde(elf.m, new.page) \in State /\ elf.why \subseteq Whys
    BY <1>4, <1>5, DestroyPdeType DEF ElfWork
  <2> QED BY <1>7, <1>9, <2>1 DEF Failed
<1>10. CASE Failed(t, program, destroy_pde(stack.m, new.page), elf.why \cup stack.why)
  <2>1. destroy_pde(stack.m, new.page) \in State /\ elf.why \cup stack.why \subseteq Whys
    BY <1>4, <1>5, <1>6, DestroyPdeType DEF ElfWork, Work
  <2> QED BY <1>7, <1>10, <2>1 DEF Failed
<1>11. CASE Ran(t, program, destroy_pde(copy_args_envs(stack.m, new.page), cr3[t]), new.page,
                elf.why \cup stack.why \cup Blame("load", elf.err))
  <2>1. copy_args_envs(stack.m, new.page) \in State
    <3>1. stack.m \in State /\ 0 \in Frames
      BY <1>6, Sizes DEF Work
    <3> QED BY <3>1, PutMem DEF copy_args_envs, State
  <2>2. destroy_pde(copy_args_envs(stack.m, new.page), cr3[t]) \in State
    BY <1>3, <2>1, DestroyPdeType
  <2>3. elf.why \cup stack.why \cup Blame("load", elf.err) \subseteq Whys \cup {"load"}
    BY <1>5, <1>6 DEF ElfWork, Work, Blame
  <2> QED BY <1>7, <1>11, <2>2, <2>3 DEF Ran
<1> QED BY <1>1, <1>8, <1>9, <1>10, <1>11

(* sys_fork keeps the types.                                               *)
LEMMA ForkType ==
  ASSUME TypeInv, NEW t \in Tasks, NEW child \in Tasks, sys_fork(t, child)
  PROVE  TypeInv'
<1> DEFINE new  == create_pde(m0)
           copy == copy_memory(new.m, new.page, cr3[t])
<1>1. Sized /\ m0 \in State /\ cr3[t] \in Frames
  BY TypeFacts DEF sys_fork, Runs
<1>2. new.m \in State /\ new.page \in Frames
  BY <1>1, CreatePdeIs
<1>3. copy \in Work
  BY <1>1, <1>2, CopyMemoryType
<1>4. PICK freed : /\ Store([copy.m EXCEPT !.used = @ \ freed])
                   /\ cause' = cause \cup copy.why \cup Blame("misread", freed # {})
  BY DEF sys_fork
<1>5. /\ UNCHANGED <<layout, nbits, kernel>>
      /\ cr3' = [cr3 EXCEPT ![child] = new.page]
      /\ zombie' = zombie \cup (IF copy.err THEN {child} ELSE {})
  BY DEF sys_fork
<1> HIDE DEF new, copy
<1>6. used' \in SUBSET Frames /\ mem' \in Mem
  BY <1>3, <1>4 DEF Store, Work, State
<1>7. cr3' \in [Tasks -> Frames \cup {NONE}] /\ cr3'[First] # NONE
  BY <1>2, <1>5, TypeFacts, Sizes, SpaceAssumption DEF TypeInv
<1>8. cause' \subseteq {"load", "stale", "overrun", "astray", "misread"}
  BY <1>3, <1>4 DEF Work, Whys, Blame, TypeInv, SpaceTypeOK
<1>9. zombie' \subseteq Tasks
  BY <1>5, TypeFacts
<1> QED BY <1>5, <1>6, <1>7, <1>8, <1>9 DEF TypeInv, SpaceTypeOK, Mem, Words

(* kmalloc keeps the types.                                                *)
LEMMA GrowType ==
  ASSUME TypeInv, NEW count \in HeapRuns, kmalloc_grow(count)
  PROVE  TypeInv'
<1> DEFINE p == alloc_pages(used, nbits, count)
<1>1. count \in Nat \ {0} /\ used \in SUBSET Frames /\ nbits \in 0 .. NFrames
  BY TypeFacts, SpaceAssumption, Sizes DEF Sized
<1>2. /\ p.used \in SUBSET Frames
      /\ p.page # 0 => p.page .. p.page + count - 1 \subseteq Frames
  BY <1>1, AllocPages, ZenonT(60)
<1>3. /\ used' = p.used
      /\ kernel' = IF p.page = 0 THEN kernel ELSE kernel \cup (p.page .. p.page + count - 1)
      /\ UNCHANGED <<layout, nbits, mem, cr3, zombie, cause>>
  BY DEF kmalloc_grow
<1> HIDE DEF p
<1>4. kernel' \subseteq Frames
  BY <1>2, <1>3, TypeFacts
<1> QED BY <1>2, <1>3, <1>4 DEF TypeInv, SpaceTypeOK

(* A user's store keeps the types.                                         *)
LEMMA StoreType ==
  ASSUME TypeInv, NEW t \in Tasks, UserStore(t)
  PROVE  TypeInv'
<1>1. PICK f \in Mapped(t), text \in Texts : mem' = Fill(mem, f, text)
  BY DEF UserStore
<1>2. mem' \in Mem
  BY <1>1, TypeFacts, FillMem, SpaceAssumption
<1> QED BY <1>2 DEF UserStore, TypeInv, SpaceTypeOK, Mem, Words

(* The boot memory, and the two directories taken from it.                 *)
BootMem == [w \in Words |-> 0]
KernelPart == [Zeros EXCEPT ![0] = KernelTable]

(* A run that is there is found.                                           *)
LEMMA RunFound ==
  ASSUME NEW u \in SUBSET Frames, 0 \in u, NEW n \in 0 .. NFrames, NEW count \in Nat \ {0},
         NEW f \in 0 .. n - 1, f .. f + count - 1 \subseteq (0 .. n - 1) \ u
  PROVE  alloc_pages(u, n, count).page # 0
<1> DEFINE i == bitmap_alloc_bits(u, n, count)
<1>1. n \in Nat /\ f + count - 1 \in f .. f + count - 1
  BY Sizes
<1>2. f \in 0 .. n - count /\ (f .. f + count - 1) \cap u = {}
  BY <1>1
<1>3. i \in 0 .. n - count /\ (i .. i + count - 1) \cap u = {}
  BY <1>1, <1>2, FirstRun
<1>4. i # 0
  <2>1. i \in i .. i + count - 1
    BY <1>1, <1>3
  <2> QED BY <1>3, <2>1
<1> HIDE DEF i
<1>5. i > 0
  BY <1>1, <1>3, <1>4
<1> QED BY <1>5 DEF alloc_pages, i

(* Two frames more than a run do not fit in it and one more.               *)
LEMMA Roomy ==
  ASSUME NEW h \in Nat, NEW n \in Nat, NEW free \in SUBSET (0 .. n), NEW x \in Int,
         Cardinality(free) >= BootHeap + 2
  PROVE  ~ (free \subseteq (h .. h + BootHeap - 1) \cup {x})
<1> DEFINE H == h .. h + BootHeap - 1
<1>1. BootHeap \in Nat /\ IsFiniteSet(H) /\ Cardinality(H) = BootHeap
  <2>1. BootHeap \in Nat \ {0}
    BY SpaceAssumption
  <2>2. h \in Int /\ h + BootHeap - 1 \in Int
    BY <2>1
  <2>3. IsFiniteSet(H) /\ Cardinality(H) = (h + BootHeap - 1) - h + 1
    BY <2>1, <2>2, FS_Interval
  <2> QED BY <2>1, <2>3
<1> HIDE DEF H
<1>2. IsFiniteSet(H \cup {x}) /\ Cardinality(H \cup {x}) <= BootHeap + 1
  BY <1>1, FS_AddElement
<1> SUFFICES ASSUME free \subseteq H \cup {x} PROVE FALSE
  BY DEF H
<1>3. IsFiniteSet(free) /\ Cardinality(free) <= Cardinality(H \cup {x})
  BY <1>2, FS_Subset
<1>4. Cardinality(free) \in Nat /\ Cardinality(H \cup {x}) \in Nat
  BY <1>2, <1>3, FS_CardinalityType
<1> QED BY <1>1, <1>2, <1>3, <1>4

(* What kernel_init leaves: the heap's first chunk and two directories, in *)
(* frames that were free.                                                  *)
Booting(H, idle, first) ==
  /\ layout \in Layouts /\ nbits = layout_bits(layout)
  /\ H \in SUBSET Frames /\ H \cap bitmap_init(layout) = {}
  /\ idle # first /\ {idle, first} \cap (H \cup bitmap_init(layout)) = {}
  /\ used = bitmap_init(layout) \cup H \cup {idle, first}
  /\ mem = Fill(Fill(BootMem, idle, KernelPart), first, KernelPart)
  /\ mem \in Mem
  /\ cr3 = [t \in Tasks |-> IF t = First THEN first ELSE NONE]
  /\ kernel = H \cup {idle} /\ zombie = {} /\ cause = {}

LEMMA Booted ==
  ASSUME Init
  PROVE  \E H : \E idle \in Frames \ {0}, first \in Frames \ {0} : Booting(H, idle, first)
<1> DEFINE boot == bitmap_init(layout)
           heap == alloc_pages(boot, nbits, BootHeap)
           idle == alloc_pages(heap.used, nbits, 1)
           first == alloc_pages(idle.used, nbits, 1)
           free == (0 .. nbits - 1) \ boot
           H == heap.page .. heap.page + BootHeap - 1
<1>1. /\ boot \in SUBSET Frames /\ 0 \in boot /\ nbits \in 1 .. NFrames
      /\ \E f \in free : f .. f + BootHeap - 1 \subseteq free
      /\ Cardinality(free) >= BootHeap + 2
  <2>1. layout \in Layouts /\ nbits = layout_bits(layout)
    BY DEF Init
  <2> QED BY <2>1, BootBits, Zenon
<1>2. nbits \in 0 .. NFrames /\ nbits > 0 /\ nbits \in Nat /\ BootHeap \in Nat \ {0}
  BY <1>1, Sizes, SpaceAssumption
<1>3. heap.page # 0
  <2>1. PICK f \in free : f .. f + BootHeap - 1 \subseteq free
    BY <1>1
  <2>2. f \in 0 .. nbits - 1
    BY <2>1
  <2> QED BY <1>1, <1>2, <2>1, <2>2, RunFound
<1>4. /\ heap.used \in SUBSET Frames /\ heap.page \in Frames
      /\ heap.used = boot \cup H /\ H \subseteq Frames /\ H \cap boot = {}
  BY <1>1, <1>2, <1>3, AllocPages
<1>5. \A x \in Int : ~ (free \subseteq H \cup {x})
  <2>1. heap.page \in Nat /\ free \in SUBSET (0 .. nbits)
    <3>1. \A x \in Frames : x \in Nat
      BY Sizes
    <3>2. heap.page \in Nat
      <4> HIDE DEF heap
      <4> QED BY <1>4, <3>1
    <3>3. 0 .. nbits - 1 \subseteq 0 .. nbits
      BY <1>2
    <3> HIDE DEF heap, boot
    <3> QED BY <3>2, <3>3
  <2> HIDE DEF free, heap
  <2> QED BY <1>1, <1>2, <2>1, Roomy
<1> HIDE DEF boot, heap, H
<1>6. /\ idle.used \in SUBSET Frames /\ idle.page \in Frames
      /\ idle.page = 0 => 0 .. nbits - 1 \subseteq heap.used
      /\ idle.page # 0 => idle.used = heap.used \cup {idle.page} /\ idle.page \notin heap.used
  <2>1. 0 \in heap.used
    BY <1>1, <1>4
  <2> HIDE DEF boot
  <2> DEFINE u == heap.used
  <2> HIDE DEF u
  <2>2. /\ idle = alloc_pages(u, nbits, 1) /\ u \in SUBSET Frames /\ 0 \in u
        /\ nbits \in 0 .. NFrames /\ nbits > 0
    BY <1>2, <1>4, <2>1 DEF u
  <2> HIDE DEF idle
  <2>3. /\ idle.used \in SUBSET Frames /\ idle.page \in Frames
        /\ idle.page = 0 => 0 .. nbits - 1 \subseteq u
        /\ idle.page # 0 => idle.used = u \cup {idle.page} /\ idle.page \notin u
    BY <2>2, AllocPage
  <2> QED BY <2>3 DEF u
<1>7. idle.page # 0
  <2> SUFFICES ASSUME idle.page = 0 PROVE FALSE
    OBVIOUS
  <2>1. free \subseteq H \cup {0}
    BY <1>4, <1>6
  <2> QED BY <1>5, <2>1
<1> HIDE DEF idle
<1>8. /\ first.page \in Frames
      /\ first.page = 0 => 0 .. nbits - 1 \subseteq idle.used
      /\ first.page # 0 => first.used = idle.used \cup {first.page} /\ first.page \notin idle.used
  BY <1>1, <1>2, <1>4, <1>6, <1>7, AllocPage
<1>9. first.page # 0
  <2> SUFFICES ASSUME first.page = 0 PROVE FALSE
    OBVIOUS
  <2>1. free \subseteq H \cup {idle.page}
    BY <1>4, <1>6, <1>7, <1>8
  <2>2. idle.page \in Int
    <3>1. \A x \in Frames : x \in Int
      BY Sizes
    <3> QED BY <1>6, <3>1
  <2> HIDE DEF free
  <2> QED BY <1>5, <2>1, <2>2
<1>10. /\ layout \in Layouts /\ nbits = layout_bits(layout) /\ used = first.used
       /\ mem = Fill(Fill(BootMem, idle.page, KernelPart), first.page, KernelPart)
       /\ cr3 = [t \in Tasks |-> IF t = First THEN first.page ELSE NONE]
       /\ kernel = H \cup {idle.page} /\ zombie = {} /\ cause = {}
  BY Zenon DEF Init, BootMem, KernelPart, Words, boot, heap, idle, H
<1>11. mem \in Mem
  <2>1. BootMem \in Mem
    BY Sizes DEF BootMem, Mem
  <2>2. KernelPart \in [Slots -> Frames]
    BY Sizes DEF KernelPart, Zeros
  <2>3. Fill(BootMem, idle.page, KernelPart) \in Mem
    BY <2>1, <2>2, FillMem
  <2> QED BY <1>10, <2>2, <2>3, FillMem
<1> HIDE DEF first
<1>12. /\ H \in SUBSET Frames /\ H \cap boot = {}
       /\ idle.page # first.page /\ {idle.page, first.page} \cap (H \cup boot) = {}
       /\ used = boot \cup H \cup {idle.page, first.page}
  BY <1>4, <1>6, <1>7, <1>8, <1>9, <1>10
<1>13. Booting(H, idle.page, first.page)
  BY <1>10, <1>11, <1>12 DEF Booting, boot
<1> QED BY <1>6, <1>7, <1>8, <1>9, <1>13

(* The types hold at boot.                                                 *)
LEMMA InitType == Init => TypeInv
<1> SUFFICES ASSUME Init PROVE TypeInv
  OBVIOUS
<1> PICK H : \E idle \in Frames \ {0}, first \in Frames \ {0} : Booting(H, idle, first)
  BY Booted
<1> PICK idle \in Frames \ {0}, first \in Frames \ {0} : Booting(H, idle, first)
  OBVIOUS
<1>1. /\ layout \in Layouts /\ nbits = layout_bits(layout)
      /\ H \in SUBSET Frames /\ used = bitmap_init(layout) \cup H \cup {idle, first}
      /\ mem \in Mem
      /\ cr3 = [t \in Tasks |-> IF t = First THEN first ELSE NONE]
      /\ kernel = H \cup {idle} /\ zombie = {} /\ cause = {}
  BY DEF Booting
<1>2. bitmap_init(layout) \in SUBSET Frames /\ nbits \in 0 .. NFrames
  <2>1. bitmap_init(layout) \in SUBSET Frames /\ nbits \in 1 .. NFrames
    BY <1>1, BootBits, Zenon
  <2> QED BY <2>1, Sizes
<1>3. cr3[First] # NONE
  BY <1>1, Sizes, SpaceAssumption
<1> QED BY <1>1, <1>2, <1>3 DEF TypeInv, SpaceTypeOK, Mem, Words

(* Every step keeps the types.                                             *)
LEMMA NextType == TypeInv /\ [Next]_vars => TypeInv'
<1> SUFFICES ASSUME TypeInv, [Next]_vars PROVE TypeInv'
  OBVIOUS
<1>1. CASE \E t \in Tasks : sys_execve(t)
  BY <1>1, ExecveType
<1>2. CASE \E t \in Tasks : UserStore(t)
  BY <1>2, StoreType
<1>3. CASE \E t, child \in Tasks : sys_fork(t, child)
  BY <1>3, ForkType
<1>4. CASE \E count \in HeapRuns : kmalloc_grow(count)
  BY <1>4, GrowType
<1>5. CASE UNCHANGED vars
  BY <1>5 DEF vars, TypeInv, SpaceTypeOK
<1> QED BY <1>1, <1>2, <1>3, <1>4, <1>5 DEF Next

(* Nothing is handed out but whole frames of RAM behind the kernel, and    *)
(* the frames around a region too small for the bitmap's bytes.            *)
LEMMA RamOnly == TypeInv => OnlyRam
<1> SUFFICES ASSUME TypeInv, NEW f \in Frames \ bitmap_init(layout)
             PROVE  \E i \in 1 .. Len(layout) :
                      \/ /\ layout[i].ram /\ f >= FreeMemStart
                         /\ f * PAGE_SIZE >= layout[i].start
                         /\ (f + 1) * PAGE_SIZE <= layout[i].start + layout[i].size
                      \/ /\ freed_by(layout[i]) # {}
                         /\ f \div ByteBits = end_frame(layout[i]) \div ByteBits
                         /\ \/ f \div ByteBits = first_frame(layout[i]) \div ByteBits
                            \/ end_frame(layout[i]) < first_frame(layout[i])
  BY DEF OnlyRam
<1>1. PICK i \in 1 .. Len(layout) : f \in freed_by(layout[i])
  BY DEF bitmap_init
<1>2. layout[i].start \in Nat /\ layout[i].size \in Nat
  BY LayoutsAssumption DEF TypeInv
<1> DEFINE r == layout[i]
<1>3. freed_by(r) # {}
  BY <1>1
<1> HIDE DEF r
<1>4. /\ r.ram
      /\ \/ f >= FreeMemStart /\ f * PAGE_SIZE >= r.start /\ (f + 1) * PAGE_SIZE <= r.start + r.size
         \/ /\ f \div ByteBits = end_frame(r) \div ByteBits
            /\ \/ f \div ByteBits = first_frame(r) \div ByteBits
               \/ end_frame(r) < first_frame(r)
  BY <1>1, <1>2, FreedBy DEF r
<1> QED BY <1>3, <1>4 DEF r

-----------------------------------------------------------------------------
(* As long as nothing has gone wrong unnoticed: no two tasks share a       *)
(* directory, only a zombie can be without one, a frame in use is the      *)
(* boot's, the kernel's, a directory or named by one entry, and frame 0,   *)
(* which stands for no table, reads as an empty one.                       *)
Separate ==
  /\ \A t, u \in Tasks : t # u /\ cr3[t] = cr3[u] => cr3[t] \in {NONE, 0}
  /\ cr3[First] # 0
  /\ \A t \in Tasks : cr3[t] = 0 => t \in zombie
  /\ Own(m0, Directories, kernel \cup bitmap_init(layout))
  /\ ZeroFrame(m0)

(* With the bitmap as it was, and the words of its frames, everyone owns   *)
(* what they did.                                                          *)
LEMMA Restored ==
  ASSUME NEW b, NEW R \in SUBSET Frames, NEW S, Own(b, R, S),
         NEW r, r.used = b.used, Agree(b, r)
  PROVE  Own(r, R, S)
<1>1. R \cup TablesOf(b.mem, R) \subseteq b.used
  BY Kinds DEF Own
<1>2. \A w \in Words : FrameOf(w) \in R \cup TablesOf(b.mem, R) => r.mem[w] = b.mem[w]
  BY <1>1 DEF Agree
<1> QED BY <1>2, SameOwned

(* Frame 0 is used: it stays what it is.                                   *)
LEMMA ZeroKept ==
  ASSUME NEW b, NEW r, 0 \in b.used, Agree(b, r), ZeroFrame(b)
  PROVE  ZeroFrame(r)
<1>1. \A s \in Slots : Word(0, s) \in Words /\ FrameOf(Word(0, s)) = 0
  BY Sizes, WordOf
<1> QED BY <1>1 DEF Agree, ZeroFrame

(* A directory given back before it was a task's own.                      *)
LEMMA GivenBack ==
  ASSUME NEW b \in State, NEW R \in SUBSET Frames, NEW S, Own(b, R, S), ZeroFrame(b),
         NEW m, NEW p \in Frames, Loose(b, m, p), 0 \in m.used,
         NEW r, r = destroy_pde(m, p)
  PROVE  r.used = b.used /\ Own(r, R, S) /\ ZeroFrame(r)
<1>1. m \in State /\ Weak(m, p, b.used) /\ Agree(b, m) /\ b.used \in SUBSET Frames
  BY DEF Loose, State
<1>2. /\ r.used = b.used
      /\ \A w \in Words : FrameOf(w) \in b.used => r.mem[w] = m.mem[w]
  BY <1>1, DestroyRestores
<1>3. Agree(b, r)
  BY <1>1, <1>2 DEF Agree
<1>4. 0 \in b.used
  BY DEF Own
<1>5. Own(r, R, S)
  BY <1>2, <1>3, Restored
<1>6. ZeroFrame(r)
  BY <1>3, <1>4, ZeroKept
<1> QED BY <1>2, <1>5, <1>6

(* Task t gets directory p, c is given back: the rest is as it was.        *)
LEMMA Replaced ==
  ASSUME NEW b \in State, NEW R \in SUBSET Frames, NEW S, Own(b, R, S), ZeroFrame(b),
         NEW m, NEW p \in Frames, Held(b, m, p), NEW c \in R,
         NEW r, r = destroy_pde(m, c)
  PROVE  r \in State /\ Own(r, (R \ {c}) \cup {p}, S) /\ ZeroFrame(r)
<1>1. m \in State /\ Own(m, {p}, b.used) /\ Agree(b, m) /\ p \notin b.used /\ 0 \in b.used
  BY HeldFacts DEF Held
<1> DEFINE U == R \cup {p}
<1>2. Own(m, U, S)
  BY <1>1, Combine
<1>3. c \in U /\ U \in SUBSET Frames /\ c \in b.used /\ c # p
  BY <1>1 DEF Own
<1> HIDE DEF U
<1>4. r \in State /\ Own(r, U \ {c}, S) /\ Keeps(m, r, S)
  BY <1>1, <1>2, <1>3, DestroyOwned
<1>5. U \ {c} = (R \ {c}) \cup {p}
  BY <1>3 DEF U
<1>6. ZeroFrame(r)
  <2>1. ZeroFrame(m)
    BY <1>1, ZeroKept
  <2>2. 0 \in S
    BY DEF Own
  <2>3. \A s \in Slots : Word(0, s) \in Words /\ FrameOf(Word(0, s)) = 0
    BY Sizes, WordOf
  <2> QED BY <1>4, <2>1, <2>2, <2>3 DEF ZeroFrame, Keeps
<1> QED BY <1>4, <1>5, <1>6

(* What the parts of it say together: a directory is a frame, and not frame*)
(* 0.                                                                      *)
LEMMA SeparateFacts ==
  ASSUME TypeInv, Separate
  PROVE  /\ m0 \in State /\ Directories \in SUBSET Frames /\ 0 \in used
         /\ used \in SUBSET Frames
         /\ \A t \in Tasks : cr3[t] \in Frames \ {0} => cr3[t] \in Directories
         /\ cr3[First] \in Frames \ {0}
<1>1. m0 \in State /\ m0.used = used /\ used \in SUBSET Frames /\ cr3 \in [Tasks -> Frames \cup {NONE}]
  BY TypeFacts
<1>2. 0 \in used
  BY <1>1 DEF Separate, Own
<1>3. cr3[First] \in Frames \ {0}
  BY <1>1, SpaceAssumption DEF Separate, TypeInv
<1> QED BY <1>1, <1>2, <1>3, Sizes DEF Directories, Born

(* sys_execve keeps it, however it ends, a failed load it did not notice   *)
(* included; and one that says it failed has taken nothing.                *)
LEMMA ExecveSeparate ==
  ASSUME TypeInv, Separate, cause = {}, NEW t \in Tasks, sys_execve(t), cause' \subseteq {"load"}
  PROVE  Separate' /\ (~ret'.ok => used' = used /\ cr3' = cr3)
<1> DEFINE b == m0
           R == Directories
           S == kernel \cup bitmap_init(layout)
           c == cr3[t]
<1> PICK program \in Programs, fault \in Faults : \E new, elf, stack :
           Ends(t, program, fault, new, elf, stack)
  BY ExecveEnds
<1> PICK new, elf, stack : Ends(t, program, fault, new, elf, stack)
  OBVIOUS
<1>1. /\ Building(program, fault, new, elf, stack)
      /\ \/ new.page = 0 /\ Failed(t, program, new.m, {})
         \/ /\ new.page # 0 /\ exec_entry(elf.err, program) = 0
            /\ Failed(t, program, destroy_pde(elf.m, new.page), elf.why)
         \/ /\ new.page # 0 /\ exec_entry(elf.err, program) # 0 /\ stack.err
            /\ Failed(t, program, destroy_pde(stack.m, new.page), elf.why \cup stack.why)
         \/ /\ new.page # 0 /\ exec_entry(elf.err, program) # 0 /\ ~stack.err
            /\ Ran(t, program, destroy_pde(copy_args_envs(stack.m, new.page), c), new.page,
                   elf.why \cup stack.why \cup Blame("load", elf.err))
  BY DEF Ends
<1>2. /\ Sized /\ b \in State /\ R \in SUBSET Frames /\ b.used = used /\ b.mem = mem
      /\ 0 \in b.used /\ Own(b, R, S) /\ ZeroFrame(b) /\ b.used \subseteq Frames
  BY TypeFacts, SeparateFacts DEF Separate
<1>3. c \in Frames \ {0} /\ c \in R
  <2>1. c \notin {NONE, 0}
    BY DEF sys_execve, Runs, TypeInv, Separate
  <2> QED BY <2>1, SeparateFacts, TypeFacts
<1>4. UNCHANGED <<layout, nbits, zombie, kernel>>
  BY DEF sys_execve
<1> DEFINE p == new.page
<1>5. new.m \in State /\ p \in Frames /\ new = create_pde(b)
  BY <1>1, <1>2, CreatePdeIs DEF Building
<1>6. elf = load_elf_file(new.m, p, program.segs, fault) /\ stack = alloc_vpages(elf.m, p, StackPage, StackPages)
  BY <1>1 DEF Building, StackPage
<1>7. Ordered(program.segs) /\ Segments(program.segs)
  <2>1. Segments(program.segs)
    BY ProgramsAssumption, Zenon DEF Segments, Segment
  <2>2. \A i \in 1 .. Len(program.segs) : program.segs[i].loadable =>
          \A j \in 1 .. i - 1 : program.segs[j].loadable =>
            program.segs[i].vaddr >= program.segs[j].vaddr + program.segs[j].memsz
    BY ProgramsAssumption, Zenon
  <2> QED BY <2>1, <2>2 DEF Ordered
<1> HIDE DEF b, R, S, c, p
<1>8. elf \in ElfWork /\ elf.m \in State
  <2>1. elf \in ElfWork
    BY <1>2, <1>5, <1>6, <1>7, LoadElfType
  <2> QED BY <2>1 DEF ElfWork
<1>9. stack \in Work
  <2>1. StackPage \in Pages /\ StackPages \in Nat
    BY StackPageUser, UserPage
  <2> QED BY <1>2, <1>5, <1>6, <1>8, <2>1, AllocVpagesType
(* What is built when there was a directory.                               *)
<1>10. ASSUME p # 0, elf.why = {} PROVE Loading(b, elf, p, StackPage)
  <2>1. /\ Own(new.m, {p}, b.used) /\ Agree(b, new.m)
        /\ \A w \in DirWords({p}) : new.m.mem[w] = 0
    BY <1>2, <1>5, <1>10, NewOwned DEF p
  <2>2. Held(b, new.m, p)
    BY <1>5, <2>1 DEF Held
  <2>3. Unmapped(new.m, p, UserPages)
    <3>1. \A d \in Slots \ {0} : Word(p, d) \in DirWords({p})
      BY <1>5, WordOf DEF DirWords
    <3> QED BY <2>1, <3>1, UserPage DEF Unmapped, Page
  <2> QED BY <1>2, <1>5, <1>6, <1>7, <1>10, <2>2, <2>3, LoadElfLoading
<1>11. ASSUME p # 0, elf.why = {}, stack.why = {}
       PROVE  Held(b, stack.m, p) \/ (elf.err /\ stack.err /\ Loose(b, stack.m, p) /\ 0 \in stack.m.used)
  BY <1>2, <1>5, <1>6, <1>8, <1>10, <1>11, StackBuilt
(* An exec that fails.                                                     *)
<1>12. ASSUME NEW r, r.used = b.used, Own(r, R, S), ZeroFrame(r), NEW why, Failed(t, program, r, why)
       PROVE  Separate' /\ (~ret'.ok => used' = used /\ cr3' = cr3)
  <2>1. used' = used /\ cr3' = cr3 /\ used' = r.used /\ mem' = r.mem
    BY <1>2, <1>12 DEF Failed, Store
  <2>2. Directories' = R
    BY <2>1 DEF Directories, Born, R
  <2>3. m0'.used = r.used /\ m0'.mem = r.mem
    BY <2>1 DEF m0
  <2>4. Own(m0', R, S) /\ ZeroFrame(m0')
    <3> DEFINE n == m0'
    <3>1. n.used = r.used /\ n.mem = r.mem
      BY <2>3
    <3> HIDE DEF n
    <3>2. Own(n, R, S) /\ ZeroFrame(n)
      BY <1>12, <3>1 DEF Own, ZeroFrame
    <3> QED BY <3>2 DEF n
  <2> QED BY <1>4, <2>1, <2>2, <2>4 DEF Separate, S
<1>13. CASE p = 0 /\ Failed(t, program, new.m, {})
  <2>1. new.m.used = b.used /\ new.m.mem = b.mem
    <3>1. Take(b).page = 0 /\ new.m.used = Take(b).used /\ new.m.mem = b.mem
      BY <1>2, <1>5, <1>13, CreatePdeIs DEF p
    <3>2. b.used \subseteq Take(b).used /\ Take(b).used = b.used \cup {0}
      BY <1>2, <3>1, TakePage
    <3> QED BY <1>2, <3>1, <3>2
  <2>2. Own(new.m, R, S) /\ ZeroFrame(new.m)
    BY <1>2, <2>1 DEF Own, ZeroFrame
  <2> QED BY <1>12, <1>13, <2>1, <2>2
<1>14. CASE p # 0 /\ exec_entry(elf.err, program) = 0 /\ Failed(t, program, destroy_pde(elf.m, p), elf.why)
  <2>1. elf.why = {}
    BY <1>8, <1>14 DEF Failed, ElfWork, Whys
  <2>2. ~elf.err
    BY <1>14 DEF exec_entry
  <2>3. Held(b, elf.m, p)
    BY <1>10, <1>14, <2>1, <2>2 DEF Loading
  <2>4. Loose(b, elf.m, p) /\ 0 \in elf.m.used
    BY <2>3, HeldFacts
  <2> DEFINE r == destroy_pde(elf.m, p)
  <2>5. r.used = b.used /\ Own(r, R, S) /\ ZeroFrame(r)
    BY <1>2, <1>5, <2>4, GivenBack, ZenonT(60)
  <2> QED BY <1>12, <1>14, <2>5
<1>15. CASE p # 0 /\ stack.err /\ Failed(t, program, destroy_pde(stack.m, p), elf.why \cup stack.why)
  <2>1. elf.why = {} /\ stack.why = {}
    BY <1>8, <1>9, <1>15 DEF Failed, ElfWork, Work, Whys
  <2>2. Loose(b, stack.m, p) /\ 0 \in stack.m.used
    BY <1>11, <1>15, <2>1, HeldFacts
  <2> DEFINE r == destroy_pde(stack.m, p)
  <2>3. r.used = b.used /\ Own(r, R, S) /\ ZeroFrame(r)
    BY <1>2, <1>5, <2>2, GivenBack, ZenonT(60)
  <2> QED BY <1>12, <1>15, <2>3
(* An exec that runs.                                                      *)
<1>16. CASE /\ p # 0 /\ ~stack.err
            /\ Ran(t, program, destroy_pde(copy_args_envs(stack.m, p), c), p,
                   elf.why \cup stack.why \cup Blame("load", elf.err))
  <2> DEFINE n == copy_args_envs(stack.m, p)
             r == destroy_pde(n, c)
  <2>1. elf.why = {} /\ stack.why = {}
    BY <1>8, <1>9, <1>16 DEF Ran, ElfWork, Work, Whys
  <2>2. Held(b, stack.m, p)
    BY <1>11, <1>16, <2>1
  <2>3. Held(b, n, p)
    BY <1>2, <1>5, <2>2, ArgsHeld
  <2> HIDE DEF n
  <2>4. r \in State /\ Own(r, (R \ {c}) \cup {p}, S) /\ ZeroFrame(r)
    BY <1>2, <1>3, <1>5, <2>3, Replaced
  <2>5. used' = r.used /\ mem' = r.mem /\ cr3' = [cr3 EXCEPT ![t] = p] /\ ret'.ok
    BY <1>16 DEF Ran, Store, n
  <2> HIDE DEF r
  <2>6. m0' = r
    BY <2>4, <2>5 DEF m0, State
  <2>7. p \notin R /\ p # NONE /\ cr3 \in [Tasks -> Frames \cup {NONE}]
    <3>1. p \notin b.used
      BY <2>2, HeldFacts
    <3> QED BY <1>2, <1>5, <3>1, Sizes, TypeFacts DEF Own
  <2>8. \A u \in Tasks : u # t => cr3'[u] = cr3[u] /\ cr3[u] # c /\ cr3[u] # p
    <3>1. \A u \in Tasks : u # t => cr3'[u] = cr3[u] /\ cr3[u] # c
      BY <1>3, <2>5, <2>7, Sizes DEF Separate, c
    <3>2. \A u \in Tasks : cr3[u] # p
      BY <1>5, <1>16, <2>7, SeparateFacts DEF R
    <3> QED BY <3>1, <3>2
  <2>9. cr3'[t] = p
    BY <2>5, <2>7
  <2>10. Directories' = (R \ {c}) \cup {p}
    <3>1. Directories' = {cr3'[u] : u \in {u \in Tasks : cr3'[u] # NONE}} \ {0}
      BY DEF Directories, Born
    <3>2. R = {cr3[u] : u \in {u \in Tasks : cr3[u] # NONE}} \ {0}
      BY DEF Directories, Born, R
    <3>3. ASSUME NEW x \in Directories' PROVE x \in (R \ {c}) \cup {p}
      BY <2>8, <2>9, <3>1, <3>2, <3>3
    <3>4. ASSUME NEW x \in (R \ {c}) \cup {p} PROVE x \in Directories'
      <4>1. CASE x = p
        BY <1>16, <2>7, <2>9, <3>1, <4>1
      <4>2. CASE x # p
        <5>1. PICK u \in Tasks : cr3[u] # NONE /\ cr3[u] = x /\ x # 0 /\ x # c
          BY <3>2, <3>4, <4>2
        <5>2. u # t
          BY <5>1 DEF c
        <5> QED BY <2>8, <3>1, <5>1, <5>2
      <4> QED BY <4>1, <4>2
    <3> QED BY <3>3, <3>4
  <2>11. \A u, x \in Tasks : u # x /\ cr3'[u] = cr3'[x] => cr3'[u] \in {NONE, 0}
    BY <2>8, <2>9 DEF Separate
  <2>12. cr3'[First] # 0 /\ \A u \in Tasks : cr3'[u] = 0 => u \in zombie
    BY <1>16, <2>8, <2>9, SpaceAssumption DEF Separate
  <2> QED BY <1>4, <2>4, <2>5, <2>6, <2>10, <2>11, <2>12 DEF Separate, S
<1> QED BY <1>1, <1>13, <1>14, <1>15, <1>16 DEF p

-----------------------------------------------------------------------------
(* The copy of the parent's space, beside the memory b there was.          *)

(* A user's page is in no table, in no directory, and not in S.            *)
LEMMA UserFrame ==
  ASSUME NEW m \in State, NEW p \in Frames, NEW S, Own(m, {p}, S), NEW v \in UserPages,
         Page(m.mem, p, v) # 0
  PROVE  /\ Page(m.mem, p, v) \in m.used /\ Page(m.mem, p, v) \in Frames
         /\ Page(m.mem, p, v) \notin S \cup {p} \cup TablesOf(m.mem, {p})
<1> DEFINE d == pde_index(v)
           s == pte_index(v)
           table == m.mem[Word(p, d)]
<1>1. d \in Slots \ {0} /\ s \in Slots
  BY UserPage
<1>2. table # 0 /\ Page(m.mem, p, v) = m.mem[Word(table, s)]
  BY DEF Page
<1>3. Word(table, s) \in TableWords(m.mem, {p})
  <2> HIDE DEF d, s
  <2> QED BY <1>1, <1>2, TableOf
<1>4. Page(m.mem, p, v) \in m.used
  BY <1>2, <1>3 DEF Own, LinksOf
<1>5. Page(m.mem, p, v) \notin S \cup {p} \cup TablesOf(m.mem, {p})
  BY <1>2, <1>3, Kinds
<1> QED BY <1>4, <1>5 DEF State

(* The parent's pages stay what they are while the copy is made.           *)
ParentKept(b, m, c) ==
  /\ SameDir(b, m, c) /\ SamePages(b, m, c, UserPages)
  /\ \A v \in UserPages :
       /\ Page(b.mem, c, v) \in b.used
       /\ Content(m.mem, Page(b.mem, c, v)) = Content(b.mem, Page(b.mem, c, v))

(* The parent's words lie in frames that were used before the copy began.  *)
LEMMA Parent ==
  ASSUME NEW b \in State, NEW R \in SUBSET Frames, NEW S, Own(b, R, S), NEW c \in R,
         NEW m, Agree(b, m)
  PROVE  ParentKept(b, m, c)
<1>1. c \in b.used /\ c \in Frames /\ 0 \in b.used /\ TablesOf(b.mem, R) \subseteq b.used
  BY Kinds DEF Own
<1>2. \A f \in Frames, s \in Slots : f \in b.used => m.mem[Word(f, s)] = b.mem[Word(f, s)]
  BY WordOf DEF Agree
<1>3. SameDir(b, m, c)
  BY <1>1, <1>2 DEF SameDir
<1>4. ASSUME NEW v \in UserPages
      PROVE  /\ Page(m.mem, c, v) = Page(b.mem, c, v) /\ Page(b.mem, c, v) \in b.used
             /\ Content(m.mem, Page(b.mem, c, v)) = Content(b.mem, Page(b.mem, c, v))
  <2> DEFINE d == pde_index(v)
             s == pte_index(v)
             table == b.mem[Word(c, d)]
             from == Page(b.mem, c, v)
  <2>1. d \in Slots \ {0} /\ s \in Slots
    BY UserPage
  <2> HIDE DEF d, s
  <2>2. m.mem[Word(c, d)] = table
    BY <1>3, <2>1 DEF SameDir
  <2>3. Word(c, d) \in DirWords(R)
    BY <1>1, <2>1, WordOf DEF DirWords
  <2>4. table # 0 => table \in TablesOf(b.mem, R)
    BY <2>3 DEF TablesOf
  <2>5. table # 0 => /\ table \in b.used /\ table \in Frames
                     /\ Word(table, s) \in TableWords(b.mem, R)
    <3>1. table # 0 => table \in b.used /\ table \in Frames
      BY <1>1, <2>4 DEF State
    <3> QED BY <2>1, <2>4, <3>1, WordOf DEF TableWords
  <2>6. from = IF table = 0 THEN 0 ELSE b.mem[Word(table, s)]
    BY DEF Page, d, s
  <2>7. Page(m.mem, c, v) = IF table = 0 THEN 0 ELSE m.mem[Word(table, s)]
    BY <2>2 DEF Page, d, s
  <2>8. Page(m.mem, c, v) = from
    BY <1>2, <2>1, <2>5, <2>6, <2>7
  <2>9. from \in b.used
    BY <1>1, <2>5, <2>6 DEF Own, LinksOf
  <2>10. from \in Frames
    BY <2>9 DEF State
  <2> HIDE DEF from
  <2>11. Content(m.mem, from) = Content(b.mem, from)
    BY <1>2, <2>9, <2>10 DEF Content
  <2> QED BY <2>8, <2>9, <2>11 DEF from
<1> QED BY <1>3, <1>4 DEF ParentKept, SamePages

(* The tables of the pages below v, and the pages, have been copied.       *)
CopiedTables(b, c, m, p, v) ==
  \A d \in Slots \ {0} : m.mem[Word(p, d)] # 0 <=> b.mem[Word(c, d)] # 0 /\ Word(d, 0) < v
PageCopied(b, from, m, to) == to \notin b.used /\ Content(m.mem, to) = Content(b.mem, from)
PageStatus(b, c, m, p, v, u) ==
  IF u < v /\ Page(b.mem, c, u) # 0
  THEN PageCopied(b, Page(b.mem, c, u), m, Page(m.mem, p, u))
  ELSE Page(m.mem, p, u) = 0
CopiedPages(b, c, m, p, v) == \A u \in UserPages : PageStatus(b, c, m, p, v, u)

Copying(b, c, q, p, v) ==
  /\ Held(b, q.m, p)
  /\ ~q.err => CopiedTables(b, c, q.m, p, v) /\ CopiedPages(b, c, q.m, p, v)

(* A page that stays and keeps its contents stays a copy.                  *)
LEMMA StayCopied ==
  ASSUME NEW b, NEW c, NEW m \in State, NEW n, NEW p \in Frames, NEW v, 0 \in b.used,
         Own(m, {p}, b.used), NEW u \in UserPages, PageStatus(b, c, m, p, v, u),
         SamePages(m, n, p, {u}),
         \A w \in Words : FrameOf(w) \in m.used \ ({p} \cup TablesOf(m.mem, {p})) => n.mem[w] = m.mem[w]
  PROVE  PageStatus(b, c, n, p, v, u)
<1>1. Page(n.mem, p, u) = Page(m.mem, p, u)
  BY DEF SamePages
<1>2. CASE ~(u < v /\ Page(b.mem, c, u) # 0)
  BY <1>1, <1>2 DEF PageStatus
<1>3. CASE u < v /\ Page(b.mem, c, u) # 0
  <2> DEFINE to == Page(m.mem, p, u)
             from == Page(b.mem, c, u)
  <2>1. to \notin b.used /\ Content(m.mem, to) = Content(b.mem, from)
    BY <1>3 DEF PageStatus, PageCopied
  <2>2. to # 0
    BY <2>1
  <2>3. to \in m.used \ ({p} \cup TablesOf(m.mem, {p})) /\ to \in Frames
    BY <2>2, UserFrame
  <2> HIDE DEF to, from
  <2>4. Content(n.mem, to) = Content(m.mem, to)
    <3>1. \A s \in Slots : n.mem[Word(to, s)] = m.mem[Word(to, s)]
      BY <2>3, WordOf
    <3> QED BY <3>1 DEF Content
  <2>5. PageCopied(b, from, n, to)
    BY <2>1, <2>4 DEF PageCopied
  <2> QED BY <1>1, <1>3, <2>5 DEF from, to, PageStatus
<1> QED BY <1>2, <1>3

(* A table for the child, in the round of the first page it maps.          *)
LEMMA CopyTableStep ==
  ASSUME Sized, NEW b, NEW c, NEW p \in Frames, NEW v \in UserPages,
         NEW q \in Work, ~q.err, Held(b, q.m, p),
         CopiedTables(b, c, q.m, p, v), CopiedPages(b, c, q.m, p, v),
         pte_index(v) = 0, b.mem[Word(c, pde_index(v))] # 0,
         NEW r, r = copy_table(q, p, pde_index(v), Take(q.m)), r.why = {}
  PROVE  /\ r \in Work /\ Held(b, r.m, p)
         /\ ~r.err => CopiedTables(b, c, r.m, p, v + 1) /\ CopiedPages(b, c, r.m, p, v)
<1> DEFINE d == pde_index(v)
           m == q.m
           t == Take(m)
           x == t.page
           mm == IF x = 0 THEN m.mem ELSE Put(m.mem, Word(p, d), x)
           n == r.m
<1>1. m \in State /\ m.mem \in Mem /\ 0 \in m.used /\ Own(m, {p}, b.used) /\ Agree(b, m)
      /\ p \notin b.used /\ 0 \in b.used
  BY HeldFacts DEF Held, State
<1>2. d \in Slots \ {0} /\ v = Word(d, 0) /\ v \in Nat
  BY UserPage, PageSlots
<1>3. /\ t.used \in SUBSET Frames /\ x \in Frames
      /\ x = 0 => t.used = m.used \cup {0}
      /\ x # 0 => t.used = m.used \cup {x} /\ x \notin m.used
  BY <1>1, TakePage
<1>4. r \in Work
  BY <1>3, CopyTableType
<1>5. /\ n.used = t.used /\ n.mem = mm /\ r.err = (x = 0)
      /\ Blame("stale", Content(m.mem, x) # Zeros) = {}
  BY DEF copy_table
<1>6. n \in State
  BY <1>4 DEF Work
<1> HIDE DEF d, m, n, t
<1>7. CASE x = 0
  <2>1. n.used = m.used /\ n.mem = m.mem
    BY <1>1, <1>3, <1>5, <1>7
  <2>2. Own(n, {p}, b.used) /\ Agree(b, n)
    BY <1>1, <2>1, SMTT(60) DEF Own, Agree
  <2> QED BY <1>4, <1>5, <1>6, <1>7, <2>2 DEF Held, n
<1>8. CASE x # 0
  <2> HIDE DEF x
  <2>1. \A u \in Words : n.mem[u] = IF u = Word(p, d) THEN x ELSE m.mem[u]
    BY <1>1, <1>3, <1>5, <1>8, PutMem
  <2>2. Linked(m, n, Word(p, d), x)
    BY <1>3, <1>5, <1>8, <2>1 DEF Linked
  <2>3. Clean(m, x)
    <3>1. Content(m.mem, x) = Zeros
      BY <1>5 DEF Blame
    <3>2. \A s \in Slots : Content(m.mem, x)[s] = m.mem[Word(x, s)]
      BY <1>1, <1>3, ContentMem
    <3>3. \A s \in Slots : Zeros[s] = 0
      BY DEF Zeros
    <3> QED BY <3>1, <3>2, <3>3 DEF Clean
  <2>4. m.mem[Word(p, d)] = 0
    BY <1>2 DEF CopiedTables, m
  <2>5. Own(n, {p}, b.used) /\ SamePages(m, n, p, UserPages)
    BY <1>1, <1>2, <2>2, <2>3, <2>4, LinkTable
  <2>6. \A e \in Slots : Word(p, e) \in Words /\ FrameOf(Word(p, e)) = p /\ SlotOf(Word(p, e)) = e
    BY WordOf
  <2>7. Agree(b, n)
    BY <1>1, <1>2, <2>1, <2>6 DEF Agree
  <2>8. CopiedPages(b, c, n, p, v)
    <3> SUFFICES ASSUME NEW u \in UserPages PROVE PageStatus(b, c, n, p, v, u)
      BY DEF CopiedPages
    <3>1. SamePages(m, n, p, {u})
      BY <2>5 DEF SamePages
    <3>2. \A w \in Words : FrameOf(w) \in m.used \ ({p} \cup TablesOf(m.mem, {p})) => n.mem[w] = m.mem[w]
      BY <1>2, <2>1, <2>6
    <3>3. PageStatus(b, c, m, p, v, u)
      BY DEF CopiedPages, m
    <3> QED BY <1>1, <3>1, <3>2, <3>3, StayCopied
  <2>9. CopiedTables(b, c, n, p, v + 1)
    <3> SUFFICES ASSUME NEW e \in Slots \ {0}
                 PROVE  n.mem[Word(p, e)] # 0 <=> b.mem[Word(c, e)] # 0 /\ Word(e, 0) < v + 1
      BY DEF CopiedTables
    <3>1. m.mem[Word(p, e)] # 0 <=> b.mem[Word(c, e)] # 0 /\ Word(e, 0) < v
      BY DEF CopiedTables, m
    <3>2. CASE e = d
      BY <1>2, <1>8, <2>1, <2>6, <3>2 DEF d
    <3>3. CASE e # d
      <4>1. n.mem[Word(p, e)] = m.mem[Word(p, e)]
        BY <1>2, <2>1, <2>6, <3>3
      <4>2. Word(e, 0) # v /\ Word(e, 0) \in Nat
        <5>1. pde_index(Word(e, 0)) = e /\ Word(e, 0) \in Pages
          BY PageSlots, Sizes
        <5> QED BY <3>3, <5>1, PageSlots DEF d
      <4> QED BY <1>2, <3>1, <4>1, <4>2
    <3> QED BY <3>2, <3>3
  <2> QED BY <1>1, <1>4, <1>6, <2>5, <2>7, <2>8, <2>9 DEF Held, n
<1> QED BY <1>7, <1>8

(* A page for the child with what the parent's holds.                      *)
LEMMA CopyPageStep ==
  ASSUME Sized, NEW b, b.used \subseteq Frames, NEW c \in Frames, NEW p \in Frames, NEW v \in UserPages,
         NEW q \in Work, ~q.err, Held(b, q.m, p), ParentKept(b, q.m, c),
         CopiedTables(b, c, q.m, p, v + 1), CopiedPages(b, c, q.m, p, v),
         b.mem[Word(c, pde_index(v))] # 0,
         NEW r, r = copy_page(q, p, b.mem[Word(c, pde_index(v))], v)
  PROVE  Copying(b, c, r, p, v + 1)
<1> DEFINE d == pde_index(v)
           s == pte_index(v)
           m == q.m
           ptable == b.mem[Word(c, d)]
           table == m.mem[Word(p, d)]
           from == m.mem[Word(ptable, s)]
           w == Word(table, s)
           t == Take(m)
           x == t.page
           n == r.m
<1>1. m \in State /\ m.mem \in Mem /\ 0 \in m.used /\ Own(m, {p}, b.used) /\ Agree(b, m)
      /\ p \notin b.used /\ 0 \in b.used /\ b.used \subseteq m.used /\ p \in m.used
  BY HeldFacts DEF Held, State
<1>2. d \in Slots \ {0} /\ s \in Slots /\ v \in Pages /\ v \in Nat /\ v = Word(d, s)
  BY UserPage, PageSlots
<1>3. m.mem[Word(c, d)] = ptable
  BY <1>2 DEF ParentKept, SameDir
<1>4. ptable \in Frames
  <2>1. Word(c, d) \in Words
    BY <1>2, WordOf
  <2> QED BY <1>1, <1>3, <2>1 DEF Mem
<1>5. from = Page(b.mem, c, v) /\ from \in b.used /\ Content(m.mem, from) = Content(b.mem, from)
  <2>1. Page(m.mem, c, v) = from
    BY <1>3 DEF Page
  <2>2. Page(m.mem, c, v) = Page(b.mem, c, v)
    BY DEF ParentKept, SamePages
  <2> QED BY <2>1, <2>2 DEF ParentKept
<1>6. Page(m.mem, p, v) = 0
  BY <1>2 DEF CopiedPages, PageStatus
<1>7. \A u \in UserPages : u # v => (PageStatus(b, c, m, p, v, u) <=> PageStatus(b, c, m, p, v + 1, u))
  <2>1. \A u \in UserPages : u \in Nat
    BY UserPage, PageSlots
  <2> QED BY <1>2, <2>1 DEF PageStatus
<1>8. \A u \in UserPages : u # v => PageStatus(b, c, m, p, v + 1, u)
  BY <1>7 DEF CopiedPages
<1>9. /\ r \in Work /\ from \in Frames
      /\ w \in Words
      /\ from = 0 => r = q
      /\ from # 0 =>
           /\ n.used = t.used /\ r.err = (x = 0)
           /\ n.mem = IF x = 0 THEN m.mem ELSE Fill(Put(m.mem, w, x), x, Content(m.mem, from))
  <2>1. r \in Work /\ from \in Frames /\ w \in Words
    <3>1. table \in Frames
      <4>1. Word(p, d) \in Words
        BY <1>2, WordOf
      <4> QED BY <1>1, <4>1 DEF Mem
    <3>2. w \in Words /\ from \in Frames
      <4> HIDE DEF table, ptable, d, s, m
      <4> QED BY <1>1, <1>2, <1>4, <3>1, WordOf DEF Mem
    <3>3. r \in Work
      <4> HIDE DEF ptable
      <4>1. r = copy_page(q, p, ptable, v)
        BY DEF ptable
      <4> QED BY <1>2, <1>4, <4>1, CopyPageIs
    <3> QED BY <3>2, <3>3
  <2> DEFINE mm == IF x = 0 THEN m.mem ELSE Fill(Put(m.mem, w, x), x, Content(m.mem, from))
  <2>2. r = IF from = 0 THEN q
            ELSE [q EXCEPT !.m = [used |-> t.used, mem |-> mm], !.err = (x = 0)]
    BY DEF copy_page
  <2> HIDE DEF from, t, mm, w
  <2>3. from = 0 => r = q
    BY <2>2
  <2>4. from # 0 => n.used = t.used /\ r.err = (x = 0) /\ n.mem = mm
    BY <2>2 DEF Work
  <2> QED BY <2>1, <2>3, <2>4 DEF mm
<1>10. n \in State
  BY <1>9 DEF Work
<1>11. /\ t.used \in SUBSET Frames /\ x \in Frames
       /\ x = 0 => t.used = m.used \cup {0}
       /\ x # 0 => t.used = m.used \cup {x} /\ x \notin m.used
  BY <1>1, TakePage
<1>12. CASE from = 0
  <2>1. PageStatus(b, c, m, p, v + 1, v)
    BY <1>5, <1>6, <1>12 DEF PageStatus
  <2>2. CopiedPages(b, c, m, p, v + 1)
    BY <1>8, <2>1 DEF CopiedPages
  <2> QED BY <1>9, <1>12, <2>2 DEF Copying
<1> HIDE DEF d, s, m, ptable, from, t, n
<1>13. CASE from # 0 /\ x = 0
  <2>1. n.used = m.used /\ n.mem = m.mem /\ r.err
    BY <1>1, <1>9, <1>11, <1>13
  <2>2. Own(n, {p}, b.used) /\ Agree(b, n)
    BY <1>1, <2>1, SMTT(60) DEF Own, Agree
  <2> QED BY <1>10, <2>1, <2>2 DEF Held, Copying, n
<1>14. CASE from # 0 /\ x # 0
  <2> DEFINE n0 == [used |-> t.used, mem |-> Put(m.mem, w, x)]
  <2>1. n0 \in State /\ n0.used = m.used \cup {x} /\ n0.mem = Put(m.mem, w, x) /\ n0.mem \in Mem
    BY <1>1, <1>11, <1>14, PutMem DEF State
  <2>2. \A u \in Words : n0.mem[u] = IF u = w THEN x ELSE m.mem[u]
    BY <1>1, <1>11, <2>1, PutMem
  <2> HIDE DEF n0, x
  <2>3. table # 0
    <3>1. Word(d, 0) < v + 1
      <4>1. v = d * Entries + s /\ Word(d, 0) = d * Entries + 0
        BY <1>2 DEF Word
      <4>2. s \in Nat /\ d * Entries \in Nat
        BY <1>2, Sizes
      <4> QED BY <4>1, <4>2
    <3> QED BY <1>2, <3>1 DEF CopiedTables, m, d
  <2>4. table \in Frames /\ table \in TablesOf(m.mem, {p}) /\ table \notin b.used \cup {p}
    BY <1>1, <1>2, <2>3, TableOf
  <2>5. Linked(m, n0, Word(m.mem[Word(p, pde_index(v))], pte_index(v)), x)
    BY <1>11, <1>14, <2>1, <2>2 DEF Linked, d, s
  <2>6. /\ Own(n0, {p}, b.used) /\ x # 0 /\ SameDir(m, n0, p)
        /\ SamePages(m, n0, p, UserPages \ {v})
    <3> DEFINE tab == m.mem[Word(p, pde_index(v))]
    <3>1. tab = m.mem[Word(p, pde_index(v))] /\ tab # 0 /\ Linked(m, n0, Word(tab, pte_index(v)), x)
      BY <2>3, <2>5 DEF d
    <3> HIDE DEF tab
    <3> QED BY <1>1, <1>6, <3>1, LinkPage DEF m
  <2>7. FrameOf(w) = table
    BY <1>2, <2>4, WordOf
  <2> DEFINE at == Page(n0.mem, p, v)
  <2>8. at = x
    <3>1. n0.mem[Word(p, d)] = table /\ n0.mem[w] = x
      BY <1>2, <1>9, <2>2, <2>6 DEF SameDir
    <3> QED BY <2>3, <3>1 DEF Page, d, s
  <2>9. Agree(b, n0)
    BY <1>1, <2>2, <2>4, <2>7 DEF Agree
  <2>10. Held(b, n0, p)
    BY <2>1, <2>6, <2>9 DEF Held
  <2> DEFINE text == Content(m.mem, from)
  <2>11. text \in [Slots -> Frames]
    BY <1>1, <1>9, ContentMem
  <2>12. n.used = n0.used /\ n.mem = Fill(n0.mem, x, text)
    BY <1>9, <1>11, <1>14, <2>1 DEF x
  <2> HIDE DEF text
  <2>13. n = [n0 EXCEPT !.mem = Fill(@, Page(n0.mem, p, v), text)]
    BY <1>10, <2>1, <2>8, <2>12 DEF State
  <2>14. Held(b, n, p) /\ SamePages(n0, n, p, UserPages)
    BY <2>6, <2>10, <2>11, <2>13, <2>8, FillHeld
  <2>15. \A u \in Words : n.mem[u] = IF FrameOf(u) = x THEN text[SlotOf(u)] ELSE n0.mem[u]
    BY <2>1, <2>11, <2>12, FillMem
  <2>16. \A u \in Words : FrameOf(u) \notin {x, table} => n.mem[u] = m.mem[u]
    BY <2>2, <2>7, <2>15
  <2>17. CopiedTables(b, c, n, p, v + 1)
    <3>1. \A e \in Slots : Word(p, e) \in Words /\ FrameOf(Word(p, e)) = p
      BY WordOf
    <3>2. p \notin {x, table}
      BY <1>1, <1>11, <1>14, <2>4 DEF x
    <3>3. \A e \in Slots : n.mem[Word(p, e)] = m.mem[Word(p, e)]
      BY <2>16, <3>1, <3>2
    <3> QED BY <3>3 DEF CopiedTables, m
  <2>18. PageStatus(b, c, n, p, v + 1, v)
    <3>1. Page(n.mem, p, v) = x
      BY <2>14, <2>8 DEF SamePages
    <3>2. x \notin b.used /\ x \in Frames
      BY <1>1, <1>11, <1>14 DEF x
    <3>3. Content(n.mem, x) = text
      <4>1. \A a \in Slots : n.mem[Word(x, a)] = text[a]
        BY <2>15, <3>2, WordOf
      <4> QED BY <2>11, <4>1 DEF Content
    <3>4. Content(n.mem, x) = Content(b.mem, from)
      BY <1>5, <3>3 DEF text
    <3>5. v < v + 1 /\ Page(b.mem, c, v) = from
      BY <1>2, <1>5
    <3> QED BY <1>14, <3>1, <3>2, <3>4, <3>5 DEF PageStatus, PageCopied
  <2>19. ASSUME NEW u \in UserPages, u # v PROVE PageStatus(b, c, n, p, v + 1, u)
    <3>1. SamePages(m, n, p, {u})
      BY <2>6, <2>14, <2>19 DEF SamePages
    <3>2. \A y \in Words : FrameOf(y) \in m.used \ ({p} \cup TablesOf(m.mem, {p})) => n.mem[y] = m.mem[y]
      BY <1>11, <1>14, <2>4, <2>16 DEF x
    <3>3. PageStatus(b, c, m, p, v + 1, u)
      BY <1>8, <2>19
    <3> QED BY <1>1, <3>1, <3>2, <3>3, StayCopied
  <2>20. CopiedPages(b, c, n, p, v + 1)
    BY <2>18, <2>19 DEF CopiedPages
  <2> QED BY <2>14, <2>17, <2>20 DEF Copying, n
<1> QED BY <1>12, <1>13, <1>14

(* A round of copy_memory: a table when it is the first of its table, and  *)
(* the page.                                                               *)
LEMMA CopyRoundStep ==
  ASSUME Sized, NEW b \in State, NEW R \in SUBSET Frames, NEW S, Own(b, R, S), NEW c \in R,
         NEW p \in Frames, NEW v \in UserPages, NEW q \in Work, Copying(b, c, q, p, v),
         NEW r, r = copy_round(q, p, c, v), r.why = {}
  PROVE  Copying(b, c, r, p, v + 1)
<1> DEFINE d == pde_index(v)
           m == q.m
           ptable == m.mem[Word(c, d)]
           q1 == IF pte_index(v) # 0 THEN q ELSE copy_table(q, p, d, Take(m))
<1>1. /\ c \in Frames /\ b.used \subseteq Frames /\ Held(b, m, p)
      /\ ~q.err => CopiedTables(b, c, m, p, v) /\ CopiedPages(b, c, m, p, v)
  BY DEF Copying, State
<1>2. /\ d \in Slots \ {0} /\ pte_index(v) \in Slots /\ v \in Pages /\ v \in Nat
      /\ v = Word(d, pte_index(v))
  BY UserPage, PageSlots
<1>3. \A n : Held(b, n, p) => ParentKept(b, n, c)
  BY Parent DEF Held
<1>4. ptable = b.mem[Word(c, d)]
  BY <1>1, <1>2, <1>3 DEF ParentKept, SameDir
<1>5. r = IF q.err \/ ptable = 0 THEN q ELSE copy_page(q1, p, ptable, v)
  BY DEF copy_round
<1>6. \A e \in Slots \ {0} : Word(e, 0) \in Nat /\ (Word(e, 0) = v => e = d /\ pte_index(v) = 0)
  BY PageSlots, Sizes
<1>7. CASE q.err
  BY <1>1, <1>5, <1>7 DEF Copying
<1>8. ASSUME ~q.err, ptable = 0 \/ pte_index(v) # 0
      PROVE  CopiedTables(b, c, m, p, v + 1)
  <2> SUFFICES ASSUME NEW e \in Slots \ {0}
               PROVE  m.mem[Word(p, e)] # 0 <=> b.mem[Word(c, e)] # 0 /\ Word(e, 0) < v + 1
    BY DEF CopiedTables
  <2>1. m.mem[Word(p, e)] # 0 <=> b.mem[Word(c, e)] # 0 /\ Word(e, 0) < v
    BY <1>1, <1>8 DEF CopiedTables
  <2>2. Word(e, 0) = v => b.mem[Word(c, e)] = 0
    BY <1>4, <1>6, <1>8
  <2>3. Word(e, 0) \in Nat /\ (Word(e, 0) < v + 1 <=> Word(e, 0) < v \/ Word(e, 0) = v)
    BY <1>2, <1>6
  <2> QED BY <2>1, <2>2, <2>3
<1>9. CASE ~q.err /\ ptable = 0
  <2>1. r = q
    BY <1>5, <1>9
  <2>2. CopiedPages(b, c, m, p, v + 1)
    <3> SUFFICES ASSUME NEW u \in UserPages PROVE PageStatus(b, c, m, p, v + 1, u)
      BY DEF CopiedPages
    <3>1. PageStatus(b, c, m, p, v, u)
      BY <1>1, <1>9 DEF CopiedPages
    <3>2. CASE u = v
      <4>1. Page(b.mem, c, v) = 0
        BY <1>4, <1>9 DEF Page
      <4> QED BY <3>1, <3>2, <4>1 DEF PageStatus
    <3>3. CASE u # v
      <4>1. u \in Nat
        BY UserPage, PageSlots
      <4>2. u < v + 1 <=> u < v
        BY <1>2, <3>3, <4>1
      <4> QED BY <3>1, <4>2 DEF PageStatus
    <3> QED BY <3>2, <3>3
  <2> QED BY <1>1, <1>8, <1>9, <2>1, <2>2 DEF Copying
<1>10. CASE ~q.err /\ ptable # 0
  <2>1. r = copy_page(q1, p, ptable, v)
    BY <1>5, <1>10
  <2>2. q1 \in Work
    <3>1. m \in State
      BY DEF Work
    <3>2. Take(m).used \in SUBSET Frames /\ Take(m).page \in Frames
      BY <3>1, TakePage
    <3> QED BY <3>2, CopyTableType
  <2> HIDE DEF q1, ptable
  <2>3. q1.why = {}
    BY <2>1, <2>2 DEF copy_page, Work
  <2>4. /\ Held(b, q1.m, p)
        /\ ~q1.err => CopiedTables(b, c, q1.m, p, v + 1) /\ CopiedPages(b, c, q1.m, p, v)
    <3>1. CASE pte_index(v) # 0
      <4>1. q1 = q
        BY <3>1 DEF q1
      <4> QED BY <1>1, <1>8, <1>10, <3>1, <4>1
    <3>2. CASE pte_index(v) = 0
      <4>1. q1 = copy_table(q, p, pde_index(v), Take(q.m))
        BY <3>2 DEF q1
      <4>2. b.mem[Word(c, pde_index(v))] # 0
        BY <1>4, <1>10
      <4> HIDE DEF d, m
      <4>3. Held(b, q.m, p) /\ CopiedTables(b, c, q.m, p, v) /\ CopiedPages(b, c, q.m, p, v) /\ ~q.err
        BY <1>1, <1>10 DEF m
      <4> QED BY <2>3, <3>2, <4>1, <4>2, <4>3, CopyTableStep
    <3> QED BY <3>1, <3>2
  <2>5. CASE q1.err
    <3>1. r = q1
      BY <2>1, <2>5 DEF copy_page
    <3> QED BY <2>4, <2>5, <3>1 DEF Copying
  <2>6. CASE ~q1.err
    <3>1. ParentKept(b, q1.m, c)
      BY <1>3, <2>4
    <3>2. r = copy_page(q1, p, b.mem[Word(c, pde_index(v))], v) /\ b.mem[Word(c, pde_index(v))] # 0
      BY <1>4, <1>10, <2>1
    <3> HIDE DEF d, m
    <3> QED BY <1>1, <2>2, <2>4, <2>6, <3>1, <3>2, CopyPageStep
  <2> QED BY <2>5, <2>6
<1> QED BY <1>7, <1>9, <1>10

(* The pages the loops of copy_memory go through.                          *)
LEMMA CopyPages ==
  ASSUME NEW k \in 1 .. Entries * (Entries - 1), NEW v, v = Entries + k - 1
  PROVE  v \in UserPages /\ v \in Nat /\ v + 1 = Entries + k /\ v = Entries + (k - 1)
<1>1. v \in Pages /\ k \in Nat /\ k >= 1 /\ Entries \in Nat
  BY CopyRounds, Sizes
<1>2. Entries * Entries \in Nat
  BY <1>1
<1> DEFINE all == Entries * Entries
<1>3. v \in 0 .. all - 1 /\ all \in Nat /\ UserPages = Entries .. all - 1
  BY <1>1, <1>2 DEF Pages, UserPages
<1> HIDE DEF all
<1> QED BY <1>1, <1>3

(* copy_memory copies every page, or stops.                                *)
LEMMA CopyMemoryHeld ==
  ASSUME Sized, NEW b \in State, NEW R \in SUBSET Frames, NEW S, Own(b, R, S), NEW c \in R,
         NEW p \in Frames, NEW m, Held(b, m, p),
         CopiedTables(b, c, m, p, Entries), CopiedPages(b, c, m, p, Entries),
         NEW r, r = copy_memory(m, p, c), r.why = {}
  PROVE  Copying(b, c, r, p, Entries * Entries)
<1> DEFINE n == Entries * (Entries - 1)
           Good(k, q) == q.why = {} => Copying(b, c, q, p, Entries + k)
           I == [k \in 0 .. n |-> {q \in Work : Good(k, q)}]
<1>1. n \in Nat /\ Entries \in Nat /\ Entries + n = Entries * Entries
  BY CopyRounds, Sizes
<1>2. PICK f : /\ f[0] = [m |-> m, err |-> FALSE, why |-> {}]
               /\ \A k \in 1 .. n : f[k] = copy_round(f[k - 1], p, c, Entries + k - 1)
               /\ copy_memory(m, p, c) = f[n]
  <2> DEFINE a == n
  <2>1. a = Entries * (Entries - 1) /\ a \in Nat
    BY <1>1
  <2> HIDE DEF a
  <2>2. \E f : /\ f[0] = [m |-> m, err |-> FALSE, why |-> {}]
               /\ \A k \in 1 .. a : f[k] = copy_round(f[k - 1], p, c, Entries + k - 1)
               /\ copy_memory(m, p, c) = f[a]
    BY <2>1, CopyMemoryLoop
  <2> QED BY <2>2 DEF a
<1>3. f[0] \in I[0]
  <2> DEFINE q == [m |-> m, err |-> FALSE, why |-> {}]
  <2>1. q \in Work
    BY HeldFacts DEF Work
  <2>2. Entries + 0 = Entries
    BY <1>1
  <2>3. Good(0, q)
    BY <2>2 DEF Copying
  <2>4. 0 \in 0 .. n
    BY <1>1
  <2> HIDE DEF q, Good, n
  <2> QED BY <1>2, <2>1, <2>3, <2>4 DEF q
<1>4. ASSUME NEW k \in 1 .. n, f[k - 1] \in I[k - 1] PROVE f[k] \in I[k]
  <2> DEFINE q == f[k - 1]
             y == f[k]
             v == Entries + k - 1
  <2>1. k \in 0 .. n /\ k - 1 \in 0 .. n
    BY <1>1
  <2>2. y = copy_round(q, p, c, v)
    BY <1>2
  <2>3. q \in Work /\ Good(k - 1, q)
    <3> HIDE DEF Good, n
    <3> QED BY <1>4, <2>1
  <2>4. v \in UserPages /\ v \in Pages /\ v + 1 = Entries + k /\ v = Entries + (k - 1)
    <3> HIDE DEF v
    <3> QED BY CopyPages, UserPage DEF v
  <2> HIDE DEF q, y, v
  <2>5. y \in Work
    BY <2>2, <2>3, <2>4, CopyRoundType
  <2>6. ASSUME y.why = {} PROVE Copying(b, c, y, p, Entries + k)
    <3>1. q.why = {}
      BY <2>2, <2>3, <2>6 DEF copy_round, copy_page, copy_table, Work
    <3>2. Copying(b, c, q, p, v)
      BY <2>3, <2>4, <3>1
    <3>3. Copying(b, c, y, p, v + 1)
      BY <2>2, <2>3, <2>4, <2>6, <3>2, CopyRoundStep
    <3> QED BY <2>4, <3>3
  <2>7. Good(k, y)
    BY <2>6
  <2> HIDE DEF Good, n
  <2> QED BY <2>1, <2>5, <2>7 DEF y
<1> HIDE DEF I
<1>5. f[n] \in I[n]
  <2>1. \A k \in 0 .. n : f[k] \in I[k]
    <3> HIDE DEF n
    <3> QED BY <1>1, <1>3, <1>4, Rounds
  <2> QED BY <1>1, <2>1
<1>6. n \in 0 .. n
  BY <1>1
<1>7. Good(n, r)
  <2> HIDE DEF Good, n
  <2> QED BY <1>2, <1>5, <1>6 DEF I
<1> QED BY <1>1, <1>7

(* With no frame left there is no directory: the copy fails at the first   *)
(* table, and has changed nothing.                                         *)
LEMMA CopyNowhere ==
  ASSUME Sized, NEW b \in State, 0 \in b.used, Take(b).page = 0, ZeroFrame(b), NEW c \in Frames,
         NEW r, r = copy_memory(b, 0, c)
  PROVE  /\ r.m = b /\ r.why = {}
         /\ ~r.err => \A d \in Slots \ {0} : b.mem[Word(c, d)] = 0
<1> DEFINE n == Entries * (Entries - 1)
           go == [m |-> b, err |-> FALSE, why |-> {}]
           stop == [m |-> b, err |-> TRUE, why |-> {}]
           None(v) == \A d \in Slots \ {0} : Word(d, 0) < v => b.mem[Word(c, d)] = 0
           I == [k \in 0 .. n |-> {q \in {go, stop} : q = go => None(Entries + k)}]
<1>1. n \in Nat /\ Entries \in Nat /\ Entries + n = Entries * Entries
  BY CopyRounds, Sizes
<1>2. PICK f : /\ f[0] = go
               /\ \A k \in 1 .. n : f[k] = copy_round(f[k - 1], 0, c, Entries + k - 1)
               /\ copy_memory(b, 0, c) = f[n]
  <2> DEFINE a == n
  <2>1. a = Entries * (Entries - 1) /\ a \in Nat
    BY <1>1
  <2> HIDE DEF a
  <2>2. \E f : /\ f[0] = go
               /\ \A k \in 1 .. a : f[k] = copy_round(f[k - 1], 0, c, Entries + k - 1)
               /\ copy_memory(b, 0, c) = f[a]
    BY <2>1, CopyMemoryLoop
  <2> QED BY <2>2 DEF a
<1>3. go # stop /\ go.m = b /\ stop.m = b /\ ~go.err /\ stop.err /\ go.why = {} /\ stop.why = {}
  OBVIOUS
<1>4. \A d : copy_table(go, 0, d, Take(b)) = stop
  <2>1. Take(b).used = b.used
    <3>1. b.used \subseteq Take(b).used /\ Take(b).used = b.used \cup {0}
      BY TakePage
    <3> QED BY <3>1
  <2>2. Content(b.mem, 0) = Zeros
    BY DEF ZeroFrame, Content, Zeros
  <2>3. [used |-> b.used, mem |-> b.mem] = b
    BY DEF State
  <2> QED BY <2>1, <2>2, <2>3 DEF copy_table, Blame
<1>5. \A d, v : copy_page(stop, 0, d, v) = stop
  BY <1>3 DEF copy_page
<1> HIDE DEF go, stop
<1>6. f[0] \in I[0]
  <2>1. None(Entries + 0)
    <3> SUFFICES ASSUME NEW d \in Slots \ {0} PROVE ~(Word(d, 0) < Entries + 0)
      BY DEF None
    <3>1. Word(d, 0) \in UserPages
      BY UserPage, Sizes
    <3> QED BY <3>1, Sizes DEF UserPages
  <2>2. 0 \in 0 .. n
    BY <1>1
  <2> HIDE DEF None, n
  <2> QED BY <1>2, <2>1, <2>2
<1>7. ASSUME NEW k \in 1 .. n, f[k - 1] \in I[k - 1] PROVE f[k] \in I[k]
  <2> DEFINE q == f[k - 1]
             v == Entries + k - 1
             d == pde_index(v)
             ptable == b.mem[Word(c, d)]
  <2>1. k \in 0 .. n /\ k - 1 \in 0 .. n
    BY <1>1
  <2>2. q \in {go, stop} /\ (q = go => None(Entries + (k - 1)))
    <3> HIDE DEF None, n
    <3> QED BY <1>7, <2>1
  <2>3. v \in UserPages /\ v \in Nat /\ v + 1 = Entries + k /\ v = Entries + (k - 1)
    <3> HIDE DEF v
    <3> QED BY CopyPages DEF v
  <2>4. f[k] = copy_round(q, 0, c, v)
    BY <1>2
  <2> HIDE DEF q, v
  <2>5. d \in Slots \ {0} /\ pte_index(v) \in Slots /\ v = Word(d, pte_index(v))
    BY <2>3, UserPage, PageSlots
  <2>6. CASE q = stop
    <3>1. f[k] = stop
      BY <1>3, <2>4, <2>6 DEF copy_round
    <3> HIDE DEF None, n
    <3> QED BY <1>3, <2>1, <3>1
  <2>7. CASE q = go /\ ptable = 0
    <3>1. f[k] = go
      BY <1>3, <2>4, <2>7 DEF copy_round
    <3>2. None(Entries + k)
      <4> SUFFICES ASSUME NEW e \in Slots \ {0}, Word(e, 0) < v + 1 PROVE b.mem[Word(c, e)] = 0
        BY <2>3
      <4>1. Word(e, 0) \in Nat /\ pde_index(Word(e, 0)) = e
        BY PageSlots, Sizes
      <4>2. CASE Word(e, 0) = v
        BY <2>7, <4>1, <4>2
      <4>3. CASE Word(e, 0) # v
        <5>1. Word(e, 0) < v
          BY <2>3, <4>1, <4>3
        <5> QED BY <2>2, <2>3, <2>7, <5>1
      <4> QED BY <4>2, <4>3
    <3> HIDE DEF None, n
    <3> QED BY <2>1, <3>1, <3>2
  <2>8. CASE q = go /\ ptable # 0
    <3>1. pte_index(v) = 0
      <4> SUFFICES ASSUME pte_index(v) # 0 PROVE FALSE
        OBVIOUS
      <4>1. v = d * Entries + pte_index(v) /\ Word(d, 0) = d * Entries + 0
        BY <2>5 DEF Word
      <4>2. pte_index(v) \in Nat \ {0}
        BY <2>5, Sizes
      <4>3. d \in Nat
        BY <2>5, Sizes
      <4> HIDE DEF d
      <4>4. d * Entries \in Nat
        BY <4>3, Sizes
      <4> DEFINE all == d * Entries
                 s == pte_index(v)
      <4>5. v = all + s /\ Word(d, 0) = all /\ all \in Nat /\ s \in Nat \ {0}
        BY <4>1, <4>2, <4>4
      <4> HIDE DEF all, s
      <4>6. Word(d, 0) < v
        BY <4>5
      <4> QED BY <2>2, <2>3, <2>5, <2>8, <4>6
    <3>2. f[k] = stop
      <4>1. copy_round(q, 0, c, v) = copy_page(copy_table(go, 0, d, Take(b)), 0, ptable, v)
        BY <1>3, <2>8, <3>1 DEF copy_round
      <4> QED BY <1>4, <1>5, <2>4, <4>1
    <3> HIDE DEF None, n
    <3> QED BY <1>3, <2>1, <3>2
  <2> QED BY <2>2, <2>6, <2>7, <2>8
<1> HIDE DEF I
<1>8. f[n] \in I[n] /\ n \in 0 .. n
  <2>1. \A k \in 0 .. n : f[k] \in I[k]
    <3> HIDE DEF n
    <3> QED BY <1>1, <1>6, <1>7, Rounds
  <2> QED BY <1>1, <2>1
<1>9. r \in {go, stop} /\ (r = go => None(Entries * Entries))
  <2>1. r \in {go, stop} /\ (r = go => None(Entries + n))
    <3> HIDE DEF None, n
    <3> QED BY <1>2, <1>8 DEF I
  <2> QED BY <1>1, <2>1
<1>10. None(Entries * Entries) => \A d \in Slots \ {0} : b.mem[Word(c, d)] = 0
  <2>1. \A d \in Slots \ {0} : Word(d, 0) < Entries * Entries
    <3> SUFFICES ASSUME NEW d \in Slots \ {0} PROVE Word(d, 0) < Entries * Entries
      OBVIOUS
    <3>1. Word(d, 0) \in Entries .. Entries * Entries - 1 /\ Entries * Entries \in Nat
      BY UserPage, Sizes DEF UserPages
    <3> QED BY <3>1, Sizes
  <2> QED BY <2>1
<1> HIDE DEF None
<1> QED BY <1>3, <1>9, <1>10

(* A task that runs has a table.                                           *)
LEMMA RunsTable ==
  ASSUME NEW t, Runs(t)
  PROVE  \E d \in Slots \ {0} : mem[Word(cr3[t], d)] # 0
<1>1. PICK f \in Tables(t) : TRUE
  BY DEF Runs, Mapped
<1> QED BY <1>1 DEF Tables

(* Before the first round of copy_memory.                                  *)
LEMMA CopyStart ==
  ASSUME NEW b, NEW c, NEW m, NEW p \in Frames, \A w \in DirWords({p}) : m.mem[w] = 0
  PROVE  CopiedTables(b, c, m, p, Entries) /\ CopiedPages(b, c, m, p, Entries)
<1>1. \A d \in Slots \ {0} : m.mem[Word(p, d)] = 0 /\ Word(d, 0) >= Entries /\ Word(d, 0) \in Nat
  <2> SUFFICES ASSUME NEW d \in Slots \ {0}
               PROVE  m.mem[Word(p, d)] = 0 /\ Word(d, 0) >= Entries /\ Word(d, 0) \in Nat
    OBVIOUS
  <2>1. Word(p, d) \in DirWords({p})
    BY WordOf DEF DirWords
  <2>2. Word(d, 0) \in UserPages
    BY UserPage, Sizes
  <2> QED BY <2>1, <2>2, Sizes DEF UserPages
<1>2. \A d \in Slots \ {0} : ~(Word(d, 0) < Entries)
  BY <1>1, Sizes
<1>3. CopiedTables(b, c, m, p, Entries)
  BY <1>1, <1>2 DEF CopiedTables
<1>4. ASSUME NEW u \in UserPages PROVE PageStatus(b, c, m, p, Entries, u)
  <2>1. Page(m.mem, p, u) = 0
    BY <1>1, UserPage DEF Page
  <2>2. ~(u < Entries)
    BY Sizes DEF UserPages
  <2> QED BY <2>1, <2>2 DEF PageStatus
<1> QED BY <1>3, <1>4 DEF CopiedPages

(* The memory a fork leaves, n, with child's directory p: the child is a   *)
(* zombie, or has a copy of every page.                                    *)
Forked(b, n, R, S, c, p, err) ==
  /\ Own(n, IF p = 0 THEN R ELSE R \cup {p}, S)
  /\ ZeroFrame(n)
  /\ p = 0 => err
  /\ p # 0 => p \in Frames \ R
  /\ ~err => CopiedPages(b, c, n, p, Entries * Entries)

(* task_init and copy_memory leave such a memory.                          *)
LEMMA ForkMemory ==
  ASSUME Sized, NEW b \in State, NEW R \in SUBSET Frames, NEW S, Own(b, R, S), ZeroFrame(b),
         NEW c \in R, \E d \in Slots \ {0} : b.mem[Word(c, d)] # 0,
         NEW new, new = create_pde(b),
         NEW copy, copy = copy_memory(new.m, new.page, c), copy.why = {}
  PROVE  Forked(b, copy.m, R, S, c, new.page, copy.err)
<1> DEFINE p == new.page
<1>1. new.m \in State /\ p \in Frames /\ 0 \in b.used
  BY CreatePdeIs DEF Own
<1>2. CASE p = 0
  <2>1. Take(b).page = 0 /\ new.m.used = Take(b).used /\ new.m.mem = b.mem
    BY <1>2, CreatePdeIs
  <2>2. b.used \subseteq Take(b).used /\ Take(b).used = b.used \cup {0}
    BY <2>1, TakePage
  <2>3. new.m.used = b.used
    BY <1>1, <2>1, <2>2
  <2>4. new.m = b
    BY <1>1, <2>1, <2>3 DEF State
  <2>5. copy = copy_memory(b, 0, c) /\ c \in Frames
    BY <1>2, <2>4
  <2>6. copy.m = b /\ copy.err
    BY <1>1, <2>1, <2>5, CopyNowhere
  <2> QED BY <1>2, <2>6 DEF Forked
<1>3. CASE p # 0
  <2>1. /\ Own(new.m, {p}, b.used) /\ Agree(b, new.m) /\ p \notin b.used
        /\ \A w \in DirWords({p}) : new.m.mem[w] = 0
    BY <1>1, <1>3, NewOwned
  <2>2. Held(b, new.m, p)
    BY <1>1, <2>1 DEF Held
  <2>3. CopiedTables(b, c, new.m, p, Entries) /\ CopiedPages(b, c, new.m, p, Entries)
    BY <1>1, <2>1, CopyStart
  <2>4. Copying(b, c, copy, p, Entries * Entries)
    BY <1>1, <2>2, <2>3, CopyMemoryHeld
  <2>5. Held(b, copy.m, p)
    BY <2>4 DEF Copying
  <2>6. Own(copy.m, R \cup {p}, S)
    BY <1>1, <2>5, Combine DEF Held
  <2>7. ZeroFrame(copy.m)
    BY <1>1, <2>5, ZeroKept DEF Held
  <2>8. p \notin R
    BY <2>1 DEF Own
  <2> QED BY <1>1, <1>3, <2>4, <2>6, <2>7, <2>8 DEF Forked, Copying
<1> QED BY <1>2, <1>3

(* sys_fork keeps it, and what the child got is a copy of the parent's     *)
(* pages.                                                                  *)
LEMMA ForkSeparate ==
  ASSUME TypeInv, Separate, cause = {}, NEW t \in Tasks, NEW child \in Tasks, sys_fork(t, child),
         cause' \subseteq {"load"}
  PROVE  /\ Separate'
         /\ child \notin zombie' =>
              CopiedPages(m0, cr3[t], m0', cr3'[child], Entries * Entries)
<1> DEFINE b == m0
           R == Directories
           S == kernel \cup bitmap_init(layout)
           c == cr3[t]
           new == create_pde(b)
           p == new.page
           copy == copy_memory(new.m, p, c)
           n == m0'
<1>1. /\ Sized /\ b \in State /\ R \in SUBSET Frames /\ b.used = used /\ b.mem = mem
      /\ 0 \in b.used /\ Own(b, R, S) /\ ZeroFrame(b) /\ b.used \subseteq Frames
  BY TypeFacts, SeparateFacts DEF Separate
<1>2. c \in Frames \ {0} /\ c \in R
  <2>1. c \notin {NONE, 0}
    BY DEF sys_fork, Runs
  <2> QED BY <2>1, SeparateFacts, TypeFacts
<1>3. \E d \in Slots \ {0} : b.mem[Word(c, d)] # 0
  BY <1>1, RunsTable DEF sys_fork
<1>4. copy \in Work
  <2>1. new.m \in State /\ new.page \in Frames
    BY <1>1, CreatePdeIs
  <2> QED BY <1>1, <1>2, <2>1, CopyMemoryType
<1>5. /\ UNCHANGED <<layout, nbits, kernel>>
      /\ cr3' = [cr3 EXCEPT ![child] = p]
      /\ zombie' = zombie \cup (IF copy.err THEN {child} ELSE {})
      /\ cr3[child] = NONE
  BY DEF sys_fork
<1>6. PICK freed : /\ Store([copy.m EXCEPT !.used = @ \ freed])
                   /\ cause' = cause \cup copy.why \cup Blame("misread", freed # {})
  BY DEF sys_fork
<1> HIDE DEF new, copy
<1>7. copy.why = {} /\ freed = {}
  <2>1. copy.why \subseteq Whys
    BY <1>4 DEF Work
  <2> QED BY <1>6, <2>1 DEF Whys, Blame
<1>8. n.used = copy.m.used /\ n.mem = copy.m.mem /\ copy.m \in State
  <2>1. used' = copy.m.used /\ mem' = copy.m.mem
    BY <1>4, <1>6, <1>7 DEF Store, Work, State
  <2> QED BY <1>4, <2>1 DEF m0, Work
<1>9. n = copy.m
  BY <1>8 DEF m0, State
<1> HIDE DEF n, b, R, S, c, p
<1>10. Forked(b, n, R, S, c, p, copy.err)
  BY <1>1, <1>2, <1>3, <1>7, <1>9, ForkMemory DEF new, copy, p
<1>11. cr3 \in [Tasks -> Frames \cup {NONE}] /\ c # NONE /\ p \in Frames /\ p # NONE
  <2>1. p \in Frames
    BY <1>1, CreatePdeIs DEF new, p
  <2> QED BY <1>2, <2>1, TypeFacts, Sizes
<1>12. cr3'[child] = p /\ child # t /\ \A u \in Tasks : u # child => cr3'[u] = cr3[u]
  BY <1>5, <1>11 DEF c
<1>13. Directories' = IF p = 0 THEN R ELSE R \cup {p}
  <2>1. Directories' = {cr3'[u] : u \in {u \in Tasks : cr3'[u] # NONE}} \ {0}
    BY DEF Directories, Born
  <2>2. R = {cr3[u] : u \in {u \in Tasks : cr3[u] # NONE}} \ {0}
    BY DEF Directories, Born, R
  <2>3. ASSUME NEW x \in Directories' PROVE x \in R \/ (x = p /\ p # 0)
    BY <1>12, <2>1, <2>2, <2>3
  <2>4. ASSUME NEW x \in R PROVE x \in Directories'
    <3>1. PICK u \in Tasks : cr3[u] # NONE /\ cr3[u] = x /\ x # 0
      BY <2>2, <2>4
    <3>2. u # child
      BY <1>5, <3>1
    <3> QED BY <1>12, <2>1, <3>1, <3>2
  <2>5. p # 0 => p \in Directories'
    BY <1>11, <1>12, <2>1
  <2> QED BY <2>3, <2>4, <2>5
<1>14. \A u, x \in Tasks : u # x /\ cr3'[u] = cr3'[x] => cr3'[u] \in {NONE, 0}
  <2>1. p = 0 \/ \A u \in Tasks : cr3[u] # p
    <3>1. p # 0 => p \notin R
      BY <1>10 DEF Forked
    <3> QED BY <1>11, <3>1, SeparateFacts DEF R
  <2> QED BY <1>12, <2>1 DEF Separate
<1>15. cr3'[First] # 0
  BY <1>5, <1>12, SpaceAssumption DEF Separate, TypeInv
<1>16. \A u \in Tasks : cr3'[u] = 0 => u \in zombie'
  <2>1. p = 0 => copy.err
    BY <1>10 DEF Forked
  <2> QED BY <1>5, <1>12, <2>1 DEF Separate
<1>17. Own(n, Directories', S) /\ ZeroFrame(n)
  BY <1>10, <1>13 DEF Forked
<1>18. S = (kernel \cup bitmap_init(layout))'
  BY <1>5 DEF S
<1>19. Separate'
  BY <1>14, <1>15, <1>16, <1>17, <1>18 DEF Separate, n
<1>20. child \notin zombie' => CopiedPages(b, c, n, cr3'[child], Entries * Entries)
  BY <1>5, <1>10, <1>12 DEF Forked
<1> QED BY <1>19, <1>20 DEF b, n, c

-----------------------------------------------------------------------------
(* The other calls, and boot.                                              *)

(* The kernel takes frames that are free: they join the frames S.          *)
LEMMA TakeOwned ==
  ASSUME NEW m, NEW R, NEW S, Own(m, R, S), NEW Q, Q \cap m.used = {},
         NEW n, n.mem = m.mem, n.used = m.used \cup Q
  PROVE  Own(n, R, S \cup Q)
BY DEF Own

(* kmalloc keeps it: its pages were free.                                  *)
LEMMA GrowSeparate ==
  ASSUME TypeInv, Separate, NEW count \in HeapRuns, kmalloc_grow(count)
  PROVE  Separate'
<1> DEFINE p == alloc_pages(used, nbits, count)
           R == Directories
           S == kernel \cup bitmap_init(layout)
           n == m0'
<1>1. count \in Nat \ {0} /\ used \in SUBSET Frames /\ nbits \in 0 .. NFrames /\ 0 \in used
  BY TypeFacts, SeparateFacts, SpaceAssumption, Sizes DEF Sized
<1>2. /\ p.page = 0 => p.used = used
      /\ p.page # 0 => /\ p.used = used \cup (p.page .. p.page + count - 1)
                       /\ (p.page .. p.page + count - 1) \cap used = {}
  BY <1>1, AllocPages
<1>3. /\ used' = p.used
      /\ kernel' = IF p.page = 0 THEN kernel ELSE kernel \cup (p.page .. p.page + count - 1)
      /\ UNCHANGED <<layout, nbits, mem, cr3, zombie, cause>>
  BY DEF kmalloc_grow
<1> DEFINE Q == IF p.page = 0 THEN {} ELSE p.page .. p.page + count - 1
<1>4. p.used = used \cup Q /\ Q \cap used = {} /\ kernel' = kernel \cup Q
  BY <1>2, <1>3
<1> HIDE DEF p, Q
<1>5. n.mem = m0.mem /\ n.used = m0.used \cup Q /\ m0.used = used
  BY <1>3, <1>4 DEF m0
<1>6. Directories' = R
  BY <1>3 DEF Directories, Born
<1>7. Own(m0, R, S) /\ ZeroFrame(m0)
  BY DEF Separate
<1> HIDE DEF n, R, S
<1>8. Own(n, R, S \cup Q) /\ ZeroFrame(n)
  BY <1>4, <1>5, <1>7, TakeOwned DEF ZeroFrame
<1>9. (kernel \cup bitmap_init(layout))' = S \cup Q
  BY <1>3, <1>4 DEF S
<1> QED BY <1>3, <1>6, <1>8, <1>9 DEF Separate, n

(* A page of a task is in no table and in no directory.                    *)
LEMMA MappedFrame ==
  ASSUME TypeInv, Separate, NEW t \in Tasks, Runs(t), NEW f \in Mapped(t)
  PROVE  f \notin Directories \cup TablesOf(mem, Directories) \cup {0}
<1>1. /\ m0 \in State /\ Directories \in SUBSET Frames /\ cr3[t] \in Frames /\ cr3[t] \in Directories
      /\ m0.mem = mem
  BY TypeFacts, SeparateFacts DEF Runs
<1>2. PICK table \in Tables(t) : \E w \in WordsOf(table) : f = mem[w] /\ f # 0
  BY DEF Mapped
<1>3. PICK d \in Slots \ {0} : table = mem[Word(cr3[t], d)] /\ table # 0
  BY <1>2 DEF Tables
<1>4. Word(cr3[t], d) \in DirWords(Directories)
  BY <1>1, WordOf DEF DirWords
<1>5. table \in TablesOf(mem, Directories) /\ table \in Frames
  BY <1>1, <1>3, <1>4 DEF TablesOf, State, Mem, DirWords
<1>6. PICK w \in WordsOf(table) : f = mem[w] /\ f # 0
  BY <1>2
<1>7. w \in TableWords(mem, Directories)
  BY <1>5, <1>6, WordsOfFrame DEF TableWords
<1>8. Own(m0, Directories, kernel \cup bitmap_init(layout))
  BY DEF Separate
<1> QED BY <1>1, <1>6, <1>7, <1>8, Kinds

(* A user's store keeps it: it changes no directory and no table.          *)
LEMMA StoreSeparate ==
  ASSUME TypeInv, Separate, NEW t \in Tasks, UserStore(t)
  PROVE  Separate'
<1>1. PICK f \in Mapped(t), text \in Texts \ {Zeros} : mem' = Fill(mem, f, text)
  BY DEF UserStore
<1>2. UNCHANGED <<layout, nbits, used, cr3, zombie, kernel, cause>> /\ Runs(t)
  BY DEF UserStore
<1> DEFINE n == m0'
           R == Directories
           S == kernel \cup bitmap_init(layout)
<1>3. f \notin R \cup TablesOf(mem, R) \cup {0}
  BY <1>2, MappedFrame
<1>4. n.used = m0.used /\ n.mem = mem' /\ m0.mem = mem
  BY <1>2 DEF m0
<1>5. \A w \in Words : FrameOf(w) # f => mem'[w] = mem[w]
  <2>1. mem \in Mem /\ text \in [Slots -> Frames]
    BY TypeFacts, SpaceAssumption
  <2> QED BY <1>1, <2>1, FillMem
<1>6. Directories' = R
  BY <1>2 DEF Directories, Born
<1>7. Own(m0, R, S) /\ ZeroFrame(m0) /\ R \in SUBSET Frames
  BY SeparateFacts DEF Separate
<1> HIDE DEF n, R
<1>8. Own(n, R, S)
  <2>1. \A w \in Words : FrameOf(w) \in R \cup TablesOf(m0.mem, R) => n.mem[w] = m0.mem[w]
    BY <1>3, <1>4, <1>5
  <2> QED BY <1>4, <1>7, <2>1, SameOwned
<1>9. ZeroFrame(n)
  <2>1. \A s \in Slots : Word(0, s) \in Words /\ FrameOf(Word(0, s)) = 0
    BY Sizes, WordOf
  <2>2. \A s \in Slots : n.mem[Word(0, s)] = m0.mem[Word(0, s)]
    BY <1>3, <1>4, <1>5, <2>1
  <2> QED BY <1>7, <2>2 DEF ZeroFrame
<1>10. (kernel \cup bitmap_init(layout))' = S
  BY <1>2
<1> QED BY <1>2, <1>6, <1>8, <1>9, <1>10 DEF Separate, n

(* It holds at boot.                                                       *)
LEMMA InitSeparate == Init => Separate
<1> SUFFICES ASSUME Init PROVE Separate
  OBVIOUS
<1> PICK H : \E idle \in Frames \ {0}, first \in Frames \ {0} : Booting(H, idle, first)
  BY Booted
<1> PICK idle \in Frames \ {0}, first \in Frames \ {0} : Booting(H, idle, first)
  OBVIOUS
<1>1. /\ layout \in Layouts /\ nbits = layout_bits(layout)
      /\ H \in SUBSET Frames /\ H \cap bitmap_init(layout) = {}
      /\ idle # first /\ {idle, first} \cap (H \cup bitmap_init(layout)) = {}
      /\ used = bitmap_init(layout) \cup H \cup {idle, first}
      /\ mem = Fill(Fill(BootMem, idle, KernelPart), first, KernelPart)
      /\ mem \in Mem
      /\ cr3 = [t \in Tasks |-> IF t = First THEN first ELSE NONE]
      /\ kernel = H \cup {idle} /\ zombie = {} /\ cause = {}
  BY DEF Booting
<1>2. First \in Tasks /\ NONE \notin Frames
  BY SpaceAssumption
<1>3. Directories = {first}
  BY <1>1, <1>2 DEF Directories, Born
<1>4. BootMem \in Mem /\ KernelPart \in [Slots -> Frames]
  BY Sizes DEF BootMem, Mem, KernelPart, Zeros
<1>5. \A w \in Words : mem[w] = IF FrameOf(w) \in {idle, first} THEN KernelPart[SlotOf(w)] ELSE 0
  <2>1. Fill(BootMem, idle, KernelPart) \in Mem
    BY <1>4, FillMem
  <2>2. \A w \in Words : Fill(BootMem, idle, KernelPart)[w] =
          IF FrameOf(w) = idle THEN KernelPart[SlotOf(w)] ELSE BootMem[w]
    BY <1>4, FillMem
  <2>3. \A w \in Words : mem[w] = IF FrameOf(w) = first THEN KernelPart[SlotOf(w)]
                                  ELSE Fill(BootMem, idle, KernelPart)[w]
    BY <1>1, <1>4, <2>1, FillMem
  <2> QED BY <2>2, <2>3 DEF BootMem
<1>6. KernelPart[0] = KernelTable /\ \A s \in Slots \ {0} : KernelPart[s] = 0
  BY Sizes DEF KernelPart, Zeros
<1>7. ZeroFrame(m0)
  <2>1. \A s \in Slots : Word(0, s) \in Words /\ FrameOf(Word(0, s)) = 0
    BY Sizes, WordOf
  <2> QED BY <1>1, <1>5, <2>1 DEF ZeroFrame, m0
<1>8. \A w \in DirWords({first}) : mem[w] = 0
  <2>1. \A w \in Words : SlotOf(w) \in Slots
    BY WordOf
  <2> QED BY <1>5, <1>6, <2>1 DEF DirWords
<1>9. LinksOf(mem, {first}) = DirWords({first})
  BY <1>8, NoTables
<1>10. mem[Word(first, 0)] = KernelTable
  <2>1. Word(first, 0) \in Words /\ FrameOf(Word(first, 0)) = first /\ SlotOf(Word(first, 0)) = 0
    BY Sizes, WordOf
  <2> QED BY <1>5, <1>6, <2>1
<1>11. 0 \in bitmap_init(layout)
  BY <1>1, BootBits
<1>12. Own(m0, {first}, H \cup {idle} \cup bitmap_init(layout))
  <2> DEFINE boot == bitmap_init(layout)
             m == m0
  <2>1. m.mem = mem /\ m.used = boot \cup H \cup {idle, first}
    BY <1>1 DEF m0
  <2> HIDE DEF boot, m
  <2> QED BY <1>1, <1>8, <1>9, <1>10, <1>11, <2>1 DEF Own, boot, m
<1>13. /\ \A t, u \in Tasks : t # u /\ cr3[t] = cr3[u] => cr3[t] \in {NONE, 0}
       /\ cr3[First] # 0
       /\ \A t \in Tasks : cr3[t] # 0
  <2>1. \A t \in Tasks : cr3[t] = IF t = First THEN first ELSE NONE
    BY <1>1
  <2>2. NONE # 0
    BY <1>2, Sizes
  <2> QED BY <1>2, <2>1, <2>2
<1> QED BY <1>1, <1>3, <1>7, <1>12, <1>13 DEF Separate

-----------------------------------------------------------------------------
(* The inductive invariant: the types, and who owns what until something   *)
(* went wrong unnoticed.  A load that failed unnoticed leaves that in      *)
(* order: exec runs on with what was mapped, or undoes it.                 *)
IInv == TypeInv /\ (cause \subseteq {"load"} => Separate)

(* The inductive invariant holds at boot.                                  *)
LEMMA InitIInv == Init => IInv
BY InitType, InitSeparate DEF IInv

(* Every step of a call that does not go wrong unnoticed.                  *)
LEMMA NextSeparate ==
  ASSUME IInv, Next, cause' \subseteq {"load"}
  PROVE  TypeInv /\ Separate /\ cause = {} /\ Separate'
<1>1. TypeInv /\ Separate /\ cause = {}
  BY DEF IInv, Next
<1>2. CASE \E t \in Tasks : sys_execve(t)
  BY <1>1, <1>2, ExecveSeparate
<1>3. CASE \E t \in Tasks : UserStore(t)
  BY <1>1, <1>3, StoreSeparate
<1>4. CASE \E t, child \in Tasks : sys_fork(t, child)
  BY <1>1, <1>4, ForkSeparate
<1>5. CASE \E count \in HeapRuns : kmalloc_grow(count)
  BY <1>1, <1>5, GrowSeparate
<1> QED BY <1>1, <1>2, <1>3, <1>4, <1>5 DEF Next

(* Every step keeps the inductive invariant.                               *)
LEMMA NextIInv == IInv /\ [Next]_vars => IInv'
<1> SUFFICES ASSUME IInv, [Next]_vars PROVE IInv'
  OBVIOUS
<1>1. TypeInv'
  BY NextType DEF IInv
<1>2. CASE Next
  BY <1>1, <1>2, NextSeparate DEF IInv
<1>3. CASE UNCHANGED vars
  <2>1. Separate => Separate'
    BY <1>3 DEF vars, Separate, m0, Directories, Born
  <2> QED BY <1>1, <1>3, <2>1 DEF IInv, vars
<1> QED BY <1>2, <1>3

(* The entries of the tasks' directories and tables are those that Own     *)
(* speaks of; a task without a directory has only empty ones.              *)
LEMMA LinksAre ==
  ASSUME TypeInv, Separate
  PROVE  /\ \A w \in Links : w \in LinksOf(mem, Directories) \/ mem[w] = 0
         /\ LinksOf(mem, Directories) \subseteq Links
<1>1. /\ mem \in Mem /\ cr3 \in [Tasks -> Frames \cup {NONE}] /\ Directories \in SUBSET Frames
      /\ \A t \in Tasks : cr3[t] \in Frames \ {0} => cr3[t] \in Directories
      /\ \A s \in Slots : mem[Word(0, s)] = 0
  BY TypeFacts, SeparateFacts DEF Separate, ZeroFrame
<1> DEFINE Of(t) == {Word(cr3[t], d) : d \in Slots \ {0}} \cup UNION {WordsOf(f) : f \in Tables(t)}
<1>2. ASSUME NEW t \in Tasks, Born(t), NEW w \in Of(t)
      PROVE  w \in LinksOf(mem, Directories) \/ mem[w] = 0
  <2>1. cr3[t] \in Frames
    BY <1>1, <1>2 DEF Born
  <2>2. CASE cr3[t] = 0
    <3>1. Tables(t) = {}
      BY <1>1, <2>2 DEF Tables
    <3> QED BY <1>1, <1>2, <2>2, <3>1
  <2>3. CASE cr3[t] # 0
    <3>1. cr3[t] \in Directories
      BY <1>1, <2>1, <2>3
    <3>2. \A d \in Slots \ {0} : Word(cr3[t], d) \in DirWords(Directories)
      BY <2>1, <3>1, WordOf DEF DirWords
    <3>3. ASSUME NEW f \in Tables(t), w \in WordsOf(f) PROVE w \in TableWords(mem, Directories)
      <4>1. f \in TablesOf(mem, Directories)
        BY <3>2 DEF Tables, TablesOf
      <4>2. f \in Frames
        BY <1>1, <2>1, WordOf DEF Tables, Mem
      <4> QED BY <3>3, <4>1, <4>2, WordsOfFrame DEF TableWords
    <3> QED BY <1>2, <3>2, <3>3 DEF LinksOf
  <2> QED BY <2>2, <2>3
<1>3. ASSUME NEW w \in Words, NEW t \in Tasks, Born(t), cr3[t] \in Frames,
             FrameOf(w) = cr3[t], SlotOf(w) # 0
      PROVE  w \in Of(t) /\ mem[w] \in Tables(t) \cup {0}
  <2>1. SlotOf(w) \in Slots \ {0} /\ w = Word(cr3[t], SlotOf(w))
    BY <1>3, WordOf
  <2> QED BY <2>1 DEF Tables
<1>4. ASSUME NEW w \in LinksOf(mem, Directories)
      PROVE  \E t \in Tasks : Born(t) /\ w \in Of(t)
  <2>1. ASSUME NEW u \in DirWords(Directories)
        PROVE  \E t \in Tasks : Born(t) /\ u \in Of(t) /\ mem[u] \in Tables(t) \cup {0}
    <3>1. u \in Words /\ FrameOf(u) \in Directories /\ SlotOf(u) # 0
      BY DEF DirWords
    <3>2. PICK t \in Tasks : Born(t) /\ FrameOf(u) = cr3[t]
      BY <3>1 DEF Directories
    <3>3. cr3[t] \in Frames
      BY <1>1, <3>1, <3>2
    <3> HIDE DEF Of
    <3> QED BY <1>3, <3>1, <3>2, <3>3
  <2>2. CASE w \in DirWords(Directories)
    <3> HIDE DEF Of
    <3> QED BY <2>1, <2>2
  <2>3. CASE w \in TableWords(mem, Directories)
    <3>1. w \in Words /\ FrameOf(w) # 0 /\ \E u \in DirWords(Directories) : mem[u] = FrameOf(w)
      BY <2>3, LinksIs
    <3>2. PICK t \in Tasks : Born(t) /\ FrameOf(w) \in Tables(t)
      <4> HIDE DEF Of
      <4> QED BY <2>1, <3>1
    <3>3. w \in WordsOf(FrameOf(w))
      BY <3>1, WordOf, WordsOfFrame
    <3> QED BY <3>2, <3>3
  <2> QED BY <2>2, <2>3 DEF LinksOf
<1>5. \A w : w \in Links <=> \E t \in Tasks : Born(t) /\ w \in Of(t)
  BY DEF Links
<1> HIDE DEF Of
<1> QED BY <1>2, <1>4, <1>5

(* The invariants that the runs check follow from it.                      *)
LEMMA Consequences ==
  ASSUME IInv
  PROVE  FrameZeroTaken /\ Exclusive /\ NoLeak /\ KernelMapped
<1> DEFINE R == Directories
           S == kernel \cup bitmap_init(layout)
           L == LinksOf(mem, R)
           named == {mem[w] : w \in Links} \ {0}
<1>1. FrameZeroTaken
  BY SeparateFacts DEF IInv, FrameZeroTaken
<1> SUFFICES ASSUME cause \subseteq {"load"} PROVE Exclusive /\ NoLeak /\ KernelMapped
  BY <1>1 DEF Exclusive, NoLeak, KernelMapped
<1>2. TypeInv /\ Separate
  BY DEF IInv
<1>3. /\ \A w \in Links : w \in L \/ mem[w] = 0
      /\ L \subseteq Links
  BY <1>2, LinksAre
<1>4. /\ R \cap S = {} /\ R \cup S \subseteq used
      /\ \A w \in L : mem[w] # 0 => mem[w] \in used \ (R \cup S)
      /\ \A v, w \in L : v # w /\ mem[v] = mem[w] => mem[v] = 0
      /\ \A f \in used \ (R \cup S) : \E w \in L : mem[w] = f
      /\ \A p \in R : mem[Word(p, 0)] = KernelTable
      /\ 0 \in S
  BY <1>2, TypeFacts DEF Separate, Own
<1> HIDE DEF R, L
<1>5. \A x : x \in named <=> x # 0 /\ \E w \in L : mem[w] = x
  BY <1>3
<1> HIDE DEF named
<1>6. \A v, w \in Links : v # w /\ mem[v] = mem[w] => mem[v] = 0
  BY <1>3, <1>4
<1>7. named \cup R \cup kernel \subseteq used /\ named \cap (R \cup kernel) = {} /\ R \cap kernel = {}
  BY <1>4, <1>5
<1>8. used = bitmap_init(layout) \cup kernel \cup R \cup named
  BY <1>4, <1>5
<1>9. Exclusive /\ NoLeak
  BY <1>6, <1>7, <1>8 DEF Exclusive, NoLeak, R, named
<1>10. KernelMapped
  <2>1. \A t \in Tasks : Born(t) /\ cr3[t] # 0 => cr3[t] \in R
    BY DEF Directories, R
  <2> QED BY <1>2, <1>4, <2>1 DEF KernelMapped, Separate
<1> QED BY <1>9, <1>10

(* An exec touches the directory of a task that has one.                   *)
LEMMA ExecveBorn ==
  ASSUME TypeInv, NEW t \in Tasks, sys_execve(t), NEW c \in Tasks, ~Born(c)
  PROVE  ~Born(c)'
<1>1. Born(t)
  BY DEF sys_execve, Runs, TypeInv, Born
<1>2. \E new : cr3' = cr3 \/ cr3' = [cr3 EXCEPT ![t] = new]
  BY ExecveEnds DEF Ends, Failed, Ran
<1> QED BY <1>1, <1>2, TypeFacts DEF Born

(* No step of a failed exec takes or gives a frame.                        *)
LEMMA NextFailedExec ==
  ASSUME IInv, [Next]_vars
  PROVE  [ret'.call = "execve" /\ ~ret'.ok /\ cause' = {} => used' = used /\ cr3' = cr3]_vars
<1> SUFFICES ASSUME Next, ret'.call = "execve", ~ret'.ok, cause' = {}
             PROVE  used' = used /\ cr3' = cr3
  OBVIOUS
<1>1. TypeInv /\ Separate /\ cause = {}
  BY DEF IInv, Next
<1>2. CASE \E t \in Tasks : sys_execve(t)
  BY <1>1, <1>2, ExecveSeparate
<1>3. CASE \E t \in Tasks : UserStore(t)
  BY <1>3 DEF UserStore
<1>4. CASE \E t, child \in Tasks : sys_fork(t, child)
  BY <1>4 DEF sys_fork
<1>5. CASE \E count \in HeapRuns : kmalloc_grow(count)
  BY <1>5 DEF kmalloc_grow, NoCall
<1> QED BY <1>2, <1>3, <1>4, <1>5 DEF Next

(* No step gives a child anything but a copy of its parent's pages.        *)
LEMMA NextForkCopies ==
  ASSUME IInv, [Next]_vars
  PROVE  [\A p, c \in Tasks, v \in Entries .. Entries * Entries - 1 :
            ~Born(c) /\ Born(c)' /\ c \notin zombie' /\ ret'.task = p /\ cause' = {} =>
              LET from == Page(mem, cr3[p], v)
                  to   == Page(mem', cr3'[c], v)
              IN  IF from = 0 THEN to = 0
                  ELSE to \notin used /\ Content(mem', to) = Content(mem, from)]_vars
<1> SUFFICES ASSUME Next, NEW p \in Tasks, NEW c \in Tasks, NEW v \in UserPages,
                    ~Born(c), Born(c)', c \notin zombie', ret'.task = p, cause' = {}
             PROVE  IF Page(mem, cr3[p], v) = 0 THEN Page(mem', cr3'[c], v) = 0
                    ELSE /\ Page(mem', cr3'[c], v) \notin used
                         /\ Content(mem', Page(mem', cr3'[c], v)) = Content(mem, Page(mem, cr3[p], v))
  BY DEF UserPages
<1>1. TypeInv /\ Separate /\ cause = {}
  BY DEF IInv, Next
<1>2. CASE \E t \in Tasks : sys_execve(t)
  BY <1>1, <1>2, ExecveBorn
<1>3. CASE \E t \in Tasks : UserStore(t)
  BY <1>3 DEF UserStore, Born
<1>4. ASSUME NEW t \in Tasks, NEW child \in Tasks, sys_fork(t, child)
      PROVE  IF Page(mem, cr3[p], v) = 0 THEN Page(mem', cr3'[c], v) = 0
             ELSE /\ Page(mem', cr3'[c], v) \notin used
                  /\ Content(mem', Page(mem', cr3'[c], v)) = Content(mem, Page(mem, cr3[p], v))
  <2>1. c = child
    BY <1>1, <1>4, TypeFacts DEF sys_fork, Born
  <2>2. p = t
    BY <1>4 DEF sys_fork
  <2>3. CopiedPages(m0, cr3[p], m0', cr3'[c], Entries * Entries)
    BY <1>1, <1>4, <2>1, <2>2, ForkSeparate
  <2>4. PageStatus(m0, cr3[p], m0', cr3'[c], Entries * Entries, v)
    BY <2>3 DEF CopiedPages
  <2>5. v < Entries * Entries
    <3> DEFINE all == Entries * Entries
    <3>1. all \in Nat /\ UserPages = Entries .. all - 1
      BY Sizes DEF UserPages
    <3> HIDE DEF all
    <3> QED BY <3>1, Sizes DEF all
  <2> HIDE DEF UserPages
  <2> QED BY <2>4, <2>5 DEF PageStatus, PageCopied, m0
<1>5. CASE \E count \in HeapRuns : kmalloc_grow(count)
  BY <1>5 DEF kmalloc_grow, Born
<1> QED BY <1>2, <1>3, <1>4, <1>5 DEF Next

(* No two tasks share a frame, none is given back while it is in use, none *)
(* is lost, whatever execs and forks fail and where.                       *)
THEOREM SpaceCorrect ==
  Spec => [](SpaceTypeOK /\ OnlyRam /\ FrameZeroTaken /\ Exclusive /\ NoLeak /\ KernelMapped)
<1>1. IInv => SpaceTypeOK /\ OnlyRam /\ FrameZeroTaken /\ Exclusive /\ NoLeak /\ KernelMapped
  BY Consequences, RamOnly DEF IInv, TypeInv
<1> QED BY InitIInv, NextIInv, <1>1, PTL DEF Spec

(* An exec that reports its failure has taken nothing, wherever it failed: *)
(* the bitmap and the directories are what they were.                      *)
THEOREM FailedExec == Spec => FailedExecUndone
<1>1. IInv /\ [Next]_vars =>
        [ret'.call = "execve" /\ ~ret'.ok /\ cause' = {} => used' = used /\ cr3' = cr3]_vars
  BY NextFailedExec
<1> QED BY InitIInv, NextIInv, <1>1, PTL DEF Spec, FailedExecUndone

(* A child whose fork did not fail has a copy of every page its parent has,*)
(* in frames that were free, and no other page.                            *)
THEOREM ForkCorrect == Spec => ForkCopies
<1>1. IInv /\ [Next]_vars =>
        [\A p, c \in Tasks, v \in Entries .. Entries * Entries - 1 :
            ~Born(c) /\ Born(c)' /\ c \notin zombie' /\ ret'.task = p /\ cause' = {} =>
              LET from == Page(mem, cr3[p], v)
                  to   == Page(mem', cr3'[c], v)
              IN  IF from = 0 THEN to = 0
                  ELSE to \notin used /\ Content(mem', to) = Content(mem, from)]_vars
  BY NextForkCopies
<1> QED BY InitIInv, NextIInv, <1>1, PTL DEF Spec, ForkCopies
=============================================================================
