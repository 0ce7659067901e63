------------------------------ MODULE VfsProofs ------------------------------
(***************************************************************************)
(* The invariants of module Vfs for any tasks, descriptors and entries.    *)
(*                                                                         *)
(* Next takes no step once something has gone wrong, so that each step     *)
(* begins with cause = {}; the state it ends in may be the one that goes   *)
(* wrong and satisfies the invariants all the same.                        *)
(***************************************************************************)
EXTENDS Vfs, BasicLemmas

Modes == {O_RDONLY, O_WRONLY}
Callers == [op : {"none", "open", "unlink", "access", "close", "sync"},
            step : {"user", "waiting", "inside", "left"},
            fd : 0 .. NFds, file : 0 .. NFiles,
            was : Modes, times : Nat, saw : Modes, failed : BOOLEAN]

(* Descriptors that were never set come only with the cause "stale".       *)
FilesType ==
  /\ ref \in [Entries -> Nat]
  /\ lost \in [Entries -> Nat]
  /\ opened \in [Entries -> Nat]
  /\ mode \in [Entries -> Modes]
  /\ fds \in [Tasks -> [Fds -> Entries \cup {NULL, Wild}]]
  /\ cause = {} => fds \in [Tasks -> [Fds -> Entries \cup {NULL}]]
  /\ live \in SUBSET Tasks

CallsType ==
  /\ call \in [Tasks -> Callers]
  /\ mutex \in [owner : Tasks \cup {NoTask}, queue : Seq(Tasks)]

(* A task is idle or in a call on a descriptor and an entry; the descriptor*)
(* names the entry until the call returns.                                 *)
CallInv ==
  \A t \in Tasks :
    /\ call[t].step = "user" => call[t] = Idle
    /\ call[t].step # "user" =>
         call[t].op # "none" /\ call[t].fd \in Fds /\ call[t].file \in Entries
    /\ call[t].op \in {"open", "unlink", "close"} => fds[t][call[t].fd] = call[t].file
    /\ call[t].failed => call[t].op = "open"
    /\ t \notin live => call[t] = Idle /\ \A i \in Fds : fds[t][i] = NULL

(* Who has the mutex or waits for it.                                      *)
MutexInv ==
  /\ mutex.owner = NoTask => mutex.queue = << >>
  /\ mutex.owner # NoTask => call[mutex.owner].step \in {"waiting", "inside"}
  /\ \A i, j \in 1 .. Len(mutex.queue) : mutex.queue[i] = mutex.queue[j] => i = j
  /\ \A i \in 1 .. Len(mutex.queue) : /\ mutex.queue[i] # mutex.owner
                                      /\ call[mutex.queue[i]].step = "waiting"
  /\ \A t \in Tasks :
       /\ call[t].step = "inside" => t = mutex.owner
       /\ call[t].step = "waiting" =>
            t = mutex.owner \/ \E i \in 1 .. Len(mutex.queue) : mutex.queue[i] = t

(* t gets the mutex before u does.                                         *)
Before(t, u) ==
  \E j \in 1 .. Len(mutex.queue) :
    /\ mutex.queue[j] = u
    /\ t = mutex.owner \/ \E i \in 1 .. j - 1 : mutex.queue[i] = t

Ending(t) == Closing(t) /\ call[t].step # "left"
Opening(u, e) == call[u].op = "open" /\ call[u].file = e

(* An open that was given the entry of a close comes after the close.      *)
OrderInv ==
  \A t, u \in Tasks : Ending(t) /\ Opening(u, call[t].file) => Before(t, u)

(* Only such an open changes the mode, and none runs ext2_open before.     *)
CloseInv ==
  \A t \in Tasks :
    Ending(t) =>
      /\ opened[call[t].file] = call[t].times
      /\ \/ call[t].step = "waiting" /\ mode[call[t].file] = call[t].was
         \/ call[t].step = "inside" /\ call[t].saw = call[t].was
         \/ \E u \in Tasks : Opening(u, call[t].file) /\ call[u].step = "waiting"

IInv ==
  /\ FilesType /\ CallsType /\ CallInv /\ RefsMatch
  /\ MutexInv /\ OrderInv /\ CloseInv
-----------------------------------------------------------------------------
LEMMA ConstantFacts ==
  /\ NFds \in Nat \ {0} /\ NFiles \in Nat \ {0}
  /\ IsFiniteSet(Tasks) /\ Initial \in Tasks /\ NoTask \notin Tasks
  /\ IsFiniteSet(Fds) /\ Entries \subseteq Nat \ {0} /\ Fds \subseteq Nat \ {0}
<1>1. IsFiniteSet(Fds)
  BY VfsAssumption, FS_Interval DEF Fds
<1> QED BY <1>1, VfsAssumption DEF Fds, Entries

(* file_table's first free entry, or its last one.                         *)
LEMMA AllocFile ==
  ASSUME ref \in [Entries -> Nat]
  PROVE  /\ alloc_file \in Entries
         /\ (\E e \in Entries : ref[e] = 0) => ref[alloc_file] = 0
<1>1. CASE \E e \in Entries : ref[e] = 0
  <2> DEFINE F == {e \in Entries : ref[e] = 0}
  <2>1. F \subseteq Nat /\ F # {}
    BY <1>1, ConstantFacts
  <2>2. PICK e \in F : \A d \in F : e <= d
    BY <2>1, LeastElement
  <2>3. \A d \in 1 .. e - 1 : ref[d] # 0
    BY <2>2, ConstantFacts DEF Entries
  <2>4. \E a \in Entries : ref[a] = 0 /\ \A d \in 1 .. a - 1 : ref[d] # 0
    BY <2>2, <2>3
  <2> QED BY <1>1, <2>4 DEF alloc_file
<1>2. CASE ~\E e \in Entries : ref[e] = 0
  BY <1>2, ConstantFacts DEF alloc_file, Entries
<1> QED BY <1>1, <1>2

(* A descriptor that was NULL, or none.                                    *)
LEMMA AllocFd ==
  ASSUME NEW t \in Tasks
  PROVE  task_alloc_fd(t) # -1 => task_alloc_fd(t) \in Fds /\ fds[t][task_alloc_fd(t)] = NULL
<1>1. CASE \E i \in Fds : fds[t][i] = NULL
  <2> DEFINE F == {i \in Fds : fds[t][i] = NULL}
  <2>1. F \subseteq Nat /\ F # {}
    BY <1>1, ConstantFacts
  <2>2. PICK i \in F : \A j \in F : i <= j
    BY <2>1, LeastElement
  <2>3. \A j \in 1 .. i - 1 : fds[t][j] # NULL
    BY <2>2, ConstantFacts DEF Fds
  <2>4. \E i0 \in Fds : fds[t][i0] = NULL /\ \A j \in 1 .. i0 - 1 : fds[t][j] # NULL
    BY <2>2, <2>3
  <2> QED BY <1>1, <2>4 DEF task_alloc_fd
<1>2. CASE ~\E i \in Fds : fds[t][i] = NULL
  BY <1>2 DEF task_alloc_fd
<1> QED BY <1>1, <1>2
-----------------------------------------------------------------------------
(* mutex_lock: the caller has the mutex at once when it is free, and comes *)
(* after everyone when it is not.                                          *)
LEMMA MutexLock ==
  ASSUME CallsType, MutexInv, NEW t \in Tasks, call[t] = Idle,
         NEW c \in Callers, c.file \in Entries, NEW m \in [Entries -> Modes],
         mutex_lock(t, c, m)
  PROVE  /\ CallsType'
         /\ MutexInv'
         /\ \A x, y \in Tasks : Before(x, y) => Before(x, y)'
         /\ \/ /\ call' = [call EXCEPT ![t] = Started(c, m)]
               /\ \A x \in Tasks : call[x].step \notin {"waiting", "inside"}
            \/ /\ call' = [call EXCEPT ![t] = [c EXCEPT !.step = "waiting"]]
               /\ \A x \in Tasks : call[x].step \in {"waiting", "inside"} => Before(x, t)'
<1> DEFINE q == mutex.queue
<1>1. /\ q \in Seq(Tasks) /\ mutex.owner \in Tasks \cup {NoTask}
      /\ Len(q) \in Nat /\ \A i \in 1 .. Len(q) : q[i] \in Tasks
  BY ElementOfSeq DEF CallsType
<1>2. NoTask \notin Tasks
  BY ConstantFacts
<1>3. t # mutex.owner /\ \A i \in 1 .. Len(q) : q[i] # t
  BY <1>1, <1>2 DEF MutexInv, Idle
<1>4. CASE mutex.owner = NoTask
  <2>1. /\ mutex' = [mutex EXCEPT !.owner = t]
        /\ call' = [call EXCEPT ![t] = Started(c, m)]
    BY <1>4 DEF mutex_lock
  <2>2. Started(c, m) \in Callers /\ Started(c, m).step = "inside"
    BY DEF Started, Callers
  <2>3. CallsType'
    BY <2>1, <2>2 DEF CallsType
  <2>4. q = << >> /\ Len(q) = 0
    BY <1>4 DEF MutexInv
  <2>5. mutex'.owner = t /\ mutex'.queue = q
    BY <2>1 DEF CallsType
  <2>6. \A x \in Tasks : call[x].step \notin {"waiting", "inside"}
    BY <1>2, <1>4, <2>4 DEF MutexInv
  <2>7. \A x \in Tasks : call'[x] = IF x = t THEN Started(c, m) ELSE call[x]
    BY <2>1 DEF CallsType
  <2>8. MutexInv'
    BY <1>2, <2>2, <2>4, <2>5, <2>6, <2>7 DEF MutexInv
  <2>9. \A x, y \in Tasks : ~Before(x, y)
    BY <2>4 DEF Before
  <2> QED BY <2>1, <2>3, <2>6, <2>8, <2>9
<1>5. CASE mutex.owner # NoTask
  <2> DEFINE w == [c EXCEPT !.step = "waiting"]
  <2>1. /\ mutex' = [mutex EXCEPT !.queue = Append(q, t)]
        /\ call' = [call EXCEPT ![t] = w]
    BY <1>5 DEF mutex_lock
  <2>2. w \in Callers /\ w.step = "waiting"
    BY DEF Callers
  <2>3. /\ Append(q, t) \in Seq(Tasks) /\ Len(Append(q, t)) = Len(q) + 1
        /\ Append(q, t)[Len(q) + 1] = t
        /\ \A i \in 1 .. Len(q) : Append(q, t)[i] = q[i]
    BY <1>1, AppendProperties
  <2>4. CallsType'
    BY <2>1, <2>2, <2>3 DEF CallsType
  <2>5. mutex'.owner = mutex.owner /\ mutex'.queue = Append(q, t)
    BY <2>1 DEF CallsType
  <2>6. \A x \in Tasks : call'[x] = IF x = t THEN w ELSE call[x]
    BY <2>1 DEF CallsType
  <2> HIDE DEF w, q
  <2>7. \A i \in 1 .. Len(q) + 1 : i = Len(q) + 1 \/ i \in 1 .. Len(q)
    BY <1>1
  <2>8. MutexInv'
    <3>1. mutex'.owner # NoTask
      BY <1>5, <2>5
    <3>2. call'[mutex'.owner].step \in {"waiting", "inside"}
      BY <1>1, <1>3, <1>5, <2>5, <2>6 DEF MutexInv
    <3>3. \A i, j \in 1 .. Len(mutex'.queue) : mutex'.queue[i] = mutex'.queue[j] => i = j
      BY <1>3, <2>3, <2>5, <2>7, SMTT(60) DEF MutexInv, q
    <3>4. \A i \in 1 .. Len(mutex'.queue) : /\ mutex'.queue[i] # mutex'.owner
                                            /\ call'[mutex'.queue[i]].step = "waiting"
      BY <1>1, <1>3, <2>2, <2>3, <2>5, <2>6, <2>7 DEF MutexInv, q
    <3>5. ASSUME NEW x \in Tasks, call'[x].step = "inside"
          PROVE  x = mutex'.owner
      BY <2>2, <2>5, <2>6, <3>5 DEF MutexInv
    <3>6. ASSUME NEW x \in Tasks, call'[x].step = "waiting"
          PROVE  x = mutex'.owner \/ \E i \in 1 .. Len(mutex'.queue) : mutex'.queue[i] = x
      <4>1. CASE x = t
        BY <1>1, <2>3, <2>5, <4>1
      <4>2. CASE x # t
        BY <1>1, <2>3, <2>5, <2>6, <3>6, <4>2 DEF MutexInv, q
      <4> QED BY <4>1, <4>2
    <3> QED BY <3>1, <3>2, <3>3, <3>4, <3>5, <3>6 DEF MutexInv
  <2>9. ASSUME NEW x \in Tasks, NEW y \in Tasks, Before(x, y)
        PROVE  Before(x, y)'
    <3>1. PICK j \in 1 .. Len(q) : q[j] = y /\ (x = mutex.owner \/ \E i \in 1 .. j - 1 : q[i] = x)
      BY <2>9 DEF Before, q
    <3>2. j \in 1 .. Len(mutex'.queue) /\ mutex'.queue[j] = y
      BY <1>1, <2>3, <2>5, <3>1
    <3>3. \A i \in 1 .. j - 1 : i \in 1 .. Len(q)
      BY <1>1
    <3>4. x = mutex'.owner \/ \E i \in 1 .. j - 1 : mutex'.queue[i] = x
      BY <2>3, <2>5, <3>1, <3>3
    <3> QED BY <3>2, <3>4 DEF Before
  <2>10. ASSUME NEW x \in Tasks, call[x].step \in {"waiting", "inside"}
         PROVE  Before(x, t)'
    <3>1. Len(q) + 1 \in 1 .. Len(mutex'.queue) /\ mutex'.queue[Len(q) + 1] = t
      BY <1>1, <2>3, <2>5
    <3>2. x = mutex.owner \/ \E i \in 1 .. Len(q) : q[i] = x
      BY <2>10 DEF MutexInv, q
    <3>3. x = mutex'.owner \/ \E i \in 1 .. Len(q) + 1 - 1 : mutex'.queue[i] = x
      BY <1>1, <2>3, <2>5, <3>2
    <3> QED BY <3>1, <3>3 DEF Before
  <2> QED BY <2>1, <2>4, <2>8, <2>9, <2>10 DEF w
<1> QED BY <1>4, <1>5

(* mutex_unlock: the first in the queue has it, the others move up.        *)
LEMMA MutexUnlock ==
  ASSUME CallsType, MutexInv, NEW t \in Tasks, call[t].step = "inside",
         NEW c \in Callers, c.step \in {"user", "left"},
         mutex' = mutex_unlock, call' = [call EXCEPT ![t] = c]
  PROVE  /\ CallsType'
         /\ MutexInv'
         /\ \A x, y \in Tasks : Before(x, y) /\ x # t => Before(x, y)'
<1> DEFINE q == mutex.queue
<1>1. /\ q \in Seq(Tasks)
      /\ Len(q) \in Nat /\ \A i \in 1 .. Len(q) : q[i] \in Tasks
  BY ElementOfSeq DEF CallsType
<1>2. NoTask \notin Tasks
  BY ConstantFacts
<1>3. t = mutex.owner /\ \A i \in 1 .. Len(q) : q[i] # t
  BY DEF MutexInv
<1>4. \A x \in Tasks : call'[x] = IF x = t THEN c ELSE call[x]
  BY DEF CallsType
<1>5. CASE q = << >>
  <2>1. mutex' = [mutex EXCEPT !.owner = NoTask] /\ Len(q) = 0
    BY <1>5 DEF mutex_unlock
  <2>2. mutex'.owner = NoTask /\ mutex'.queue = q
    BY <2>1 DEF CallsType
  <2>3. CallsType'
    BY <2>1 DEF CallsType
  <2>4. MutexInv'
    BY <1>2, <1>3, <1>4, <1>5, <2>1, <2>2 DEF MutexInv
  <2>5. \A x, y \in Tasks : ~Before(x, y)
    BY <2>1 DEF Before
  <2> QED BY <2>3, <2>4, <2>5
<1>6. CASE q # << >>
  <2>1. mutex' = [owner |-> Head(q), queue |-> Tail(q)]
    BY <1>6 DEF mutex_unlock, handover
  <2>2. /\ Len(q) > 0 /\ Head(q) = q[1] /\ Tail(q) \in Seq(Tasks)
        /\ Len(Tail(q)) = Len(q) - 1
        /\ \A i \in 1 .. Len(q) - 1 : Tail(q)[i] = q[i + 1]
    BY <1>1, <1>6, HeadTailProperties, EmptySeq
  <2>3. mutex'.owner = q[1] /\ mutex'.queue = Tail(q)
    BY <2>1, <2>2
  <2>4. CallsType'
    BY <1>1, <2>1, <2>2 DEF CallsType
  <2> HIDE DEF q
  <2>5. 1 \in 1 .. Len(q) /\ \A i \in 1 .. Len(q) - 1 : i + 1 \in 1 .. Len(q) /\ i + 1 # 1
    BY <1>1, <2>2
  <2>6. MutexInv'
    <3>1. mutex'.owner # NoTask /\ call'[mutex'.owner].step \in {"waiting", "inside"}
      BY <1>1, <1>2, <1>3, <1>4, <2>3, <2>5 DEF MutexInv, q
    <3>2. \A i, j \in 1 .. Len(mutex'.queue) : mutex'.queue[i] = mutex'.queue[j] => i = j
      BY <1>1, <2>2, <2>3, <2>5 DEF MutexInv, q
    <3>3. \A i \in 1 .. Len(mutex'.queue) : /\ mutex'.queue[i] # mutex'.owner
                                            /\ call'[mutex'.queue[i]].step = "waiting"
      BY <1>1, <1>3, <1>4, <2>2, <2>3, <2>5 DEF MutexInv, q
    <3>4. \A x \in Tasks : call'[x].step # "inside"
      BY <1>3, <1>4 DEF MutexInv
    <3>5. ASSUME NEW x \in Tasks, call'[x].step = "waiting"
          PROVE  x = mutex'.owner \/ \E i \in 1 .. Len(mutex'.queue) : mutex'.queue[i] = x
      <4>1. PICK i \in 1 .. Len(q) : q[i] = x
        BY <1>3, <1>4, <3>5 DEF MutexInv, q
      <4>2. i = 1 \/ (i - 1 \in 1 .. Len(q) - 1 /\ i - 1 + 1 = i)
        BY <1>1
      <4> QED BY <2>2, <2>3, <4>1, <4>2
    <3> QED BY <3>1, <3>2, <3>3, <3>4, <3>5 DEF MutexInv
  <2>7. ASSUME NEW x \in Tasks, NEW y \in Tasks, Before(x, y), x # t
        PROVE  Before(x, y)'
    <3>1. PICK j \in 1 .. Len(q) : q[j] = y /\ \E i \in 1 .. j - 1 : q[i] = x
      BY <1>3, <2>7 DEF Before, q
    <3>2. PICK i \in 1 .. j - 1 : q[i] = x
      BY <3>1
    <3>3. j - 1 \in 1 .. Len(q) - 1 /\ j - 1 + 1 = j
      BY <1>1, <3>2
    <3>4. i = 1 \/ (i - 1 \in 1 .. j - 1 - 1 /\ i - 1 \in 1 .. Len(q) - 1 /\ i - 1 + 1 = i)
      BY <1>1
    <3>5. mutex'.queue[j - 1] = y
      BY <2>2, <2>3, <3>1, <3>3
    <3>6. x = mutex'.owner \/ \E k \in 1 .. j - 1 - 1 : mutex'.queue[k] = x
      BY <2>2, <2>3, <3>2, <3>4
    <3> QED BY <2>2, <2>3, <3>3, <3>5, <3>6 DEF Before
  <2> QED BY <2>4, <2>6, <2>7
<1> QED BY <1>5, <1>6
-----------------------------------------------------------------------------
(* A call that begins keeps the order: an open that is given the entry of  *)
(* a close that is not through waits behind it.                            *)
LEMMA BeginOrder ==
  ASSUME IInv, NEW t \in Tasks, call[t] = Idle,
         NEW c \in Callers, c.file \in Entries, NEW m \in [Entries -> Modes],
         mutex_lock(t, c, m), mode' = m, opened' = opened,
         \A e \in Entries : m[e] # mode[e] => c.op = "open" /\ c.file = e,
         c.op = "close" => /\ \A u \in Tasks : ~Opening(u, c.file)
                           /\ c.times = opened[c.file]
                           /\ c.was = mode[c.file]
  PROVE  OrderInv' /\ CloseInv'
<1>1. /\ \A x, y \in Tasks : Before(x, y) => Before(x, y)'
      /\ \/ /\ call' = [call EXCEPT ![t] = Started(c, m)]
            /\ \A x \in Tasks : call[x].step \notin {"waiting", "inside"}
         \/ /\ call' = [call EXCEPT ![t] = [c EXCEPT !.step = "waiting"]]
            /\ \A x \in Tasks : call[x].step \in {"waiting", "inside"} => Before(x, t)'
  BY MutexLock DEF IInv
<1>2. \A x \in Tasks : Ending(x) => /\ x # t /\ call[x].step \in {"waiting", "inside"}
                                    /\ call[x].file \in Entries
  BY DEF IInv, CallInv, CallsType, Callers, Ending, Closing, Idle
<1>3. \A x \in Tasks, e \in Entries : Opening(x, e) => x # t
  BY DEF Opening, Idle
<1>4. CASE /\ call' = [call EXCEPT ![t] = Started(c, m)]
           /\ \A x \in Tasks : call[x].step \notin {"waiting", "inside"}
  <2>1. \A x \in Tasks : call'[x] = IF x = t THEN Started(c, m) ELSE call[x]
    BY <1>4 DEF IInv, CallsType
  <2>2. /\ Started(c, m).op = c.op /\ Started(c, m).file = c.file
        /\ Started(c, m).step = "inside" /\ Started(c, m).saw = m[c.file]
        /\ Started(c, m).times = c.times /\ Started(c, m).was = c.was
    BY DEF Started, Callers
  <2>3. \A x \in Tasks : Ending(x)' => x = t /\ c.op = "close"
    BY <1>2, <1>4, <2>1, <2>2 DEF Ending, Closing
  <2>4. \A u \in Tasks : c.op = "close" => ~Opening(u, c.file)'
    BY <2>1, <2>2 DEF Opening
  <2>5. OrderInv'
    BY <2>1, <2>2, <2>3, <2>4 DEF OrderInv
  <2>6. CloseInv'
    BY <2>1, <2>2, <2>3 DEF CloseInv
  <2> QED BY <2>5, <2>6
<1>5. CASE /\ call' = [call EXCEPT ![t] = [c EXCEPT !.step = "waiting"]]
           /\ \A x \in Tasks : call[x].step \in {"waiting", "inside"} => Before(x, t)'
  <2> DEFINE w == [c EXCEPT !.step = "waiting"]
  <2>1. \A x \in Tasks : call'[x] = IF x = t THEN w ELSE call[x]
    BY <1>5 DEF IInv, CallsType
  <2>2. /\ w.op = c.op /\ w.file = c.file /\ w.step = "waiting"
        /\ w.times = c.times /\ w.was = c.was
    BY DEF Callers
  <2> HIDE DEF w
  <2>3. \A x \in Tasks : Ending(x)' => IF x = t THEN c.op = "close" ELSE Ending(x)
    BY <2>1, <2>2 DEF Ending, Closing
  <2>4. \A u \in Tasks, e \in Entries :
          Opening(u, e)' => IF u = t THEN c.op = "open" /\ c.file = e ELSE Opening(u, e)
    BY <2>1, <2>2 DEF Opening
  <2>5. ASSUME NEW x \in Tasks, NEW u \in Tasks, Ending(x)', Opening(u, call[x].file)'
        PROVE  Before(x, u)'
    <3>1. CASE x = t
      BY <2>1, <2>2, <2>3, <2>4, <2>5, <3>1
    <3>2. CASE x # t
      <4>1. Ending(x) /\ call'[x] = call[x] /\ call[x].step \in {"waiting", "inside"}
        BY <1>2, <2>1, <2>3, <2>5, <3>2
      <4>2. CASE u = t
        BY <1>5, <4>1, <4>2
      <4>3. CASE u # t
        BY <1>1, <1>2, <2>4, <2>5, <4>1, <4>3 DEF IInv, OrderInv
      <4> QED BY <4>2, <4>3
    <3> QED BY <3>1, <3>2
  <2>6. ASSUME NEW x \in Tasks, Ending(x)'
        PROVE  /\ opened'[call'[x].file] = call'[x].times
               /\ \/ call'[x].step = "waiting" /\ mode'[call'[x].file] = call'[x].was
                  \/ call'[x].step = "inside" /\ call'[x].saw = call'[x].was
                  \/ \E u \in Tasks : Opening(u, call[x].file)' /\ call'[u].step = "waiting"
    <3>1. CASE x = t
      BY <2>1, <2>2, <2>3, <2>6, <3>1
    <3>2. CASE x # t
      <4>1. Ending(x) /\ call'[x] = call[x] /\ call[x].file \in Entries
        BY <1>2, <2>1, <2>3, <2>6, <3>2
      <4>2. /\ opened[call[x].file] = call[x].times
            /\ \/ call[x].step = "waiting" /\ mode[call[x].file] = call[x].was
               \/ call[x].step = "inside" /\ call[x].saw = call[x].was
               \/ \E u \in Tasks : Opening(u, call[x].file) /\ call[u].step = "waiting"
        BY <4>1 DEF IInv, CloseInv
      <4>3. \A u \in Tasks : Opening(u, call[x].file) /\ call[u].step = "waiting"
                             => Opening(u, call[x].file)' /\ call'[u].step = "waiting"
        BY <1>3, <2>1, <4>1 DEF Opening
      <4>4. m[call[x].file] # mode[call[x].file] =>
              Opening(t, call[x].file)' /\ call'[t].step = "waiting"
        BY <2>1, <2>2, <4>1 DEF Opening
      <4> QED BY <4>1, <4>2, <4>3, <4>4
    <3> QED BY <3>1, <3>2
  <2> QED BY <2>5, <2>6 DEF OrderInv, CloseInv
<1> QED BY <1>1, <1>4, <1>5

(* Who holds the mutex is no open of an entry that is being closed.        *)
LEMMA OwnerIsNotReopening ==
  ASSUME IInv, NEW t \in Tasks, t = mutex.owner, NEW x \in Tasks, Ending(x)
  PROVE  ~Opening(t, call[x].file)
  BY DEF IInv, MutexInv, OrderInv, Before

LEMMA EndOrder ==
  ASSUME IInv, NEW t \in Tasks, call[t].step = "inside",
         NEW c \in Callers, c.step = "left" \/ c = Idle,
         c.op \in {call[t].op, "none"}, c.file \in {call[t].file, 0},
         mutex' = mutex_unlock, call' = [call EXCEPT ![t] = c], mode' = mode,
         NEW n, opened' = IF call[t].op = "open" THEN [opened EXCEPT ![call[t].file] = n]
                          ELSE opened
  PROVE  OrderInv' /\ CloseInv'
<1>1. \A x, y \in Tasks : Before(x, y) /\ x # t => Before(x, y)'
  <2>1. c.step \in {"user", "left"}
    BY DEF Idle
  <2> QED BY <2>1, MutexUnlock DEF IInv
<1>2. \A x \in Tasks : call'[x] = IF x = t THEN c ELSE call[x]
  BY DEF IInv, CallsType
<1>3. \A x \in Tasks : Ending(x)' => x # t /\ Ending(x)
  BY <1>2 DEF Ending, Closing, Idle
<1>4. \A x \in Tasks : Ending(x) => call[x].file \in Entries
  BY DEF IInv, CallInv, Ending, Closing, Idle
<1>5. \A x \in Tasks : Ending(x) => ~Opening(t, call[x].file)
  BY OwnerIsNotReopening DEF IInv, MutexInv
<1>6. \A u \in Tasks, e \in Entries : Opening(u, e)' => Opening(u, e)
  BY <1>2, ConstantFacts DEF Opening
<1>7. OrderInv'
  BY <1>1, <1>2, <1>3, <1>4, <1>5, <1>6 DEF OrderInv, IInv
<1>8. \A x \in Tasks : Ending(x) => opened'[call[x].file] = opened[call[x].file]
  BY <1>4, <1>5 DEF Opening, IInv, FilesType
<1>9. \A u \in Tasks, e \in Entries : Opening(u, e) /\ call[u].step = "waiting"
                                     => Opening(u, e)' /\ call'[u].step = "waiting"
  BY <1>2 DEF Opening
<1>10. CloseInv'
  <2> SUFFICES ASSUME NEW x \in Tasks, Ending(x)'
      PROVE  /\ opened'[call'[x].file] = call'[x].times
             /\ \/ call'[x].step = "waiting" /\ mode'[call'[x].file] = call'[x].was
                \/ call'[x].step = "inside" /\ call'[x].saw = call'[x].was
                \/ \E u \in Tasks : Opening(u, call[x].file)' /\ call'[u].step = "waiting"
    BY DEF CloseInv
  <2>1. Ending(x) /\ call'[x] = call[x]
    BY <1>2, <1>3
  <2> QED BY <1>4, <1>8, <1>9, <2>1 DEF IInv, CloseInv
<1> QED BY <1>7, <1>10
-----------------------------------------------------------------------------
(* The set a count is about, by its members.                               *)
LEMMA NamedMembers ==
  ASSUME NEW e, NEW t \in Tasks, NEW i \in Fds
  PROVE  /\ <<t, i>> \in Named(e) <=>
              fds[t][i] = e /\ ~(call[t].op = "close" /\ call[t].fd = i)
         /\ (<<t, i>> \in Named(e))' <=>
              fds'[t][i] = e /\ ~(call'[t].op = "close" /\ call'[t].fd = i)
  BY DEF Named, Closing

LEMMA NamedFinite ==
  ASSUME NEW e
  PROVE  /\ Named(e) \subseteq Tasks \X Fds /\ IsFiniteSet(Named(e))
         /\ Cardinality(Named(e)) \in Nat
         /\ Named(e)' \subseteq Tasks \X Fds
<1>1. IsFiniteSet(Tasks \X Fds)
  BY ConstantFacts, FS_Product
<1>2. Named(e) \subseteq Tasks \X Fds /\ Named(e)' \subseteq Tasks \X Fds
  BY DEF Named
<1> QED BY <1>1, <1>2, FS_Subset, FS_CardinalityType

LEMMA NamedEqual ==
  ASSUME NEW e, NEW S \in SUBSET (Tasks \X Fds),
         \A t \in Tasks, i \in Fds : (<<t, i>> \in Named(e))' <=> <<t, i>> \in S
  PROVE  Named(e)' = S
<1>1. \A z \in Tasks \X Fds : \E t \in Tasks, i \in Fds : z = <<t, i>>
  OBVIOUS
<1> QED BY <1>1, NamedFinite

LEMMA RefsKept ==
  ASSUME RefsMatch, cause = {}, ref' = ref, lost' = lost,
         \A e \in Entries, x \in Tasks, i \in Fds :
           (<<x, i>> \in Named(e))' <=> <<x, i>> \in Named(e)
  PROVE  RefsMatch'
<1>1. \A e \in Entries : Named(e)' = Named(e)
  BY NamedEqual, NamedFinite
<1> QED BY <1>1 DEF RefsMatch

(* A reference given back with the descriptor it was for.                  *)
LEMMA RefsLess ==
  ASSUME FilesType, RefsMatch, cause = {}, lost' = lost,
         NEW f \in Entries, NEW t \in Tasks, NEW k \in Fds, <<t, k>> \in Named(f),
         ref' = free_file(ref, f),
         \A e \in Entries, x \in Tasks, i \in Fds :
           (<<x, i>> \in Named(e))' <=> <<x, i>> \in Named(e) \ {<<t, k>>}
  PROVE  RefsMatch'
<1>1. \A e \in Entries : Named(e)' = Named(e) \ {<<t, k>>}
  BY NamedEqual, NamedFinite
<1>2. /\ Cardinality(Named(f)') = Cardinality(Named(f)) - 1
      /\ Cardinality(Named(f)) > 0
  <2>1. Cardinality(Named(f) \ {<<t, k>>}) = Cardinality(Named(f)) - 1
    BY NamedFinite, FS_RemoveElement
  <2>2. Cardinality(Named(f)) # 0
    BY NamedFinite, FS_EmptySet
  <2>3. Named(f)' = Named(f) \ {<<t, k>>}
    BY <1>1
  <2>4. Cardinality(Named(f)) \in Nat
    BY NamedFinite
  <2> QED BY <2>1, <2>2, <2>3, <2>4
<1>3. \A e \in Entries \ {f} : Named(e)' = Named(e)
  <2>1. \A e \in Entries \ {f} : <<t, k>> \notin Named(e)
    BY NamedMembers
  <2> QED BY <1>1, <2>1
<1>4. \A e \in Entries : ref[e] = Cardinality(Named(e)) + lost[e]
  BY DEF RefsMatch
<1>5. /\ lost[f] \in Nat /\ ref[f] \in Nat /\ ref[f] > 0
      /\ ref'[f] = ref[f] - 1
      /\ \A e \in Entries \ {f} : ref'[e] = ref[e]
  BY <1>2, <1>4, NamedFinite DEF FilesType, free_file
<1>6. \A e \in Entries : ref'[e] = Cardinality(Named(e)') + lost[e]
  BY <1>2, <1>3, <1>4, <1>5, NamedFinite
<1> QED BY <1>6 DEF RefsMatch

(* A reference taken for a new descriptor on a free entry.                 *)
LEMMA RefsMore ==
  ASSUME FilesType, RefsMatch, cause = {}, lost' = lost,
         NEW f \in Entries, NEW t \in Tasks, NEW k \in Fds, fds[t][k] = NULL,
         ref[f] = 0, ref' = Taken(f),
         \A e \in Entries, x \in Tasks, i \in Fds :
           (<<x, i>> \in Named(e))' <=>
             <<x, i>> \in Named(e) \cup IF e = f THEN {<<t, k>>} ELSE {}
  PROVE  RefsMatch'
<1>1. \A e \in Entries : Named(e)' = Named(e) \cup IF e = f THEN {<<t, k>>} ELSE {}
  BY NamedEqual, NamedFinite
<1>2. <<t, k>> \notin Named(f)
  BY NamedMembers, ConstantFacts DEF NULL
<1>3. Cardinality(Named(f)') = Cardinality(Named(f)) + 1
  BY <1>1, <1>2, NamedFinite, FS_AddElement
<1>4. \A e \in Entries : ref[e] = Cardinality(Named(e)) + lost[e]
  BY DEF RefsMatch
<1>5. ref'[f] = 1 /\ \A e \in Entries \ {f} : ref'[e] = ref[e]
  BY DEF FilesType, Taken
<1>6. \A e \in Entries \ {f} : Named(e)' = Named(e)
  BY <1>1
<1>7. lost[f] \in Nat
  BY DEF FilesType
<1>8. \A e \in Entries : ref'[e] = Cardinality(Named(e)') + lost[e]
  BY <1>3, <1>4, <1>5, <1>6, <1>7, NamedFinite
<1> QED BY <1>8 DEF RefsMatch

(* A reference that is the last one for its entry and is given back.       *)
LEMMA LastReference ==
  ASSUME FilesType, RefsMatch, cause = {},
         NEW f \in Entries, NEW t \in Tasks, NEW k \in Fds, <<t, k>> \in Named(f),
         free_file(ref, f)[f] = 0
  PROVE  Named(f) = {<<t, k>>}
<1>1. /\ IsFiniteSet(Named(f) \ {<<t, k>>})
      /\ Cardinality(Named(f) \ {<<t, k>>}) = Cardinality(Named(f)) - 1
  BY NamedFinite, FS_RemoveElement
<1>2. ref[f] \in Nat /\ lost[f] \in Nat /\ ref[f] = Cardinality(Named(f)) + lost[f]
  BY DEF FilesType, RefsMatch
<1>3. ref[f] <= 1
  BY <1>2 DEF free_file, FilesType
<1>4. Cardinality(Named(f) \ {<<t, k>>}) = 0
  BY <1>1, <1>2, <1>3, NamedFinite, FS_CardinalityType
<1>5. Named(f) \ {<<t, k>>} = {}
  BY <1>1, <1>4, FS_EmptySet
<1> QED BY <1>5
-----------------------------------------------------------------------------
(* What a step begins with: nothing has gone wrong.                        *)
LEMMA NoWild ==
  ASSUME IInv, cause = {}
  PROVE  fds \in [Tasks -> [Fds -> Entries \cup {NULL}]]
  BY DEF IInv, FilesType

LEMMA InitIInv == Init => IInv
<1> SUFFICES ASSUME Init PROVE IInv
  OBVIOUS
<1>1. FilesType
  BY ConstantFacts DEF Init, FilesType, Modes
<1>2. Idle \in Callers
  BY ConstantFacts DEF Idle, Callers, Modes, O_RDONLY, O_WRONLY
<1>3. << >> \in Seq(Tasks) /\ Len(<< >>) = 0
  BY EmptySeq
<1>4. CallsType
  BY <1>2, <1>3 DEF Init, CallsType
<1>5. \A t \in Tasks : call[t] = Idle /\ \A i \in Fds : fds[t][i] = NULL
  BY DEF Init
<1>6. CallInv
  BY <1>5 DEF CallInv, Idle
<1>7. \A e \in Entries : Named(e) = {}
  <2>1. \A e \in Entries, t \in Tasks, i \in Fds : fds[t][i] # e
    BY <1>5, ConstantFacts DEF NULL
  <2> QED BY <2>1 DEF Named
<1>8. RefsMatch
  <2>1. Cardinality({}) = 0
    BY FS_EmptySet
  <2>2. \A e \in Entries : ref[e] = 0 /\ lost[e] = 0 /\ Cardinality(Named(e)) = 0
    BY <1>7, <2>1 DEF Init
  <2> QED BY <2>2 DEF RefsMatch
<1>9. MutexInv /\ OrderInv /\ CloseInv
  BY <1>3, <1>5 DEF MutexInv, OrderInv, CloseInv, Ending, Closing, Init, Idle
<1> QED BY <1>1, <1>4, <1>6, <1>8, <1>9 DEF IInv

LEMMA ResumeStep ==
  ASSUME IInv, cause = {}, NEW t \in Tasks, resume(t)
  PROVE  IInv'
<1>1. /\ call[t].step = "waiting" /\ mutex.owner = t
      /\ call' = [call EXCEPT ![t] = Started(call[t], mode)]
      /\ UNCHANGED <<ref, mode, fds, live, mutex, opened, lost, cause>>
  BY DEF resume
<1> DEFINE s == Started(call[t], mode)
<1>2. /\ call[t] \in Callers /\ call[t].file \in Entries /\ call[t].fd \in Fds
      /\ call[t].op # "none"
  BY <1>1 DEF IInv, CallsType, CallInv
<1>3. /\ s \in Callers /\ s.step = "inside" /\ s.saw = mode[call[t].file]
      /\ s.op = call[t].op /\ s.fd = call[t].fd /\ s.file = call[t].file
      /\ s.was = call[t].was /\ s.times = call[t].times /\ s.failed = call[t].failed
  BY <1>2 DEF Started, Callers, IInv, FilesType
<1>4. \A x \in Tasks : call'[x] = IF x = t THEN s ELSE call[x]
  BY <1>1 DEF IInv, CallsType
<1> HIDE DEF s
<1>5. FilesType'
  BY <1>1 DEF IInv, FilesType
<1>6. CallsType'
  BY <1>1, <1>3, <1>4 DEF IInv, CallsType, s
<1>7. CallInv'
  BY <1>1, <1>2, <1>3, <1>4 DEF IInv, CallInv, Idle
<1>8. RefsMatch'
  <2>1. \A e \in Entries, x \in Tasks, i \in Fds :
          (<<x, i>> \in Named(e))' <=> <<x, i>> \in Named(e)
    <3> SUFFICES ASSUME NEW e \in Entries, NEW x \in Tasks, NEW i \in Fds
                 PROVE  (<<x, i>> \in Named(e))' <=> <<x, i>> \in Named(e)
      OBVIOUS
    <3>1. fds'[x][i] = fds[x][i] /\ call'[x].op = call[x].op /\ call'[x].fd = call[x].fd
      BY <1>1, <1>3, <1>4
    <3> QED BY <3>1, NamedMembers
  <2> QED BY <1>1, <2>1, RefsKept DEF IInv
<1>9. MutexInv'
  BY <1>1, <1>3, <1>4, ConstantFacts DEF IInv, MutexInv, CallsType
<1>10. \A x, y \in Tasks : Before(x, y)' <=> Before(x, y)
  BY <1>1 DEF Before
<1>11. /\ \A x \in Tasks : Ending(x)' <=> Ending(x)
       /\ \A x \in Tasks : Ending(x) => call[x].file \in Entries /\ call'[x].file = call[x].file
       /\ \A x \in Tasks, e \in Entries : Opening(x, e)' <=> Opening(x, e)
  BY <1>1, <1>3, <1>4 DEF Ending, Closing, Opening, IInv, CallInv, Idle
<1>12. OrderInv'
  BY <1>10, <1>11 DEF IInv, OrderInv
<1>13. ASSUME NEW x \in Tasks, Ending(x)
       PROVE  /\ opened'[call'[x].file] = call'[x].times
              /\ \/ call'[x].step = "waiting" /\ mode'[call'[x].file] = call'[x].was
                 \/ call'[x].step = "inside" /\ call'[x].saw = call'[x].was
                 \/ \E u \in Tasks : Opening(u, call[x].file)' /\ call'[u].step = "waiting"
  <2>1. ~Opening(t, call[x].file)
    BY <1>1, <1>13, OwnerIsNotReopening
  <2>2. /\ opened[call[x].file] = call[x].times
        /\ \/ call[x].step = "waiting" /\ mode[call[x].file] = call[x].was
           \/ call[x].step = "inside" /\ call[x].saw = call[x].was
           \/ \E u \in Tasks : Opening(u, call[x].file) /\ call[u].step = "waiting"
    BY <1>13 DEF IInv, CloseInv
  <2>3. \A u \in Tasks : Opening(u, call[x].file) /\ call[u].step = "waiting"
                         => Opening(u, call[x].file)' /\ call'[u].step = "waiting"
    BY <1>4, <1>11, <1>13, <2>1
  <2> QED BY <1>1, <1>3, <1>4, <2>2, <2>3
<1>14. CloseInv'
  BY <1>11, <1>13 DEF CloseInv
<1> QED BY <1>5, <1>6, <1>7, <1>8, <1>9, <1>12, <1>14 DEF IInv

(* What a call does once the mutex is given away.                          *)
LEMMA RestFiles ==
  ASSUME IInv, cause = {}, NEW t \in Tasks, call[t].step # "user",
         NEW c, c.op = call[t].op, c.fd = call[t].fd, c.file = call[t].file,
         Rest(t, c), lost' = lost, mode' = mode, live' = live, opened' \in [Entries -> Nat]
  PROVE  FilesType' /\ CallInv' /\ RefsMatch'
<1>1. /\ call[t] \in Callers /\ c.op # "none" /\ c.file \in Entries /\ c.fd \in Fds
      /\ c.op \in {"open", "unlink", "close"} => fds[t][c.fd] = c.file
      /\ t \in live
  BY DEF IInv, CallsType, CallInv, Idle
<1> DEFINE gives == c.op = "unlink" \/ (c.op = "open" /\ c.failed)
           frees == c.op \in {"unlink", "close"} \/ (c.op = "open" /\ c.failed)
<1>2. /\ ref' = IF gives THEN free_file(ref, c.file) ELSE ref
      /\ fds' = IF frees THEN [fds EXCEPT ![t][c.fd] = NULL] ELSE fds
      /\ call' = [call EXCEPT ![t] = Idle]
  BY DEF Rest
<1>3. \A x \in Tasks : call'[x] = IF x = t THEN Idle ELSE call[x]
  BY <1>2 DEF IInv, CallsType
<1>4. \A x \in Tasks, i \in Fds :
        fds'[x][i] = IF frees /\ x = t /\ i = c.fd THEN NULL ELSE fds[x][i]
  BY <1>2 DEF IInv, FilesType
<1>5. FilesType'
  <2>1. fds \in [Tasks -> [Fds -> Entries \cup {NULL}]]
    BY NoWild
  <2>2. fds' \in [Tasks -> [Fds -> Entries \cup {NULL}]]
    BY <1>2, <2>1
  <2>3. fds' \in [Tasks -> [Fds -> Entries \cup {NULL, Wild}]]
    BY <2>2
  <2>4. free_file(ref, c.file) \in [Entries -> Nat]
    BY <1>1 DEF free_file, IInv, FilesType
  <2>5. ref' \in [Entries -> Nat]
    BY <1>2, <2>4 DEF IInv, FilesType
  <2> QED BY <2>2, <2>3, <2>5 DEF IInv, FilesType
<1>6. CallInv'
  BY <1>1, <1>3, <1>4 DEF IInv, CallInv, Idle
<1>7. RefsMatch'
  <2>1. CASE gives
    <3>1. <<t, c.fd>> \in Named(c.file)
      BY <1>1, <2>1, NamedMembers
    <3>2. \A e \in Entries, x \in Tasks, i \in Fds :
            (<<x, i>> \in Named(e))' <=> <<x, i>> \in Named(e) \ {<<t, c.fd>>}
      <4> SUFFICES ASSUME NEW e \in Entries, NEW x \in Tasks, NEW i \in Fds
                   PROVE  (<<x, i>> \in Named(e))' <=> <<x, i>> \in Named(e) \ {<<t, c.fd>>}
        OBVIOUS
      <4>1. e # NULL
        BY ConstantFacts DEF NULL
      <4>2. CASE x = t /\ i = c.fd
        BY <1>4, <2>1, <4>1, <4>2, NamedMembers
      <4>3. CASE x = t /\ i # c.fd
        BY <1>1, <1>3, <1>4, <2>1, <4>3, NamedMembers DEF Idle
      <4>4. CASE x # t
        BY <1>3, <1>4, <4>4, NamedMembers
      <4> QED BY <4>2, <4>3, <4>4
    <3>3. ref' = free_file(ref, c.file)
      BY <1>2, <2>1
    <3> QED BY <1>1, <3>1, <3>2, <3>3, RefsLess DEF IInv
  <2>2. CASE ~gives
    <3>1. \A e \in Entries, x \in Tasks, i \in Fds :
            (<<x, i>> \in Named(e))' <=> <<x, i>> \in Named(e)
      <4> SUFFICES ASSUME NEW e \in Entries, NEW x \in Tasks, NEW i \in Fds
                   PROVE  (<<x, i>> \in Named(e))' <=> <<x, i>> \in Named(e)
        OBVIOUS
      <4>1. e # NULL
        BY ConstantFacts DEF NULL
      <4>2. CASE x = t /\ c.op = "close"
        <5>1. fds'[x][i] = IF i = c.fd THEN NULL ELSE fds[x][i]
          BY <1>4, <4>2
        <5>2. call'[x].op = "none" /\ call[x].op = "close" /\ call[x].fd = c.fd
          BY <1>3, <4>2 DEF Idle
        <5> HIDE DEF gives, frees
        <5> QED BY <4>1, <5>1, <5>2, NamedMembers
      <4>3. CASE x = t /\ c.op # "close"
        BY <1>3, <1>4, <2>2, <4>3, NamedMembers DEF Idle
      <4>4. CASE x # t
        BY <1>3, <1>4, <4>4, NamedMembers
      <4> QED BY <4>2, <4>3, <4>4
    <3>2. ref' = ref
      BY <1>2, <2>2
    <3> QED BY <3>1, <3>2, RefsKept DEF IInv
  <2> QED BY <2>1, <2>2
<1> QED BY <1>5, <1>6, <1>7

LEMMA LeaveStep ==
  ASSUME IInv, cause = {}, NEW t \in Tasks, leave(t)
  PROVE  IInv'
<1>1. /\ call[t].step = "left" /\ Rest(t, call[t])
      /\ UNCHANGED <<mode, live, mutex, opened, lost>>
  BY DEF leave
<1>2. call' = [call EXCEPT ![t] = Idle]
  BY <1>1 DEF Rest
<1>3. \A x \in Tasks : call'[x] = IF x = t THEN Idle ELSE call[x]
  BY <1>2 DEF IInv, CallsType
<1>4. FilesType' /\ CallInv' /\ RefsMatch'
  BY <1>1, RestFiles DEF IInv, FilesType
<1>5. Idle \in Callers
  BY ConstantFacts DEF Idle, Callers, Modes, O_RDONLY, O_WRONLY
<1>6. CallsType'
  BY <1>1, <1>2, <1>5 DEF IInv, CallsType
<1>7. MutexInv'
  BY <1>1, <1>3, ConstantFacts DEF IInv, MutexInv, CallsType, Idle
<1>8. \A x, y \in Tasks : Before(x, y)' <=> Before(x, y)
  BY <1>1 DEF Before
<1>9. /\ \A x \in Tasks : Ending(x)' <=> Ending(x)
      /\ \A x \in Tasks : Ending(x) => call'[x] = call[x]
      /\ \A x \in Tasks, e \in Entries : Opening(x, e)' => Opening(x, e)
      /\ \A x \in Tasks, e \in Entries : Opening(x, e) /\ call[x].step = "waiting"
                                         => Opening(x, e)' /\ call'[x].step = "waiting"
  BY <1>1, <1>3 DEF Ending, Closing, Opening, Idle
<1>10. \A x \in Tasks : Ending(x) => call[x].file \in Entries
  BY DEF IInv, CallInv, Ending, Closing, Idle
<1>11. OrderInv'
  BY <1>8, <1>9, <1>10 DEF IInv, OrderInv
<1>12. CloseInv'
  <2> SUFFICES ASSUME NEW x \in Tasks, Ending(x)
      PROVE  /\ opened[call[x].file] = call[x].times
             /\ \/ call[x].step = "waiting" /\ mode[call[x].file] = call[x].was
                \/ call[x].step = "inside" /\ call[x].saw = call[x].was
                \/ \E u \in Tasks : Opening(u, call[x].file)' /\ call'[u].step = "waiting"
    BY <1>1, <1>9 DEF CloseInv
  <2> QED BY <1>9, <1>10 DEF IInv, CloseInv
<1> QED BY <1>4, <1>6, <1>7, <1>11, <1>12 DEF IInv

LEMMA FinishStep ==
  ASSUME IInv, cause = {}, NEW t \in Tasks, NEW failed \in BOOLEAN, finish(t, failed)
  PROVE  IInv'
<1> DEFINE c == [call[t] EXCEPT !.failed = failed]
           n == IF failed THEN opened[call[t].file] ELSE opened[call[t].file] + 1
<1>1. /\ call[t].step = "inside"
      /\ failed => call[t].op = "open"
      /\ call[t] \in Callers /\ call[t].file \in Entries /\ call[t].op # "none"
      /\ call[t].fd \in Fds
  BY DEF finish, IInv, CallsType, CallInv
<1>2. /\ c \in Callers /\ c.op = call[t].op /\ c.fd = call[t].fd /\ c.file = call[t].file
      /\ c.step = "inside" /\ c.failed = failed
  BY <1>1 DEF Callers
<1>3. /\ opened' = IF c.op = "open" /\ ~failed THEN [opened EXCEPT ![c.file] = @ + 1] ELSE opened
      /\ mutex' = mutex_unlock
      /\ IF mutex.queue = << >>
         THEN Rest(t, c)
         ELSE /\ call' = [call EXCEPT ![t] = [c EXCEPT !.step = "left"]]
              /\ UNCHANGED <<ref, fds, cause>>
      /\ UNCHANGED <<mode, live, lost>>
  BY DEF finish
<1> HIDE DEF c
<1>4. opened' = IF call[t].op = "open" THEN [opened EXCEPT ![call[t].file] = n] ELSE opened
  BY <1>1, <1>2, <1>3 DEF IInv, FilesType
<1>5. opened' \in [Entries -> Nat]
  BY <1>1, <1>4 DEF IInv, FilesType
<1>6. CASE mutex.queue = << >>
  <2>1. Rest(t, c)
    BY <1>3, <1>6
  <2>2. call' = [call EXCEPT ![t] = Idle]
    BY <2>1 DEF Rest
  <2>3. FilesType' /\ CallInv' /\ RefsMatch'
    BY <1>1, <1>2, <1>3, <1>5, <2>1, RestFiles
  <2>4. Idle \in Callers
    BY ConstantFacts DEF Idle, Callers, Modes, O_RDONLY, O_WRONLY
  <2>5. CallsType' /\ MutexInv'
    BY <1>1, <1>3, <2>2, <2>4, MutexUnlock DEF IInv, Idle
  <2>6. OrderInv' /\ CloseInv'
    <3>1. Idle.op = "none" /\ Idle.file = 0
      BY DEF Idle
    <3> HIDE DEF n
    <3> QED BY <1>1, <1>3, <1>4, <2>2, <2>4, <3>1, EndOrder
  <2> QED BY <2>3, <2>5, <2>6 DEF IInv
<1>7. CASE mutex.queue # << >>
  <2> DEFINE d == [c EXCEPT !.step = "left"]
  <2>1. call' = [call EXCEPT ![t] = d] /\ UNCHANGED <<ref, fds, cause>>
    BY <1>3, <1>7
  <2>2. /\ d \in Callers /\ d.op = call[t].op /\ d.fd = call[t].fd /\ d.file = call[t].file
        /\ d.step = "left" /\ d.failed = failed
    BY <1>2 DEF Callers
  <2> HIDE DEF d
  <2>3. \A x \in Tasks : call'[x] = IF x = t THEN d ELSE call[x]
    BY <2>1 DEF IInv, CallsType
  <2>4. FilesType'
    BY <1>3, <1>5, <2>1 DEF IInv, FilesType
  <2>5. CallInv'
    BY <1>1, <1>3, <2>1, <2>2, <2>3 DEF IInv, CallInv, Idle
  <2>6. RefsMatch'
    <3>1. \A e \in Entries, x \in Tasks, i \in Fds :
            (<<x, i>> \in Named(e))' <=> <<x, i>> \in Named(e)
      <4> SUFFICES ASSUME NEW e \in Entries, NEW x \in Tasks, NEW i \in Fds
                   PROVE  (<<x, i>> \in Named(e))' <=> <<x, i>> \in Named(e)
        OBVIOUS
      <4>1. fds'[x][i] = fds[x][i] /\ call'[x].op = call[x].op /\ call'[x].fd = call[x].fd
        BY <2>1, <2>2, <2>3
      <4> QED BY <4>1, NamedMembers
    <3> QED BY <1>3, <2>1, <3>1, RefsKept DEF IInv
  <2>7. CallsType' /\ MutexInv'
    BY <1>1, <1>3, <2>1, <2>2, MutexUnlock DEF IInv
  <2>8. OrderInv' /\ CloseInv'
    <3> HIDE DEF n
    <3> QED BY <1>1, <1>3, <1>4, <2>1, <2>2, EndOrder
  <2> QED BY <2>4, <2>5, <2>6, <2>7, <2>8 DEF IInv
<1> QED BY <1>6, <1>7
-----------------------------------------------------------------------------
(* A call that keeps to its descriptor and waits for the mutex or has it.  *)
LEMMA BeginCall ==
  ASSUME IInv, cause = {}, NEW t \in Tasks, call[t] = Idle, t \in live,
         NEW c \in Callers, c.op # "none", c.file \in Entries, c.fd \in Fds, ~c.failed,
         NEW m \in [Entries -> Modes], mutex_lock(t, c, m),
         c.op \in {"open", "unlink", "close"} => fds'[t][c.fd] = c.file,
         \A x \in Tasks \ {t} : fds'[x] = fds[x],
         live' = live
  PROVE  /\ CallsType' /\ MutexInv' /\ CallInv'
         /\ call'[t].op = c.op /\ call'[t].fd = c.fd
         /\ \A x \in Tasks \ {t} : call'[x] = call[x]
<1>1. CallsType' /\ MutexInv'
  BY MutexLock DEF IInv
<1>2. PICK d \in {Started(c, m), [c EXCEPT !.step = "waiting"]} :
        call' = [call EXCEPT ![t] = d]
  BY DEF mutex_lock
<1>3. \A x \in Tasks : call'[x] = IF x = t THEN d ELSE call[x]
  BY <1>2 DEF IInv, CallsType
<1>4. /\ d.op = c.op /\ d.fd = c.fd /\ d.file = c.file /\ d.failed = c.failed
      /\ d.step \in {"waiting", "inside"}
  BY DEF Started, Callers
<1>5. CallInv'
  BY <1>3, <1>4 DEF IInv, CallInv
<1> QED BY <1>1, <1>3, <1>4, <1>5

LEMMA CallIsCaller ==
  ASSUME NEW op \in {"open", "unlink", "access", "sync", "close"},
         NEW fd \in Fds, NEW e \in Entries
  PROVE  /\ Call(op, fd, e) \in Callers
         /\ Call(op, fd, e).op = op /\ Call(op, fd, e).fd = fd /\ Call(op, fd, e).file = e
         /\ ~Call(op, fd, e).failed
<1>1. Idle \in Callers /\ ~Idle.failed
  BY ConstantFacts DEF Idle, Callers, Modes, O_RDONLY, O_WRONLY
<1>2. fd \in 0 .. NFds /\ e \in 0 .. NFiles
  BY DEF Fds, Entries
<1> QED BY <1>1, <1>2 DEF Call, Callers

(* Calls that only take the mutex: sys_read, sys_write, sys_seek, sys_sync.*)
LEMMA UseStep ==
  ASSUME IInv, cause = {}, NEW t \in Tasks, call[t] = Idle, t \in live,
         NEW op \in {"access", "sync"}, NEW fd \in Fds, NEW e \in Entries,
         mutex_lock(t, Call(op, fd, e), mode),
         UNCHANGED <<ref, mode, fds, live, opened, lost, cause>>
  PROVE  IInv'
<1> DEFINE c == Call(op, fd, e)
<1>1. c \in Callers /\ c.op = op /\ c.fd = fd /\ c.file = e /\ ~c.failed
  BY CallIsCaller
<1> HIDE DEF c
<1>2. mutex_lock(t, c, mode) /\ mode \in [Entries -> Modes]
  BY DEF c, IInv, FilesType
<1>3. /\ CallsType' /\ MutexInv' /\ CallInv'
      /\ call'[t].op = op
      /\ \A x \in Tasks \ {t} : call'[x] = call[x]
  BY <1>1, <1>2, BeginCall
<1>4. OrderInv' /\ CloseInv'
  BY <1>1, <1>2, BeginOrder
<1>5. FilesType'
  BY DEF IInv, FilesType
<1>6. RefsMatch'
  <2>1. \A f \in Entries, x \in Tasks, i \in Fds :
          (<<x, i>> \in Named(f))' <=> <<x, i>> \in Named(f)
    <3> SUFFICES ASSUME NEW f \in Entries, NEW x \in Tasks, NEW i \in Fds
                 PROVE  (<<x, i>> \in Named(f))' <=> <<x, i>> \in Named(f)
      OBVIOUS
    <3>1. fds'[x][i] = fds[x][i] /\ (call'[x] = call[x] \/ (call[x].op # "close" /\ call'[x].op # "close"))
      BY <1>3 DEF Idle
    <3> QED BY <3>1, NamedMembers
  <2> QED BY <2>1, RefsKept DEF IInv
<1> QED BY <1>3, <1>4, <1>5, <1>6 DEF IInv

LEMMA CloseStep ==
  ASSUME IInv, cause = {}, NEW t \in Tasks, NEW fd \in Fds, sys_close(t, fd)
  PROVE  IInv'
<1> DEFINE e == fds[t][fd]
           c == [Call("close", fd, e) EXCEPT !.was = mode[e], !.times = opened[e]]
<1>1. /\ t \in live /\ call[t] = Idle /\ e # NULL
      /\ ref' = free_file(ref, e)
      /\ IF ref'[e] = 0
         THEN mutex_lock(t, c, mode) /\ UNCHANGED fds
         ELSE fds' = [fds EXCEPT ![t][fd] = NULL] /\ UNCHANGED <<call, mutex>>
      /\ UNCHANGED <<mode, live, opened, lost, cause>>
  BY DEF sys_close
<1>2. e \in Entries
  BY <1>1, NoWild
<1>3. /\ c \in Callers /\ c.op = "close" /\ c.fd = fd /\ c.file = e /\ ~c.failed
      /\ c.was = mode[e] /\ c.times = opened[e]
  <2> DEFINE b == Call("close", fd, e)
  <2>1. b \in Callers /\ b.op = "close" /\ b.fd = fd /\ b.file = e /\ ~b.failed
    BY <1>2, CallIsCaller
  <2> HIDE DEF b
  <2>2. mode[e] \in Modes /\ opened[e] \in Nat
    BY <1>2 DEF IInv, FilesType
  <2>3. c = [b EXCEPT !.was = mode[e], !.times = opened[e]]
    BY DEF b
  <2> HIDE DEF c
  <2> QED BY <2>1, <2>2, <2>3 DEF Callers
<1> HIDE DEF c
<1>4. /\ mode \in [Entries -> Modes]
      /\ free_file(ref, e) \in [Entries -> Nat]
  BY <1>2 DEF IInv, FilesType, free_file
<1>5. <<t, fd>> \in Named(e)
  BY <1>1, <1>2, NamedMembers DEF Idle
<1>6. CASE ref'[e] = 0
  <2>1. mutex_lock(t, c, mode) /\ fds' = fds
    BY <1>1, <1>6
  <2>2. FilesType'
    BY <1>1, <1>4, <2>1 DEF IInv, FilesType
  <2>3. /\ CallsType' /\ MutexInv' /\ CallInv'
        /\ call'[t].op = "close" /\ call'[t].fd = fd
        /\ \A x \in Tasks \ {t} : call'[x] = call[x]
    BY <1>1, <1>2, <1>3, <1>4, <2>1, BeginCall
  <2>4. ASSUME NEW u \in Tasks, Opening(u, e)
        PROVE  FALSE
    <3>1. u # t /\ call[u].fd \in Fds /\ fds[u][call[u].fd] = e /\ call[u].op = "open"
      BY <1>1, <2>4 DEF Opening, IInv, CallInv, Idle
    <3>2. <<u, call[u].fd>> \in Named(e)
      BY <3>1, NamedMembers
    <3>3. Named(e) = {<<t, fd>>}
      BY <1>1, <1>2, <1>5, <1>6, LastReference DEF IInv
    <3> QED BY <3>1, <3>2, <3>3
  <2>5. OrderInv' /\ CloseInv'
    BY <1>1, <1>2, <1>3, <1>4, <2>1, <2>4, BeginOrder
  <2>6. \A f \in Entries, x \in Tasks, i \in Fds :
          (<<x, i>> \in Named(f))' <=> <<x, i>> \in Named(f) \ {<<t, fd>>}
    <3> SUFFICES ASSUME NEW f \in Entries, NEW x \in Tasks, NEW i \in Fds
                 PROVE  (<<x, i>> \in Named(f))' <=> <<x, i>> \in Named(f) \ {<<t, fd>>}
      OBVIOUS
    <3>1. CASE x = t
      BY <1>1, <2>1, <2>3, <3>1, NamedMembers DEF Idle
    <3>2. CASE x # t
      BY <2>1, <2>3, <3>2, NamedMembers
    <3> QED BY <3>1, <3>2
  <2>7. RefsMatch'
    BY <1>1, <1>2, <1>5, <2>6, RefsLess DEF IInv
  <2> QED BY <2>2, <2>3, <2>5, <2>7 DEF IInv
<1>7. CASE ref'[e] # 0
  <2>1. fds' = [fds EXCEPT ![t][fd] = NULL] /\ UNCHANGED <<call, mutex>>
    BY <1>1, <1>7
  <2>2. \A x \in Tasks, i \in Fds :
          fds'[x][i] = IF x = t /\ i = fd THEN NULL ELSE fds[x][i]
    BY <2>1 DEF IInv, FilesType
  <2>3. FilesType'
    <3>1. fds \in [Tasks -> [Fds -> Entries \cup {NULL}]]
      BY NoWild
    <3>2. fds' \in [Tasks -> [Fds -> Entries \cup {NULL}]]
      BY <2>1, <3>1
    <3>3. fds' \in [Tasks -> [Fds -> Entries \cup {NULL, Wild}]]
      BY <3>2
    <3> QED BY <1>1, <1>4, <3>2, <3>3 DEF IInv, FilesType
  <2>4. CallsType' /\ MutexInv' /\ OrderInv' /\ CloseInv'
    BY <1>1, <2>1 DEF IInv, CallsType, MutexInv, OrderInv, CloseInv, Before, Ending, Closing, Opening
  <2>5. CallInv'
    BY <1>1, <2>1, <2>2 DEF IInv, CallInv, Idle
  <2>6. \A f \in Entries, x \in Tasks, i \in Fds :
          (<<x, i>> \in Named(f))' <=> <<x, i>> \in Named(f) \ {<<t, fd>>}
    <3> SUFFICES ASSUME NEW f \in Entries, NEW x \in Tasks, NEW i \in Fds
                 PROVE  (<<x, i>> \in Named(f))' <=> <<x, i>> \in Named(f) \ {<<t, fd>>}
      OBVIOUS
    <3>1. f # NULL
      BY ConstantFacts DEF NULL
    <3> QED BY <2>1, <2>2, <3>1, NamedMembers
  <2>7. RefsMatch'
    BY <1>1, <1>2, <1>5, <2>6, RefsLess DEF IInv
  <2> QED BY <2>3, <2>4, <2>5, <2>7 DEF IInv
<1> QED BY <1>6, <1>7

(* sys_open and sys_unlink.                                                *)
LEMMA GetStep ==
  ASSUME IInv, cause = {}, NEW t \in Tasks, NEW op \in {"open", "unlink"},
         NEW m \in Modes, NEW rooted \in BOOLEAN, Get(t, op, m, rooted)
  PROVE  IInv'
<1> DEFINE e == alloc_file
           fd == task_alloc_fd(t)
           shared == ref[e] # 0
           modes == IF op = "open" THEN [mode EXCEPT ![e] = m] ELSE mode
           c == Call(op, fd, e)
<1>1. /\ t \in live /\ call[t] = Idle
      /\ ref' = Taken(e)
      /\ IF fd = -1
         THEN /\ lost' = IF shared THEN lost ELSE [lost EXCEPT ![e] = 1]
              /\ UNCHANGED <<fds, mode, call, mutex, cause>>
         ELSE /\ fds' = [fds EXCEPT ![t][fd] = e]
              /\ cause' = (IF shared THEN {"shared"} ELSE {}) \cup (IF rooted THEN {} ELSE {"astray"})
              /\ IF rooted
                 THEN mode' = modes /\ mutex_lock(t, c, modes)
                 ELSE UNCHANGED <<mode, call, mutex>>
              /\ UNCHANGED lost
      /\ UNCHANGED <<live, opened>>
  BY DEF Get
<1>2. e \in Entries
  BY AllocFile DEF IInv, FilesType
<1> HIDE DEF e
<1>3. Taken(e) \in [Entries -> Nat] /\ (shared => Taken(e) = ref)
  BY <1>2 DEF Taken, IInv, FilesType
<1>4. CASE fd = -1
  <2>1. /\ lost' = IF shared THEN lost ELSE [lost EXCEPT ![e] = 1]
        /\ UNCHANGED <<fds, mode, call, mutex, cause, live, opened>>
    BY <1>1, <1>4
  <2>2. FilesType'
    BY <1>1, <1>3, <2>1 DEF IInv, FilesType
  <2>3. CallsType' /\ CallInv' /\ MutexInv' /\ OrderInv' /\ CloseInv'
    BY <2>1 DEF IInv, CallsType, CallInv, MutexInv, OrderInv, CloseInv, Before, Ending, Closing, Opening
  <2>4. \A f \in Entries : Named(f)' = Named(f)
    BY <2>1 DEF Named, Closing
  <2>5. RefsMatch'
    <3>1. \A f \in Entries : ref[f] = Cardinality(Named(f)) + lost[f]
      BY DEF IInv, RefsMatch
    <3>2. CASE shared
      BY <1>1, <1>3, <2>1, <2>4, <3>1, <3>2 DEF RefsMatch
    <3>3. CASE ~shared
      <4>1. Cardinality(Named(e)) \in Nat /\ lost[e] \in Nat
        BY <1>2, NamedFinite DEF IInv, FilesType
      <4>2. Cardinality(Named(e)) = 0 /\ lost[e] = 0
        BY <1>2, <3>1, <3>3, <4>1
      <4>3. ref'[e] = 1 /\ lost'[e] = 1
        BY <1>1, <1>2, <2>1, <3>3 DEF Taken, IInv, FilesType
      <4>4. \A f \in Entries \ {e} : ref'[f] = ref[f] /\ lost'[f] = lost[f]
        BY <1>1, <1>2, <2>1, <3>3 DEF Taken, IInv, FilesType
      <4>5. \A f \in Entries : ref'[f] = Cardinality(Named(f)) + lost'[f]
        BY <3>1, <4>2, <4>3, <4>4
      <4> QED BY <2>4, <4>5 DEF RefsMatch
    <3> QED BY <3>2, <3>3
  <2> QED BY <2>2, <2>3, <2>5 DEF IInv
<1>5. CASE fd # -1
  <2>1. fd \in Fds /\ fds[t][fd] = NULL
    BY <1>5, AllocFd
  <2> HIDE DEF fd
  <2>2. /\ fds' = [fds EXCEPT ![t][fd] = e] /\ UNCHANGED <<lost, live, opened>>
        /\ shared => "shared" \in cause'
        /\ IF rooted THEN mode' = modes /\ mutex_lock(t, c, modes)
           ELSE UNCHANGED <<mode, call, mutex>>
    BY <1>1, <1>5
  <2>3. c \in Callers /\ c.op = op /\ c.fd = fd /\ c.file = e /\ ~c.failed
    BY <1>2, <2>1, CallIsCaller
  <2>4. modes \in [Entries -> Modes]
    BY <1>2 DEF IInv, FilesType
  <2> HIDE DEF c
  <2>5. \A x \in Tasks, i \in Fds :
          fds'[x][i] = IF x = t /\ i = fd THEN e ELSE fds[x][i]
    BY <2>2 DEF IInv, FilesType
  <2>6. FilesType'
    <3>1. fds \in [Tasks -> [Fds -> Entries \cup {NULL}]]
      BY NoWild
    <3>2. fds' \in [Tasks -> [Fds -> Entries \cup {NULL}]]
      BY <1>2, <2>2, <3>1
    <3>3. fds' \in [Tasks -> [Fds -> Entries \cup {NULL, Wild}]]
      BY <3>2
    <3>4. mode' \in [Entries -> Modes]
      BY <2>2, <2>4 DEF IInv, FilesType
    <3> QED BY <1>1, <1>3, <2>2, <3>2, <3>3, <3>4 DEF IInv, FilesType
  <2>7. /\ CallsType' /\ MutexInv' /\ CallInv' /\ OrderInv' /\ CloseInv'
        /\ call'[t].op # "close"
        /\ \A x \in Tasks \ {t} : call'[x] = call[x]
    <3>1. CASE rooted
      <4>1. mode' = modes /\ mutex_lock(t, c, modes)
        BY <2>2, <3>1
      <4>2. \A x \in Tasks \ {t} : fds'[x] = fds[x]
        BY <2>2 DEF IInv, FilesType
      <4>3. /\ CallsType' /\ MutexInv' /\ CallInv' /\ call'[t].op = op
            /\ \A x \in Tasks \ {t} : call'[x] = call[x]
        BY <1>1, <1>2, <2>1, <2>2, <2>3, <2>4, <2>5, <4>1, <4>2, BeginCall
      <4>4. \A f \in Entries : modes[f] # mode[f] => op = "open" /\ f = e
        BY DEF IInv, FilesType
      <4>5. OrderInv' /\ CloseInv'
        BY <1>1, <1>2, <2>2, <2>3, <2>4, <4>1, <4>4, BeginOrder
      <4> QED BY <4>3, <4>5
    <3>2. CASE ~rooted
      <4>1. UNCHANGED <<mode, call, mutex>>
        BY <2>2, <3>2
      <4>2. CallsType' /\ MutexInv' /\ OrderInv' /\ CloseInv'
        BY <2>2, <4>1 DEF IInv, CallsType, MutexInv, OrderInv, CloseInv, Before, Ending, Closing, Opening
      <4>3. CallInv'
        BY <1>1, <2>2, <2>5, <4>1 DEF IInv, CallInv, Idle
      <4> QED BY <1>1, <4>1, <4>2, <4>3 DEF Idle
    <3> QED BY <3>1, <3>2
  <2>8. RefsMatch'
    <3>1. CASE shared
      BY <2>2, <3>1 DEF RefsMatch
    <3>2. CASE ~shared
      <4>1. \A f \in Entries, x \in Tasks, i \in Fds :
              (<<x, i>> \in Named(f))' <=>
                <<x, i>> \in Named(f) \cup IF f = e THEN {<<t, fd>>} ELSE {}
        <5> SUFFICES ASSUME NEW f \in Entries, NEW x \in Tasks, NEW i \in Fds
                     PROVE  (<<x, i>> \in Named(f))' <=>
                              <<x, i>> \in Named(f) \/ (f = e /\ x = t /\ i = fd)
          OBVIOUS
        <5>1. f # NULL
          BY ConstantFacts DEF NULL
        <5>2. CASE x = t
          BY <1>1, <2>1, <2>5, <2>7, <5>1, <5>2, NamedMembers DEF Idle
        <5>3. CASE x # t
          BY <2>5, <2>7, <5>3, NamedMembers
        <5> QED BY <5>2, <5>3
      <4>2. ref[e] = 0 /\ ref' = Taken(e)
        BY <1>1, <3>2
      <4> QED BY <1>2, <2>1, <2>2, <4>1, <4>2, RefsMore DEF IInv
    <3> QED BY <3>1, <3>2
  <2> QED BY <2>6, <2>7, <2>8 DEF IInv
<1> QED BY <1>4, <1>5

(* fork: the child's descriptors are counted in with those of its parent.  *)
LEMMA ForkStep ==
  ASSUME IInv, cause = {}, NEW t \in Tasks, NEW u \in Tasks, NEW clear \in BOOLEAN,
         do_fork(t, u, clear)
  PROVE  IInv'
<1> DEFINE row == [i \in Fds |-> IF fds[t][i] # NULL THEN fds[t][i]
                                 ELSE IF clear THEN NULL ELSE Wild]
           own(e) == {i \in Fds : fds[t][i] = e}
<1>1. /\ t \in live /\ call[t] = Idle /\ u \notin live
      /\ ref' = Inherited(t)
      /\ fds' = [fds EXCEPT ![u] = row]
      /\ live' = live \cup {u}
      /\ cause' = IF fds'[u] = fds[t] THEN {} ELSE {"stale"}
      /\ UNCHANGED <<mode, call, mutex, opened, lost>>
  BY DEF do_fork
<1>2. fds \in [Tasks -> [Fds -> Entries \cup {NULL}]]
  BY NoWild
<1>3. row \in [Fds -> Entries \cup {NULL, Wild}]
  BY <1>2
<1> HIDE DEF row
<1>4. \A x \in Tasks : fds'[x] = IF x = u THEN row ELSE fds[x]
  BY <1>1, <1>2
<1>5. \A e : own(e) \subseteq Fds /\ IsFiniteSet(own(e)) /\ Cardinality(own(e)) \in Nat
  <2> SUFFICES ASSUME NEW e
               PROVE  own(e) \subseteq Fds /\ IsFiniteSet(own(e)) /\ Cardinality(own(e)) \in Nat
    OBVIOUS
  <2>1. own(e) \subseteq Fds
    OBVIOUS
  <2> HIDE DEF own
  <2> QED BY <2>1, ConstantFacts, FS_Subset, FS_CardinalityType
<1>6. \A e \in Entries : ref'[e] = ref[e] + Cardinality(own(e))
  BY <1>1 DEF Inherited
<1>7. FilesType'
  <2>1. Inherited(t) \in [Entries -> Nat]
    <3>1. Inherited(t) = [e \in Entries |-> ref[e] + Cardinality(own(e))]
      BY DEF Inherited
    <3> HIDE DEF own
    <3>2. \A e \in Entries : ref[e] + Cardinality(own(e)) \in Nat
      BY <1>5 DEF IInv, FilesType
    <3> QED BY <3>1, <3>2
  <2>2. fds' \in [Tasks -> [Fds -> Entries \cup {NULL, Wild}]]
    BY <1>1, <1>2, <1>3
  <2>3. cause' = {} => fds' \in [Tasks -> [Fds -> Entries \cup {NULL}]]
    <3>1. cause' = {} => row = fds[t]
      BY <1>1, <1>4
    <3> QED BY <1>1, <1>2, <3>1
  <2> QED BY <1>1, <2>1, <2>2, <2>3 DEF IInv, FilesType
<1>8. CallsType' /\ MutexInv' /\ OrderInv' /\ CloseInv'
  BY <1>1 DEF IInv, CallsType, MutexInv, OrderInv, CloseInv, Before, Ending, Closing, Opening
<1>9. CallInv'
  BY <1>1, <1>4 DEF IInv, CallInv, Idle
<1>10. RefsMatch'
  <2> SUFFICES ASSUME row = fds[t], NEW e \in Entries
               PROVE  ref'[e] = Cardinality(Named(e)') + lost'[e]
    BY <1>1, <1>4 DEF RefsMatch
  <2> DEFINE new == {<<u, i>> : i \in own(e)}
  <2>1. Named(e)' = Named(e) \cup new
    <3> SUFFICES ASSUME NEW x \in Tasks, NEW i \in Fds
                 PROVE  (<<x, i>> \in Named(e))' <=> <<x, i>> \in Named(e) \cup new
      BY NamedEqual, NamedFinite
    <3>1. CASE x = u
      <4>1. call[u] = Idle /\ call'[u] = Idle /\ fds[u][i] # e
        BY <1>1, ConstantFacts DEF IInv, CallInv, NULL
      <4>2. fds'[u][i] = fds[t][i]
        BY <1>4
      <4> QED BY <3>1, <4>1, <4>2, NamedMembers DEF Idle
    <3>2. CASE x # u
      BY <1>1, <1>4, <3>2, NamedMembers
    <3> QED BY <3>1, <3>2
  <2>2. Named(e) \cap new = {}
    <3> SUFFICES ASSUME NEW i \in Fds, <<u, i>> \in Named(e) PROVE FALSE
      BY NamedFinite
    <3>1. fds[u][i] # e
      BY <1>1, ConstantFacts DEF IInv, CallInv, NULL
    <3> QED BY <3>1, NamedMembers
  <2>3. IsFiniteSet(new) /\ Cardinality(new) = Cardinality(own(e))
    <3>1. new = {u} \X own(e)
      OBVIOUS
    <3>2. IsFiniteSet({u}) /\ Cardinality({u}) = 1
      BY FS_Singleton
    <3> HIDE DEF new, own
    <3>3. IsFiniteSet(own(e)) /\ Cardinality(own(e)) \in Nat
      BY <1>5
    <3>4. /\ IsFiniteSet({u} \X own(e))
          /\ Cardinality({u} \X own(e)) = Cardinality({u}) * Cardinality(own(e))
      BY <3>2, <3>3, FS_Product
    <3> QED BY <3>1, <3>2, <3>3, <3>4
  <2> HIDE DEF new, own
  <2>4. Cardinality(Named(e) \cup new) = Cardinality(Named(e)) + Cardinality(new)
    <3>1. Cardinality(Named(e) \cup new)
            = Cardinality(Named(e)) + Cardinality(new) - Cardinality(Named(e) \cap new)
      BY <2>3, NamedFinite, FS_Union
    <3>2. Cardinality(Named(e) \cap new) = 0
      BY <2>2, FS_EmptySet
    <3>3. Cardinality(Named(e)) \in Nat /\ Cardinality(new) \in Nat
      BY <1>5, <2>3, NamedFinite
    <3> QED BY <3>1, <3>2, <3>3
  <2>5. ref[e] = Cardinality(Named(e)) + lost[e] /\ lost'[e] = lost[e]
    BY <1>1 DEF IInv, RefsMatch
  <2>6. Cardinality(Named(e)) \in Nat /\ Cardinality(own(e)) \in Nat /\ lost[e] \in Nat
    BY <1>5, NamedFinite DEF IInv, FilesType
  <2> QED BY <1>6, <2>1, <2>3, <2>4, <2>5, <2>6
<1> QED BY <1>7, <1>8, <1>9, <1>10 DEF IInv
-----------------------------------------------------------------------------
LEMMA NextIInv == IInv /\ [Next]_vars => IInv'
<1> SUFFICES ASSUME IInv, [Next]_vars PROVE IInv'
  OBVIOUS
<1>1. CASE UNCHANGED vars
  BY <1>1 DEF vars, IInv, FilesType, CallsType, CallInv, RefsMatch, Named, MutexInv, OrderInv,
              CloseInv, Before, Ending, Opening, Closing
<1>2. CASE Next
  <2>1. cause = {}
    BY <1>2 DEF Next
  <2>2. ASSUME NEW t \in Tasks, NEW m \in Modes, NEW rooted \in BOOLEAN, sys_open(t, m, rooted)
        PROVE  IInv'
    BY <2>1, <2>2, GetStep DEF sys_open
  <2>3. ASSUME NEW t \in Tasks, NEW rooted \in BOOLEAN, sys_unlink(t, rooted)
        PROVE  IInv'
    BY <2>1, <2>3, GetStep DEF sys_unlink, Modes
  <2>4. ASSUME NEW t \in Tasks, NEW fd \in Fds, access(t, fd)
        PROVE  IInv'
    <3>1. /\ t \in live /\ call[t] = Idle /\ fds[t][fd] \in Entries
          /\ mutex_lock(t, Call("access", fd, fds[t][fd]), mode)
          /\ UNCHANGED <<ref, mode, fds, live, opened, lost, cause>>
      BY <2>1, <2>4, NoWild DEF access
    <3> QED BY <2>1, <3>1, UseStep
  <2>5. ASSUME NEW t \in Tasks, sys_sync(t)
        PROVE  IInv'
    <3>1. 1 \in Fds /\ 1 \in Entries
      BY ConstantFacts DEF Fds, Entries
    <3> QED BY <2>1, <2>5, <3>1, UseStep DEF sys_sync
  <2>6. ASSUME NEW t \in Tasks, NEW fd \in Fds, sys_close(t, fd)
        PROVE  IInv'
    BY <2>1, <2>6, CloseStep
  <2>7. ASSUME NEW t \in Tasks, NEW u \in Tasks, NEW clear \in BOOLEAN, do_fork(t, u, clear)
        PROVE  IInv'
    BY <2>1, <2>7, ForkStep
  <2>8. ASSUME NEW t \in Tasks, resume(t) \/ leave(t)
        PROVE  IInv'
    BY <2>1, <2>8, ResumeStep, LeaveStep
  <2>9. ASSUME NEW t \in Tasks, NEW failed \in BOOLEAN, finish(t, failed)
        PROVE  IInv'
    BY <2>1, <2>9, FinishStep
  <2> QED BY <1>2, <2>2, <2>3, <2>4, <2>5, <2>6, <2>7, <2>8, <2>9 DEF Next, Modes
<1> QED BY <1>1, <1>2

LEMMA IInvCloseBeforeReuse == IInv => CloseBeforeReuse
<1> SUFFICES ASSUME IInv, NEW t \in Tasks, Ending(t)
    PROVE  /\ opened[call[t].file] = call[t].times
           /\ call[t].step = "inside" /\ call[t].saw # call[t].was =>
                \E u \in Tasks : Opening(u, call[t].file) /\ call[u].step = "waiting"
  BY DEF CloseBeforeReuse, Ending, Opening
<1> QED BY DEF IInv, CloseInv

(* For any tasks, descriptors, entries and bound on the calls: the count of*)
(* file_table's entries is right (RefsMatch), and an entry that is being   *)
(* closed is not opened before the close is through (CloseBeforeReuse),    *)
(* with the inductive invariant both need.                                 *)
THEOREM FilesCorrect == Spec => [](IInv /\ RefsMatch /\ CloseBeforeReuse)
<1>1. IInv => RefsMatch
  BY DEF IInv
<1> QED BY <1>1, InitIInv, NextIInv, IInvCloseBeforeReuse, PTL DEF Spec
=============================================================================
