-------------------------- MODULE CoreThreadProofs --------------------------
(***************************************************************************)
(* Proofs about CoreThread, for any number of entries, rounds and tasks.    *)
(*                                                                         *)
(* A store by a thread that has stored before is at least two, since its    *)
(* load came after its first store; the thread that stores last overall has *)
(* stored before.  The index of mod_init and mod_exit only moves forward in *)
(* the plain build, because a thread writes nothing but Iters to it, so the *)
(* entries from the index on are untouched.                                 *)
(***************************************************************************)
EXTENDS CoreThread, TLAPS

\* Where a task can be in either build, and how far it has counted.
CountInv ==
  \A t \in Tasks :
    /\ tpc[t] \in {"none", "created", "woken"} => count[t] = 0
    /\ tpc[t] = "add" /\ ~Atomic => count[t] < Iters
    /\ tpc[t] = "inc" => ~Atomic /\ count[t] < Iters
    /\ tpc[t] \in {"load", "store"} => Atomic

\* The counter of the plain build.
DataInv ==
  ~Atomic =>
    /\ \A t \in Tasks : (\A u \in Tasks \ {t} : count[u] = 0) =>
         shared_data = count[t] /\ (tpc[t] = "inc" => reg[t] = shared_data)
    /\ \A t \in Tasks : count[t] >= 1 => shared_data >= 1
    /\ \A t \in Tasks : tpc[t] = "inc" /\ count[t] >= 1 => reg[t] >= 1
    /\ (\E t \in Tasks : count[t] = Iters) /\ (\A t \in Tasks : count[t] \in {0, Iters})
         => shared_data >= 2

InitCtl == {"head", "create", "is_err", "wake", "bind", "next", "store"}
InLoop  == {"head", "create", "is_err", "wake", "bind", "next", "stop", "join", "exitnext"}

\* The index in the plain build: entries behind it are done with, those from
\* it on untouched.
IndexInv ==
  ~Atomic =>
    /\ ctl \in InLoop => slot \in Slots /\ slot <= i
    /\ ctl = "init" => \A k \in Slots : arr_taskptr[k] = Null
    /\ ctl \in {"head", "create", "store"} =>
         \A k \in Slots : slot <= k => arr_taskptr[k] = Null
    /\ ctl \in {"is_err", "wake", "bind", "next"} =>
         \A k \in Slots : slot < k => arr_taskptr[k] = Null

\* The tasks of the array in the plain build.
ArrInv ==
  ~Atomic =>
    /\ \A t \in Tasks : tpc[t] # "none" => \E k \in Slots : arr_taskptr[k] = t
    /\ \A k \in Slots : arr_taskptr[k] \in Tasks => tpc[arr_taskptr[k]] # "none"
    /\ \A j, k \in Slots : arr_taskptr[k] \in Tasks /\ arr_taskptr[j] = arr_taskptr[k] => j = k

\* What mod_exit has released lies behind its index.
FreedInv ==
  ~Atomic =>
    /\ ctl \in InitCtl \cup {"init", "set", "loaded"} => \A t \in Tasks : tpc[t] # "freed"
    /\ ctl \in {"stop", "join", "exitstore"} =>
         \A k \in Slots : arr_taskptr[k] \in Tasks /\ tpc[arr_taskptr[k]] = "freed" => k < slot
    /\ ctl = "exitnext" =>
         \A k \in Slots : arr_taskptr[k] \in Tasks /\ tpc[arr_taskptr[k]] = "freed" => k <= slot

IInv == TypeOK /\ CountInv /\ DataInv /\ IndexInv /\ ArrInv /\ FreedInv

\* Names of single tests and assignments of the two modules.
USE DEF At, NextIndex, FinalIndex, NewCount, InArray, ctlVars, taskVars, Atomic

-----------------------------------------------------------------------------
\* What the assumption on the constants gives: the sizes, and that tasks, the null
\* entry, error pointers and wild ones are told apart.
LEMMA ConstFacts ==
  /\ N \in Nat /\ Iters \in Nat /\ MaxTasks \in Nat
  /\ \A n \in Nat : (n + 1) % Modulus \in Nat
  /\ 1 <= N /\ 2 <= Iters /\ N <= Iters
  /\ 0 \in Slots
  /\ \A t \in Tasks : t \in Nat /\ t # Null /\ t # Error /\ t # Wild
<1>1. Modulus \in Nat /\ Modulus > 0
  <2>1. N * Iters \in Nat
    BY CoreAssumption
  <2> QED
    BY <2>1, CoreAssumption
<1> QED
  BY <1>1, CoreAssumption DEF Tasks, Slots, Null, Error, Wild

\* Before insmod starts.
LEMMA InitIInv == Init => IInv
<1> SUFFICES ASSUME Init PROVE IInv
  OBVIOUS
<1> USE ConstFacts
<1>1. TypeOK
  BY DEF Init, TypeOK, Counting
<1>2. CountInv /\ DataInv
  BY DEF Init, CountInv, DataInv
<1>3. IndexInv /\ ArrInv /\ FreedInv
  BY DEF Init, IndexInv, ArrInv, FreedInv, InLoop
<1> QED
  BY <1>1, <1>2, <1>3 DEF IInv

-----------------------------------------------------------------------------
(* The steps of insmod and rmmod that leave the tasks alone *)

CtlOnly ==
  \/ ClearIndex("init", "head") \/ ReadSlot \/ IS_ERR \/ kthread_bind
  \/ LoadIndex("next", "store") \/ StoreIndex("store", "head", "set")
  \/ InitOops \/ mod_exit \/ SkipError \/ StopOops
  \/ LoadIndex("exitnext", "exitstore") \/ StoreIndex("exitstore", "stop", "removed")

\* A step of mod_init or mod_exit that moves its index or goes on.
LEMMA CtlStep ==
  ASSUME IInv, CtlOnly
  PROVE  IInv'
<1> USE ConstFacts
<1> TypeOK /\ CountInv /\ DataInv /\ IndexInv /\ ArrInv /\ FreedInv
  BY DEF IInv
<1>1. UNCHANGED <<build, shared_data, arr_taskptr, tpc, reg, count, stop>>
  BY DEF CtlOnly, ClearIndex, ReadSlot, IS_ERR, kthread_bind, LoadIndex, StoreIndex,
     InitOops, Oops, mod_exit, SkipError, StopOops
<1>2. CountInv' /\ DataInv' /\ ArrInv'
  BY <1>1 DEF CountInv, DataInv, ArrInv
<1>3. TypeOK' /\ IndexInv' /\ FreedInv'
  <2>1. CASE ClearIndex("init", "head")
    BY <2>1 DEF ClearIndex, TypeOK, IndexInv, FreedInv, InLoop, InitCtl
  <2>2. CASE ReadSlot
    BY <2>2 DEF ReadSlot, TypeOK, IndexInv, FreedInv, InLoop, InitCtl
  <2>3. CASE IS_ERR
    BY <2>3 DEF IS_ERR, TypeOK, IndexInv, FreedInv, InLoop, InitCtl
  <2>4. CASE kthread_bind
    BY <2>4 DEF kthread_bind, TypeOK, IndexInv, FreedInv, InLoop, InitCtl
  <2>5. CASE LoadIndex("next", "store")
    BY <2>5 DEF LoadIndex, TypeOK, IndexInv, FreedInv, InLoop, InitCtl, Slots
  <2>6. CASE StoreIndex("store", "head", "set")
    BY <2>6 DEF StoreIndex, TypeOK, IndexInv, FreedInv, InLoop, InitCtl, Slots
  <2>7. CASE InitOops
    BY <2>7 DEF InitOops, Oops, TypeOK, IndexInv, FreedInv, InLoop, InitCtl
  <2>8. CASE mod_exit
    BY <2>8 DEF mod_exit, ClearIndex, TypeOK, IndexInv, FreedInv, InLoop, InitCtl
  <2>9. CASE SkipError
    BY <2>9 DEF SkipError, TypeOK, IndexInv, FreedInv, InLoop, InitCtl
  <2>10. CASE StopOops
    BY <2>10 DEF StopOops, Oops, TypeOK, IndexInv, FreedInv, InLoop, InitCtl
  <2>11. CASE LoadIndex("exitnext", "exitstore")
    BY <2>11 DEF LoadIndex, TypeOK, IndexInv, FreedInv, InLoop, InitCtl, Slots
  <2>12. CASE StoreIndex("exitstore", "stop", "removed")
    BY <2>12 DEF StoreIndex, TypeOK, IndexInv, FreedInv, InLoop, InitCtl, Slots
  <2> QED
    BY <2>1, <2>2, <2>3, <2>4, <2>5, <2>6, <2>7, <2>8, <2>9, <2>10, <2>11, <2>12 DEF CtlOnly
<1> QED
  BY <1>2, <1>3 DEF IInv

\* Clearing the counter is no step of the plain build's.
LEMMA SetStep ==
  ASSUME IInv, atomic_set
  PROVE  IInv'
<1> USE ConstFacts
<1> TypeOK /\ CountInv /\ DataInv /\ IndexInv /\ ArrInv /\ FreedInv
  BY DEF IInv
<1>1. UNCHANGED <<build, i, arr_taskptr, slot, tpc, reg, count, stop>>
  BY DEF atomic_set
<1>2. CountInv' /\ ArrInv'
  BY <1>1 DEF CountInv, ArrInv
<1>3. DataInv'
  BY <1>1 DEF atomic_set, DataInv
<1>4. TypeOK' /\ IndexInv' /\ FreedInv'
  BY <1>1 DEF atomic_set, TypeOK, IndexInv, FreedInv, InLoop, InitCtl
<1> QED
  BY <1>2, <1>3, <1>4 DEF IInv

\* A new task goes to an entry that was never written.
LEMMA CreateStep ==
  ASSUME IInv, kthread_create
  PROVE  IInv'
<1> USE ConstFacts
<1> TypeOK /\ CountInv /\ DataInv /\ IndexInv /\ ArrInv /\ FreedInv
  BY DEF IInv
<1>1. /\ ctl = "create" /\ ctl' = "is_err"
      /\ UNCHANGED <<build, i, shared_data, slot, reg, count, stop>>
  BY DEF kthread_create
<1>2. PICK e \in Tasks \cup {Error} :
        /\ arr_taskptr' = [k \in Slots |-> IF k = slot THEN e ELSE arr_taskptr[k]]
        /\ e \in Tasks => tpc[e] = "none" /\ tpc' = [tpc EXCEPT ![e] = "created"]
        /\ e = Error => tpc' = tpc
  BY DEF kthread_create, Unused
<1>3. tpc' \in [Tasks -> {"none", "created", "woken", "wait", "done", "freed"} \cup Counting]
  BY <1>2 DEF TypeOK
<1>4. TypeOK'
  BY <1>1, <1>2, <1>3 DEF TypeOK
<1>5. \A t \in Tasks : tpc'[t] = tpc[t] \/ (t = e /\ tpc'[t] = "created" /\ tpc[t] = "none")
  BY <1>2 DEF TypeOK
<1>6. CountInv' /\ DataInv'
  BY <1>1, <1>5 DEF CountInv, DataInv
<1>7. ASSUME build # "atomic" PROVE IndexInv' /\ ArrInv' /\ FreedInv'
  <2>1. /\ slot \in Slots /\ slot <= i
        /\ \A k \in Slots : slot <= k => arr_taskptr[k] = Null
    BY <1>1, <1>7 DEF IndexInv, InLoop
  <2>2. arr_taskptr'[slot] = e /\ \A k \in Slots : k # slot => arr_taskptr'[k] = arr_taskptr[k]
    BY <1>2, <2>1
  <2>3. IndexInv'
    BY <1>1, <2>1, <2>2 DEF IndexInv, InLoop, Slots
  <2>4. \A k \in Slots : arr_taskptr[k] \in Tasks => arr_taskptr[k] # e
    BY <1>2, <1>7 DEF ArrInv
  <2>5. ASSUME NEW t \in Tasks, tpc'[t] # "none" PROVE \E k \in Slots : arr_taskptr'[k] = t
    <3>1. CASE t = e
      BY <2>1, <2>2, <3>1
    <3>2. CASE t # e
      <4>1. PICK k \in Slots : arr_taskptr[k] = t
        BY <1>5, <1>7, <2>5, <3>2 DEF ArrInv
      <4>2. k # slot
        BY <2>1, <4>1 DEF Slots
      <4> QED
        BY <2>2, <4>1, <4>2
    <3> QED
      BY <3>1, <3>2
  <2>6. ASSUME NEW k \in Slots, arr_taskptr'[k] \in Tasks
        PROVE  tpc'[arr_taskptr'[k]] # "none"
    <3>1. CASE k = slot
      BY <1>2, <2>2, <2>6, <3>1 DEF TypeOK
    <3>2. CASE k # slot
      BY <1>5, <1>7, <2>2, <2>6, <3>2 DEF ArrInv
    <3> QED
      BY <3>1, <3>2
  <2>7. ASSUME NEW j \in Slots, NEW k \in Slots,
               arr_taskptr'[k] \in Tasks, arr_taskptr'[j] = arr_taskptr'[k]
        PROVE  j = k
    BY <1>7, <2>2, <2>4, <2>7 DEF ArrInv
  <2>8. ArrInv'
    BY <2>5, <2>6, <2>7 DEF ArrInv
  <2>9. FreedInv'
    BY <1>1, <1>5, <1>7 DEF FreedInv, InitCtl
  <2> QED
    BY <2>3, <2>8, <2>9
<1>8. CASE build = "atomic"
  BY <1>1, <1>6, <1>4, <1>8 DEF IInv, IndexInv, ArrInv, FreedInv
<1> QED
  BY <1>4, <1>6, <1>7, <1>8 DEF IInv

\* A wake-up, the start of kthread_stop, and its end: a task changes its place,
\* and no entry is written.
LEMMA WakeStep ==
  ASSUME IInv, wake_up_process \/ kthread_stop \/ Join
  PROVE  IInv'
<1> USE ConstFacts
<1> TypeOK /\ CountInv /\ DataInv /\ IndexInv /\ ArrInv /\ FreedInv
  BY DEF IInv
<1>1. UNCHANGED <<build, i, shared_data, arr_taskptr, slot, reg, count>>
  BY DEF wake_up_process, kthread_stop, Join
<1>2. \A t \in Tasks :
        \/ tpc'[t] = tpc[t]
        \/ tpc[t] = "created" /\ tpc'[t] = "woken"
        \/ tpc[t] = "done" /\ tpc'[t] = "freed"
  BY DEF wake_up_process, kthread_stop, Join, TypeOK
<1>3. TypeOK'
  BY DEF wake_up_process, kthread_stop, Join, TypeOK
<1>4. CountInv'
  BY <1>1, <1>2 DEF CountInv
<1>5. DataInv'
  BY <1>1, <1>2 DEF DataInv
<1>6. ArrInv'
  BY <1>1, <1>2 DEF ArrInv
<1>7. IndexInv'
  BY <1>1 DEF wake_up_process, kthread_stop, Join, IndexInv, InLoop
<1>8. FreedInv'
  <2>1. CASE wake_up_process
    BY <2>1 DEF wake_up_process, FreedInv, InitCtl, TypeOK
  <2>2. CASE kthread_stop
    BY <2>2 DEF kthread_stop, FreedInv, InitCtl, TypeOK
  <2>3. CASE Join
    <3> SUFFICES ASSUME build # "atomic", NEW k \in Slots,
                        arr_taskptr[k] \in Tasks, tpc'[arr_taskptr[k]] = "freed"
                 PROVE  k <= slot
      BY <1>1, <2>3 DEF Join, FreedInv, InitCtl
    <3>1. slot \in Slots /\ Entry(slot) = arr_taskptr[slot]
      BY <2>3 DEF Join, IndexInv, InLoop, Entry
    <3>2. CASE tpc[arr_taskptr[k]] = "freed"
      BY <2>3, <3>1, <3>2 DEF Join, FreedInv, Slots
    <3>3. CASE tpc[arr_taskptr[k]] # "freed"
      <4>1. arr_taskptr[k] = arr_taskptr[slot]
        BY <2>3, <3>1, <3>3 DEF Join, TypeOK
      <4>2. k = slot
        BY <3>1, <4>1 DEF ArrInv
      <4> QED
        BY <4>2 DEF Slots
    <3> QED
      BY <3>2, <3>3
  <2> QED
    BY <2>1, <2>2, <2>3
<1> QED
  BY <1>3, <1>4, <1>5, <1>6, <1>7, <1>8 DEF IInv

-----------------------------------------------------------------------------
(* The steps of a task *)

\* What the steps of a task do to its place and to the index.
LEMMA TaskPlaces ==
  ASSUME IInv, NEW t \in Tasks, boring_func(t)
  PROVE  /\ UNCHANGED <<build, ctl, slot, arr_taskptr, stop>>
         /\ tpc[t] \notin {"none", "freed"} /\ tpc'[t] \notin {"none", "created", "woken", "freed"}
         /\ \A u \in Tasks \ {t} : tpc'[u] = tpc[u]
         /\ i' \in Nat
         /\ ~Atomic => i' = i \/ i' = Iters
         /\ ctl # "removed"
<1> USE ConstFacts
<1> TypeOK /\ CountInv
  BY DEF IInv
<1>1. CASE Begin(t) \/ End(t)
  BY <1>1 DEF Begin, End, Run, TypeOK
<1>2. CASE LoadData(t) \/ atomic_add(t) \/ ReadIndex(t)
  BY <1>2 DEF LoadData, atomic_add, ReadIndex, Run, TypeOK
<1>3. CASE StoreData(t) \/ SetIndex(t)
  BY <1>3 DEF StoreData, SetIndex, Run, TypeOK
<1>4. CASE WriteIndex(t)
  <2>1. Atomic
    BY <1>4 DEF WriteIndex, Run, CountInv
  <2> QED
    BY <1>4, <2>1 DEF WriteIndex, Run, TypeOK
<1> QED
  BY <1>1, <1>2, <1>3, <1>4 DEF boring_func

\* The steps of a task keep the types and its count.
LEMMA TaskType ==
  ASSUME IInv, NEW t \in Tasks, boring_func(t)
  PROVE  TypeOK' /\ CountInv'
<1> USE ConstFacts
<1> TypeOK /\ CountInv
  BY DEF IInv
<1>1. CASE Begin(t) \/ End(t)
  BY <1>1 DEF Begin, End, Run, TypeOK, CountInv, Counting
<1>2. CASE LoadData(t) \/ atomic_add(t) \/ ReadIndex(t)
  BY <1>2 DEF LoadData, atomic_add, ReadIndex, Run, TypeOK, CountInv, Counting
<1>3. CASE StoreData(t)
  <2>1. count[t] < Iters /\ ~Atomic
    BY <1>3 DEF StoreData, Run, CountInv
  <2>2. count' \in [Tasks -> 0..Iters]
    BY <1>3, <2>1 DEF StoreData, TypeOK
  <2>3. TypeOK'
    BY <1>3, <2>2 DEF StoreData, Run, TypeOK, Counting
  <2>4. CountInv'
    BY <1>3, <2>1 DEF StoreData, Run, TypeOK, CountInv
  <2> QED
    BY <2>3, <2>4
<1>4. CASE SetIndex(t)
  BY <1>4 DEF SetIndex, Run, TypeOK, CountInv, Counting
<1>5. CASE WriteIndex(t)
  <2>1. Atomic
    BY <1>5 DEF WriteIndex, Run, CountInv
  <2> QED
    BY <1>5, <2>1 DEF WriteIndex, Run, TypeOK, CountInv, Counting
<1> QED
  BY <1>1, <1>2, <1>3, <1>4, <1>5 DEF boring_func

\* The store of a thread that is alone is exact; the store of one that has
\* stored before is at least two.
LEMMA TaskData ==
  ASSUME IInv, NEW t \in Tasks, boring_func(t)
  PROVE  DataInv'
<1> USE ConstFacts
<1> TypeOK /\ CountInv /\ DataInv
  BY DEF IInv
<1> SUFFICES ASSUME ~Atomic PROVE DataInv'
  BY TaskPlaces DEF DataInv
<1>1. CASE Begin(t) \/ End(t) \/ SetIndex(t)
  BY <1>1 DEF Begin, End, SetIndex, Run, TypeOK, DataInv
<1>2. CASE LoadData(t)
  BY <1>2 DEF LoadData, Run, TypeOK, DataInv
<1>3. CASE StoreData(t)
  <2>1. /\ tpc[t] = "inc" /\ shared_data' = reg[t] + 1 /\ count'[t] = count[t] + 1
        /\ reg' = reg /\ reg[t] \in Nat /\ count[t] \in Nat /\ count[t] < Iters
        /\ tpc'[t] # "inc"
    BY <1>3 DEF StoreData, Run, CountInv, TypeOK
  <2>2. \A u \in Tasks : u # t => count'[u] = count[u] /\ tpc'[u] = tpc[u]
    BY <1>3 DEF StoreData, Run, TypeOK
  <2>3. ASSUME NEW v \in Tasks, \A u \in Tasks \ {v} : count'[u] = 0
        PROVE  shared_data' = count'[v] /\ (tpc'[v] = "inc" => reg'[v] = shared_data')
    <3>1. v = t
      BY <2>1, <2>3
    <3>2. shared_data = count[t] /\ reg[t] = shared_data
      BY <2>1, <2>2, <2>3, <3>1 DEF DataInv
    <3> QED
      BY <2>1, <3>1, <3>2
  <2>4. shared_data' >= 1
    BY <2>1
  <2>5. ASSUME NEW v \in Tasks, tpc'[v] = "inc", count'[v] >= 1 PROVE reg'[v] >= 1
    BY <2>1, <2>2, <2>5 DEF DataInv
  <2>6. ASSUME \A u \in Tasks : count'[u] \in {0, Iters} PROVE shared_data' >= 2
    <3>1. count[t] >= 1
      BY <2>1, <2>6
    <3>2. reg[t] >= 1
      BY <2>1, <3>1 DEF DataInv
    <3> QED
      BY <2>1, <3>2
  <2> QED
    BY <2>3, <2>4, <2>5, <2>6 DEF DataInv
<1>4. CASE atomic_add(t) \/ ReadIndex(t) \/ WriteIndex(t)
  BY <1>4 DEF atomic_add, ReadIndex, WriteIndex, Run, TypeOK, DataInv
<1> QED
  BY <1>1, <1>2, <1>3, <1>4 DEF boring_func

\* A thread writes Iters to the index, which is past the array.
LEMMA TaskStep ==
  ASSUME IInv, NEW t \in Tasks, boring_func(t)
  PROVE  IInv'
<1> USE ConstFacts
<1> TypeOK /\ IndexInv /\ ArrInv /\ FreedInv
  BY DEF IInv
<1>1. /\ UNCHANGED <<build, ctl, slot, arr_taskptr, stop>>
      /\ tpc[t] \notin {"none", "freed"} /\ tpc'[t] \notin {"none", "freed"}
      /\ \A u \in Tasks \ {t} : tpc'[u] = tpc[u]
      /\ ~Atomic => i' = i \/ i' = Iters
  BY TaskPlaces
<1>2. IndexInv'
  BY <1>1 DEF IndexInv, InLoop, Slots, TypeOK
<1>3. ArrInv'
  BY <1>1 DEF ArrInv
<1>4. FreedInv'
  BY <1>1 DEF FreedInv, InitCtl
<1> QED
  BY <1>2, <1>3, <1>4, TaskType, TaskData DEF IInv

-----------------------------------------------------------------------------
(* The theorems *)

\* The inductive invariant the others follow from.
THEOREM Inductive == Spec => []IInv
<1>1. Init => IInv
  BY InitIInv
<1>2. IInv /\ [Next]_vars => IInv'
  <2> SUFFICES ASSUME IInv, [Next]_vars PROVE IInv'
    OBVIOUS
  <2>1. CASE mod_init
    BY <2>1, CtlStep, SetStep, CreateStep, WakeStep DEF mod_init, CtlOnly
  <2>2. CASE mod_exit \/ Unload
    BY <2>2, CtlStep, WakeStep DEF Unload, CtlOnly
  <2>3. ASSUME NEW t \in Tasks, boring_func(t) PROVE IInv'
    BY <2>3, TaskStep
  <2>4. CASE UNCHANGED vars
    BY <2>4 DEF vars, IInv, TypeOK, CountInv, DataInv, IndexInv, ArrInv, FreedInv
  <2> QED
    BY <2>1, <2>2, <2>3, <2>4 DEF Next
<1> QED
  BY <1>1, <1>2, PTL DEF Spec

\* Every variable keeps its type; the index of mod_exit stays inside the array.
THEOREM TypeCorrect == Spec => []TypeOK
<1>1. IInv => TypeOK
  BY DEF IInv
<1> QED
  BY <1>1, Inductive, PTL

\* The bounds on the racing counter, for any number of threads and rounds.
THEOREM TotalIsBounded == Spec => []TotalBounds
<1>1. IInv => TotalBounds
  BY DEF IInv, DataInv, TotalBounds
<1> QED
  BY <1>1, Inductive, PTL

\* No task of the plain build is forgotten or stopped twice.
THEOREM NoTaskIsLost == Spec => []NoTaskLost
<1>1. IInv => NoTaskLost
  <2> SUFFICES ASSUME IInv, ~Atomic, ctl = "stop", NEW t \in Tasks, Entry(slot) = t
               PROVE  tpc[t] # "freed"
    BY DEF IInv, ArrInv, NoTaskLost
  <2>1. slot \in Slots /\ arr_taskptr[slot] = t
    BY DEF IInv, TypeOK, Entry
  <2> QED
    BY <2>1 DEF IInv, FreedInv, Slots
<1> QED
  BY <1>1, Inductive, PTL
=============================================================================
