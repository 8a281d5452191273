----------------------------- MODULE CoreThread -----------------------------
(***************************************************************************)
(* The two modules of studio 8: core_thread.c, whose threads increment a    *)
(* plain int, and core_thread_atomic.c, where it is an atomic_t.  Both are   *)
(* modelled here; `build' says which one runs.                              *)
(*                                                                         *)
(* All loops of a module, in mod_init, in mod_exit and in every thread, use  *)
(* one static variable i.  It is not volatile, so which of its accesses      *)
(* reach memory is the compiler's choice; the model takes the accesses of    *)
(* the repository's object files.  In core_thread.o a thread counts in a     *)
(* register and writes i once, after its loop.  In core_thread_atomic.o it   *)
(* clears i, and loads and stores it in every round.  mod_init and mod_exit  *)
(* load i again after every call they make.                                 *)
(***************************************************************************)
EXTENDS Integers

CONSTANTS
  N,         \* entries of arr_taskptr, 4 in the code
  Iters,     \* iters, 1000000 in the code
  MaxTasks,  \* bound on the tasks kthread_create can make
  Modulus,   \* the range of an atomic_t, 2^32 on the machine
  Builds     \* the modules that may run

\* The loops of the threads are longer than those over arr_taskptr.
ASSUME CoreAssumption ==
  /\ N \in Nat \ {0}
  /\ Iters \in Nat /\ Iters >= 2 /\ Iters >= N
  /\ MaxTasks \in Nat
  /\ Modulus \in Nat /\ Modulus > N * Iters
  /\ Builds \subseteq {"plain", "atomic"}

Tasks == 1..MaxTasks
Slots == 0..N - 1
Null  == 0              \* an entry that was never written
Error == MaxTasks + 1   \* an ERR_PTR
Wild  == MaxTasks + 2   \* what lies beyond the array

VARIABLES
  build,
  i,            \* the loop index everyone shares
  shared_data,
  arr_taskptr,
  ctl,          \* where mod_init or mod_exit is
  slot,         \* the index it holds in a register
  tpc,          \* where each task is
  reg,          \* the value a task has loaded: shared_data or i
  count,        \* rounds a task of the plain build has counted
  stop          \* KTHREAD_SHOULD_STOP

vars == <<build, i, shared_data, arr_taskptr, ctl, slot, tpc, reg, count, stop>>
ctlVars  == <<arr_taskptr, ctl, slot>>
taskVars == <<tpc, reg, count, stop>>

Atomic == build = "atomic"
Unused == {t \in Tasks : tpc[t] = "none"}

-----------------------------------------------------------------------------
(* Mutated forms of the operators that follow, for showing that a property    *)
(* depends on them; no action uses one.                                      *)

\* A thread writes the index back as it found it, or clears it after its loop.
NextIndex_NotAdvanced(v) == v
FinalIndex_Cleared == 0

\* The counter takes what a thread has loaded.
NewCount_NotAdvanced(v) == v

-----------------------------------------------------------------------------
NextIndex(v) == v + 1
FinalIndex == Iters
NewCount(v) == v + 1
InArray(k) == k < N

\* The entry an index stands for.
Entry(k) == IF k \in Slots THEN arr_taskptr[k] ELSE Wild

Init ==
  /\ build \in Builds
  /\ i = 0
  /\ shared_data = 0
  /\ arr_taskptr = [k \in Slots |-> Null]
  /\ ctl = "init"
  /\ slot = 0
  /\ tpc   = [t \in Tasks |-> "none"]
  /\ reg   = [t \in Tasks |-> 0]
  /\ count = [t \in Tasks |-> 0]
  /\ stop  = [t \in Tasks |-> FALSE]

-----------------------------------------------------------------------------
(* The loops of mod_init and mod_exit *)

At(here, there) == ctl = here /\ ctl' = there

\* The start of a loop.
ClearIndex(here, there) ==
  /\ At(here, there)
  /\ i' = 0 /\ slot' = 0
  /\ UNCHANGED <<build, shared_data, arr_taskptr, taskVars>>

\* The end of a round: ++i is a load and a store.
LoadIndex(here, there) ==
  /\ At(here, there)
  /\ slot' = i + 1
  /\ UNCHANGED <<build, i, shared_data, arr_taskptr, taskVars>>
StoreIndex(here, again, after) ==
  /\ ctl = here
  /\ i' = slot
  /\ ctl' = IF InArray(slot) THEN again ELSE after
  /\ UNCHANGED <<build, shared_data, arr_taskptr, slot, taskVars>>

\* A bad pointer kills insmod or rmmod; the module stays as it is, and the
\* threads go on.
Oops(here) ==
  /\ At(here, "oops")
  /\ UNCHANGED <<build, i, shared_data, arr_taskptr, slot, taskVars>>

-----------------------------------------------------------------------------
(* mod_init *)

\* The index of the entry to fill, which core_thread.o has in its register.
ReadSlot ==
  /\ At("head", "create")
  /\ slot' = IF Atomic THEN i ELSE slot
  /\ UNCHANGED <<build, i, shared_data, arr_taskptr, taskVars>>

\* The new task sleeps until it is woken.  A store beyond the array is lost, or
\* an Oops.
kthread_create ==
  /\ At("create", "is_err")
  /\ \/ UNCHANGED tpc
        /\ arr_taskptr' = [k \in Slots |-> IF k = slot THEN Error ELSE arr_taskptr[k]]
     \/ \E t \in Unused :
          /\ \A u \in Unused : t <= u
          /\ tpc' = [tpc EXCEPT ![t] = "created"]
          /\ arr_taskptr' = [k \in Slots |-> IF k = slot THEN t ELSE arr_taskptr[k]]
  /\ UNCHANGED <<build, i, shared_data, slot, reg, count, stop>>

IS_ERR ==
  /\ ctl = "is_err"
  /\ \/ Entry(i) \in {Error, Wild} /\ ctl' = "next"
     \/ Entry(i) # Error /\ ctl' = "wake"
  /\ UNCHANGED <<build, i, shared_data, arr_taskptr, slot, taskVars>>

wake_up_process ==
  /\ At("wake", "bind")
  /\ Entry(i) \in Tasks
  /\ tpc' = [tpc EXCEPT ![Entry(i)] = IF @ = "created" THEN "woken" ELSE @]
  /\ UNCHANGED <<build, i, shared_data, arr_taskptr, slot, reg, count, stop>>

\* The task is awake already: kthread_bind warns and does not bind it.
kthread_bind ==
  /\ At("bind", "next")
  /\ Entry(i) \in Tasks
  /\ UNCHANGED <<build, i, shared_data, arr_taskptr, slot, taskVars>>

\* wake_up_process and kthread_bind take any pointer, kthread_create any index.
InitOops ==
  \/ ctl \in {"wake", "bind"} /\ Entry(i) \notin Tasks /\ Oops(ctl)
  \/ ctl = "is_err" /\ Entry(i) = Wild /\ Oops(ctl)
  \/ ctl = "create" /\ slot \notin Slots /\ Oops(ctl)

\* core_thread_atomic.c clears the counter last.
atomic_set ==
  /\ At("set", "loaded")
  /\ shared_data' = IF Atomic THEN 0 ELSE shared_data
  /\ UNCHANGED <<build, i, arr_taskptr, slot, taskVars>>

mod_init ==
  \/ ClearIndex("init", "head")
  \/ ReadSlot \/ kthread_create \/ IS_ERR \/ wake_up_process \/ kthread_bind
  \/ LoadIndex("next", "store") \/ StoreIndex("store", "head", "set")
  \/ atomic_set
  \/ InitOops

-----------------------------------------------------------------------------
(* mod_exit *)

mod_exit == ctl = "loaded" /\ ClearIndex("loaded", "stop")

\* kthread_stop sets the flag, wakes the task and waits for its end.
kthread_stop ==
  /\ At("stop", "join")
  /\ Entry(slot) \in Tasks
  /\ LET t == Entry(slot) IN
       /\ tpc[t] # "freed"
       /\ stop' = [stop EXCEPT ![t] = TRUE]
       /\ tpc' = [tpc EXCEPT ![t] = IF @ = "created" THEN "woken" ELSE @]
  /\ UNCHANGED <<build, i, shared_data, arr_taskptr, slot, reg, count>>

Join ==
  /\ At("join", "exitnext")
  /\ tpc[Entry(slot)] = "done"
  /\ tpc' = [tpc EXCEPT ![Entry(slot)] = "freed"]
  /\ UNCHANGED <<build, i, shared_data, arr_taskptr, slot, reg, count, stop>>

\* core_thread_atomic.c leaves out the error pointers.
SkipError ==
  /\ At("stop", "exitnext")
  /\ Atomic /\ Entry(slot) = Error
  /\ UNCHANGED <<build, i, shared_data, arr_taskptr, slot, taskVars>>

\* What is not a task, or a task no longer.
StopOops ==
  /\ Oops("stop")
  /\ \/ Entry(slot) \in {Null, Wild}
     \/ Entry(slot) = Error /\ ~Atomic
     \/ \E t \in Tasks : Entry(slot) = t /\ tpc[t] = "freed"

Unload ==
  \/ kthread_stop \/ Join \/ SkipError \/ StopOops
  \/ LoadIndex("exitnext", "exitstore") \/ StoreIndex("exitstore", "stop", "removed")

-----------------------------------------------------------------------------
(* boring_func.  When the module is removed no task runs its code any more.   *)

Run(t, here, there) ==
  /\ ctl # "removed"
  /\ tpc[t] = here
  /\ tpc' = [tpc EXCEPT ![t] = there]
  /\ UNCHANGED <<build, ctlVars, stop>>

\* A task that was stopped before it ran does not call boring_func.
Begin(t) ==
  /\ ~stop[t]
  /\ Run(t, "woken", "add")
  /\ i' = IF Atomic THEN 0 ELSE i
  /\ UNCHANGED <<shared_data, reg, count>>

\* shared_data++ is a load and a store.  The int is never near its limit.
LoadData(t) ==
  /\ ~Atomic
  /\ Run(t, "add", "inc")
  /\ reg' = [reg EXCEPT ![t] = shared_data]
  /\ UNCHANGED <<i, shared_data, count>>
StoreData(t) ==
  /\ Run(t, "inc", IF count[t] + 1 = Iters THEN "index" ELSE "add")
  /\ shared_data' = NewCount(reg[t])
  /\ count' = [count EXCEPT ![t] = @ + 1]
  /\ UNCHANGED <<i, reg>>

\* The loop of core_thread.o is over: its index goes to memory.
SetIndex(t) ==
  /\ Run(t, "index", "wait")
  /\ i' = FinalIndex
  /\ UNCHANGED <<shared_data, reg, count>>

atomic_add(t) ==
  /\ Atomic
  /\ Run(t, "add", "load")
  /\ shared_data' = (shared_data + 1) % Modulus
  /\ UNCHANGED <<i, reg, count>>

\* i++ and the test of the loop of core_thread_atomic.o.
ReadIndex(t) ==
  /\ Run(t, "load", "store")
  /\ reg' = [reg EXCEPT ![t] = i]
  /\ UNCHANGED <<i, shared_data, count>>
WriteIndex(t) ==
  /\ Run(t, "store", IF NextIndex(reg[t]) < Iters THEN "add" ELSE "wait")
  /\ i' = NextIndex(reg[t])
  /\ UNCHANGED <<shared_data, reg, count>>

\* kthread_should_stop ends the loop around schedule, or the task's wrapper.
End(t) ==
  /\ stop[t]
  /\ Run(t, "wait", "done") \/ Run(t, "woken", "done")
  /\ UNCHANGED <<i, shared_data, reg, count>>

boring_func(t) ==
  \/ Begin(t) \/ LoadData(t) \/ StoreData(t) \/ SetIndex(t)
  \/ atomic_add(t) \/ ReadIndex(t) \/ WriteIndex(t)
  \/ End(t)

Next ==
  \/ mod_init \/ mod_exit \/ Unload
  \/ \E t \in Tasks : boring_func(t)

Spec == Init /\ [][Next]_vars

\* The tasks are created for all processors and the kernel is preemptive: it
\* runs each of them, and insmod and rmmod.  Nobody has to remove the module.
FairSpec ==
  /\ Spec
  /\ WF_vars(mod_init) /\ WF_vars(Unload)
  /\ \A t \in Tasks : WF_vars(boring_func(t))

-----------------------------------------------------------------------------
Counting == {"add", "inc", "index", "load", "store"}

TypeOK ==
  /\ build \in Builds
  /\ i \in Nat
  /\ shared_data \in Nat
  /\ arr_taskptr \in [Slots -> Tasks \cup {Null, Error}]
  /\ ctl \in {"init", "head", "create", "is_err", "wake", "bind", "next", "store", "set",
              "loaded", "stop", "join", "exitnext", "exitstore", "removed", "oops"}
  /\ slot \in Nat
  /\ ctl \in {"stop", "join"} => slot \in Slots
  /\ tpc \in [Tasks -> {"none", "created", "woken", "wait", "done", "freed"} \cup Counting]
  /\ reg \in [Tasks -> Nat]
  /\ count \in [Tasks -> 0..Iters]
  /\ stop \in [Tasks -> BOOLEAN]

\* The counter of core_thread.c: a thread that has it for itself loses
\* nothing; with others it may lose nearly everything, but once somebody has
\* finished and nobody is half way, two increments are left.
TotalBounds ==
  ~Atomic =>
    /\ \A t \in Tasks :
         (\A u \in Tasks \ {t} : count[u] = 0) => shared_data = count[t]
    /\ (\E t \in Tasks : count[t] = Iters) /\ (\A t \in Tasks : count[t] \in {0, Iters})
         => shared_data >= 2

\* Of core_thread.c no task is forgotten or stopped twice: whatever the threads
\* do to i meanwhile, it never sends mod_init or mod_exit back to an entry it
\* has already filled or stopped.
NoTaskLost ==
  ~Atomic =>
    /\ \A t \in Tasks : tpc[t] # "none" => \E k \in Slots : arr_taskptr[k] = t
    /\ ctl = "stop" => \A t \in Tasks : Entry(slot) = t => tpc[t] # "freed"

\* A thread that has begun to count comes to the end of its loop, also where
\* others move its index, unless the module is removed under it.
CountingEnds ==
  \A t \in Tasks : tpc[t] \in Counting ~> tpc[t] \notin Counting \/ ctl = "removed"

\* The counter of core_thread_atomic.c: safe from races, so that with all
\* threads created and at their ends it has counted every round.
CountExact ==
  Atomic /\ ctl = "loaded" /\ (\A k \in Slots : arr_taskptr[k] \in Tasks)
    /\ (\A t \in Tasks : tpc[t] \in {"none", "wait"})
  => shared_data = N * Iters
=============================================================================
