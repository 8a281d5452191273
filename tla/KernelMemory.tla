---------------------------- MODULE KernelMemory ----------------------------
(***************************************************************************)
(* Studio 12 (studios/studio12/kernel_memory.c): a kernel thread computes    *)
(* how many pages nr_structs structs need, allocates a power of two of them  *)
(* and fills them; kernel_memory_exit stops the thread, checks what it finds *)
(* in the pages and frees them.                                             *)
(*                                                                         *)
(* What interleaves are insmod or rmmod, the thread, and a user who writes   *)
(* the parameter nr_structs.  The thread loads nr_structs once, as           *)
(* kernel_memory.o does.  An order is represented by its number of pages:    *)
(* the variable `order' is 2^order.                                         *)
(***************************************************************************)
EXTENDS Integers

CONSTANTS
  PerPage,     \* structs in a page, 128 in the code
  MaxStructs,  \* the largest nr_structs, 2^32 - 1 in the code
  Width        \* bits of an unsigned int

\* The powers of two of an unsigned int, and the first that is none.
PowerOf2[k \in 0..Width] == IF k = 0 THEN 1 ELSE 2 * PowerOf2[k - 1]
Powers == {PowerOf2[k] : k \in 0..Width}

ASSUME MemAssumption ==
  /\ PerPage \in Nat \ {0}
  /\ Width \in Nat
  /\ MaxStructs \in Nat /\ MaxStructs < PowerOf2[Width]

VARIABLES
  nr_structs,  \* the module parameter
  nr_pages,
  order,
  pages,       \* the number of pages at the pointer, 0 when it is null
  allocated,   \* pages the module has allocated and not freed
  filled,      \* indices of the pages thread_fn has written
  clean,       \* what kernel_memory_exit has found so far: cleanData
  mctl,        \* where kernel_memory_init or kernel_memory_exit is
  mpc,         \* where the thread is
  mstop,       \* its KTHREAD_SHOULD_STOP flag
  value,       \* local of my_get_order
  mi,          \* index of the page loop of the thread
  me           \* index of the page loop of kernel_memory_exit

sizeVars == <<nr_structs, nr_pages, order>>
pageVars == <<pages, allocated, filled, clean>>
exitVars == <<mctl, mstop, me>>
memVars  == <<nr_structs, nr_pages, order, pages, allocated, filled, clean, mctl, mpc,
              mstop, value, mi, me>>

-----------------------------------------------------------------------------
(* Mutated forms of the operators that follow, for showing that a property    *)
(* depends on them; no action uses one.                                      *)

\* my_get_order rounds down.
StartValue_Half(n) == n \div 2

\* The loop of the thread leaves out the last page.
LastPage_Early(k) == k + 2 >= nr_pages

\* The thread waits for its stop without asking for it.
StopSeen_Never == FALSE

-----------------------------------------------------------------------------
\* The pages for n structs.
PagesFor(n) == n \div PerPage + (IF n % PerPage = 0 THEN 0 ELSE 1)

\* What the loop of my_get_order starts from.
StartValue(n) == IF n \in Powers THEN n - 1 ELSE n

LastPage(k) == k + 1 >= nr_pages
FreeSize == order
StopSeen == mstop

MemInit ==
  /\ nr_structs \in 0..MaxStructs
  /\ nr_pages = 0
  /\ order = 1
  /\ pages = 0
  /\ allocated = 0
  /\ filled = {}
  /\ clean = TRUE
  /\ mctl = "create"
  /\ mpc = "none"
  /\ mstop = FALSE
  /\ value = 0
  /\ mi = 0
  /\ me = 0

\* The parameter can be written while the module is there (mode 0644).
SetNrStructs ==
  /\ mctl \notin {"failed", "removed"}
  /\ nr_structs' \in 0..MaxStructs
  /\ UNCHANGED <<nr_pages, order, pageVars, exitVars, mpc, value, mi>>

-----------------------------------------------------------------------------
(* kernel_memory_init *)

\* Without its thread the module is not loaded.
CreateMemThread ==
  /\ mctl = "create"
  /\ \/ mctl' = "wake" /\ mpc' = "created"
     \/ mctl' = "failed" /\ UNCHANGED mpc
  /\ UNCHANGED <<sizeVars, pageVars, mstop, value, mi, me>>

WakeMemThread ==
  /\ mctl = "wake"
  /\ mctl' = "loaded"
  /\ mpc' = "woken"
  /\ UNCHANGED <<sizeVars, pageVars, mstop, value, mi, me>>

-----------------------------------------------------------------------------
(* The thread *)

\* Its wrapper does not call thread_fn when it was stopped before it ran.
StartMemThread ==
  /\ mpc = "woken"
  /\ mpc' = IF mstop THEN "done" ELSE "size"
  /\ UNCHANGED <<sizeVars, pageVars, exitVars, value, mi>>

\* The number of pages, and the beginning of my_get_order.
CountPages ==
  /\ mpc = "size"
  /\ nr_pages' = PagesFor(nr_structs)
  /\ value' = IF nr_pages' = 0 THEN 0 ELSE StartValue(nr_pages')
  /\ mpc' = "order"
  /\ UNCHANGED <<nr_structs, order, pageVars, exitVars, mi>>

\* A round of its loop.
ShiftOrder ==
  /\ mpc = "order"
  /\ value > 0
  /\ value' = value \div 2
  /\ order' = 2 * order
  /\ UNCHANGED <<nr_structs, nr_pages, pageVars, exitVars, mpc, mi>>

\* What follows the allocation: the loop over the pages, if there is any.
AfterAlloc == mpc' = IF nr_pages = 0 THEN "spin" ELSE "write"

alloc_pages ==
  /\ mpc = "order"
  /\ value = 0
  /\ pages' = order
  /\ allocated' = allocated + order
  /\ AfterAlloc
  /\ UNCHANGED <<sizeVars, filled, clean, exitVars, value, mi>>

\* The null pointer is reported and kept.
AllocPagesFails ==
  /\ mpc = "order"
  /\ value = 0
  /\ AfterAlloc
  /\ UNCHANGED <<sizeVars, pageVars, exitVars, value, mi>>

WritePage ==
  /\ mpc = "write"
  /\ filled' = filled \cup {mi}
  /\ \/ LastPage(mi) /\ mpc' = "spin" /\ UNCHANGED mi
     \/ ~LastPage(mi) /\ mi' = mi + 1 /\ UNCHANGED mpc
  /\ UNCHANGED <<sizeVars, pages, allocated, clean, exitVars, value>>

\* The address computed from a null pointer need not be mapped: the write may
\* kill the thread.
WriteOops ==
  /\ mpc = "write"
  /\ pages = 0
  /\ mpc' = "killed"
  /\ UNCHANGED <<sizeVars, pageVars, exitVars, value, mi>>

\* The loop around schedule.  The thread stays runnable in it.
SpinUntilStop ==
  /\ mpc = "spin"
  /\ StopSeen
  /\ mpc' = "done"
  /\ UNCHANGED <<sizeVars, pageVars, exitVars, value, mi>>

thread_fn ==
  \/ StartMemThread \/ CountPages \/ ShiftOrder \/ alloc_pages \/ AllocPagesFails
  \/ WritePage \/ WriteOops \/ SpinUntilStop

-----------------------------------------------------------------------------
(* kernel_memory_exit *)

\* rmmod.  kthread_stop sets the flag and waits for the end of the thread.
StopMemThread ==
  /\ mctl = "loaded"
  /\ mctl' = "join"
  /\ mstop' = TRUE
  /\ UNCHANGED <<sizeVars, pageVars, mpc, value, mi, me>>

JoinMemThread ==
  /\ mctl = "join"
  /\ mpc = "done"
  /\ mctl' = "check"
  /\ UNCHANGED <<sizeVars, pageVars, mpc, mstop, value, mi, me>>

\* The task of a thread that was killed is released, and kthread_stop uses it:
\* rmmod is killed too, or it gets through.
JoinReleased ==
  /\ mctl = "join"
  /\ mpc = "killed"
  /\ mctl' \in {"check", "oops"}
  /\ UNCHANGED <<sizeVars, pageVars, mpc, mstop, value, mi, me>>

CheckPage ==
  /\ mctl = "check"
  /\ me < nr_pages
  /\ clean' = (clean /\ me \in filled)
  /\ me' = me + 1
  /\ UNCHANGED <<sizeVars, pages, allocated, filled, mctl, mpc, mstop, value, mi>>

__free_pages ==
  /\ mctl = "check"
  /\ me >= nr_pages
  /\ pages # 0
  /\ allocated' = allocated - FreeSize
  /\ mctl' = "removed"
  /\ UNCHANGED <<sizeVars, pages, filled, clean, mpc, mstop, value, mi, me>>

\* Without an allocation the check reads from nowhere and __free_pages takes
\* the null pointer.
ExitOops ==
  /\ mctl = "check"
  /\ pages = 0
  /\ mctl' = "oops"
  /\ UNCHANGED <<sizeVars, pageVars, mpc, mstop, value, mi, me>>

kernel_memory_exit ==
  JoinMemThread \/ JoinReleased \/ CheckPage \/ __free_pages \/ ExitOops

-----------------------------------------------------------------------------
MemNext ==
  \/ SetNrStructs
  \/ CreateMemThread \/ WakeMemThread
  \/ thread_fn
  \/ StopMemThread \/ kernel_memory_exit

MemSpec == MemInit /\ [][MemNext]_memVars

-----------------------------------------------------------------------------
MemTypeOK ==
  /\ nr_structs \in 0..MaxStructs
  /\ nr_pages \in Nat
  /\ order \in Nat
  /\ pages \in Nat
  /\ allocated \in Nat
  /\ filled \subseteq Nat
  /\ clean \in BOOLEAN
  /\ mctl \in {"create", "wake", "failed", "loaded", "join", "check", "removed", "oops"}
  /\ mpc \in {"none", "created", "woken", "size", "order", "write", "spin", "killed", "done"}
  /\ mstop \in BOOLEAN
  /\ value \in Nat
  /\ mi \in Nat
  /\ me \in Nat

\* thread_fn writes inside its allocation: the order my_get_order returns is large
\* enough and the smallest that is, at powers of two, next to them and at zero.
WritesInside ==
  pages # 0 =>
    /\ filled \subseteq 0..pages - 1
    /\ nr_pages <= pages
    /\ pages = 1 \/ pages < 2 * nr_pages

\* The pages counted hold all the structs asked for, and none is left over, also
\* where nr_structs is written while the module runs.
PagesEnough ==
  [][nr_pages' # nr_pages =>
       /\ nr_structs <= nr_pages' * PerPage
       /\ nr_structs > (nr_pages' - 1) * PerPage]_memVars

\* kernel_memory_exit finds the pages as thread_fn should have left them, if they
\* were allocated: also when the stop comes between the allocation and the last
\* page, and whatever is written to nr_structs meanwhile.
PagesClean == pages # 0 => clean

\* The module leaves no page behind and frees none it does not have.
PagesReturned == mctl = "removed" => allocated = 0

\* rmmod comes to its end where the scheduler runs it and the thread: the thread
\* asks for its stop after every schedule and never sleeps, so the stop is not
\* lost.
UnloadEnds == mctl = "join" ~> mctl \in {"removed", "oops"}
=============================================================================
