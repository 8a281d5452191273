------------------------------- MODULE Paging -------------------------------
(***************************************************************************)
(* The lab 2 kernel module (labs/lab2/mod/paging.c): a misc device whose    *)
(* mmap handler gives a process a VMA that is backed by single pages, one   *)
(* per fault (demand paging) or all of them in the mmap call (prepaging).   *)
(*                                                                         *)
(* A process slot is single threaded, as every program of the repository    *)
(* that opens the device is; a slot is taken by a new process once the old  *)
(* one has exited.  What interleaves are the handlers of different          *)
(* processes: they run in the context of their own process, on an SMP       *)
(* preemptible kernel, and the module takes no lock.  A handler is cut at   *)
(* the calls that allocate (and may sleep) and at each access to the shared  *)
(* list and counters.                                                      *)
(*                                                                         *)
(* list_add is two steps, the load of the head's next pointer and the store  *)
(* of it: what two list_adds that meet do to the list is decided there, for   *)
(* neither changes a node that hangs behind the one it has loaded.  The loop  *)
(* of paging_vma_close frees page by page.  When a close meets another        *)
(* operation on the list, freed nodes are used, and there the model stops    *)
(* (closeMet); RefPageList goes on from there, pointer by pointer.           *)
(***************************************************************************)
EXTENDS Integers, FiniteSets

CONSTANTS
  Procs,     \* process slots
  Vmas,      \* struct vm_area_struct objects
  Pas,       \* struct pa_state_struct objects
  Frames,    \* physical pages
  NPages,    \* pages of a process's address space, numbered 1..NPages
  Modulus,   \* the range of an atomic_t counter, 2^32 on the machine
  CanFail,   \* the kernel calls that may fail
  None

Fallible == {"misc_register", "kmalloc_pas", "alloc_page", "remap_pfn_range",
             "kmalloc_node"}

ASSUME ConstAssumption ==
  /\ None \notin Procs \cup Vmas \cup Pas \cup Frames
  /\ NPages \in Nat \ {0}
  /\ CanFail \subseteq Fallible

\* An atomic_t counts further than there are pages, objects and processes.
ASSUME FiniteAssumption ==
  /\ IsFiniteSet(Procs) /\ IsFiniteSet(Vmas) /\ IsFiniteSet(Pas) /\ IsFiniteSet(Frames)
  /\ Modulus \in Nat
  /\ Cardinality(Frames) < Modulus
  /\ Cardinality(Procs) < Modulus

Addr == 1..NPages

\* Return values of the handlers, with the values of the kernel's headers.
VM_FAULT_OOM    == 1
VM_FAULT_SIGBUS == 2
ENOMEM          == 12

VARIABLES
  module,         \* "new", "loaded" or "removed"
  demand_paging,  \* the module parameter
  pc,             \* where each process is: in user space or in a handler
  prepaging,      \* processes inside the loop of paging_mmap
  exiting,        \* processes whose address space is being torn down
  curVma,         \* the VMA the handler of a process works on
  curAddr,        \* the page do_fault works on
  curPage,        \* the physical page do_fault has allocated
  ret,            \* what the last paging_mmap returned
  owner,          \* process of a VMA, None for an unused VMA object
  cover,          \* pages of the address space a VMA covers
  private,        \* vma->vm_private_data
  pas,            \* the pa_state_structs that are allocated
  ref_count,      \* pas->ref_count
  pte,            \* page table of each process
  used,           \* physical pages the module has allocated and not freed
  ref_page_list,  \* pages on the global list (a node stands for its page)
  seen,           \* the list behind the node that a list_add has loaded
  alloc_count,
  free_count,
  orphans,        \* pages whose node could not be allocated (history)
  addsMet,        \* two list_adds have been under way at once (history)
  closeMet        \* a close and something else on the list have

modVars == <<module, demand_paging>>
ctxVars == <<prepaging, exiting>>
curVars == <<curVma, curAddr, curPage>>
vmaVars == <<owner, cover, private>>
pasVars == <<pas, ref_count>>
metVars == <<addsMet, closeMet>>
listVars == <<ref_page_list, seen, metVars>>
memVars == <<used, orphans, listVars>>
cntVars == <<alloc_count, free_count>>

vars == <<module, demand_paging, pc, prepaging, exiting, curVma, curAddr,
          curPage, ret, owner, cover, private, pas, ref_count, pte, used,
          ref_page_list, seen, alloc_count, free_count, orphans, addsMet, closeMet>>

\* Addition on an atomic_t, one wrap at most.
Wrap(n) == IF n >= Modulus THEN n - Modulus ELSE n

VmasOf(p) == {v \in Vmas : owner[v] = p}

IsRange(S) == S # {} /\ \A a, b \in S : a..b \subseteq S

Goto(p, l) == pc' = [pc EXCEPT ![p] = l]

\* The code of the module can be run, and nothing has gone wrong with its list.
Running == module = "loaded" /\ ~closeMet

\* A list_add or the loop of a close is under way.
Adding(p)  == pc[p] = "add"
Freeing(p) == pc[p] \in {"free", "freed"}

\* The handler of p returns: its local variables are gone.
ClearCur(p) ==
  /\ curVma'  = [curVma  EXCEPT ![p] = None]
  /\ curAddr' = [curAddr EXCEPT ![p] = 0]
  /\ curPage' = [curPage EXCEPT ![p] = None]

\* The kernel clears the page table entries of the pages in S.
Unmap(p, S) ==
  pte' = [pte EXCEPT ![p] = [a \in Addr |-> IF a \in S THEN None ELSE @[a]]]

\* The kernel frees a vm_area_struct.
FreeVma(v) ==
  /\ owner'   = [owner   EXCEPT ![v] = None]
  /\ cover'   = [cover   EXCEPT ![v] = {}]
  /\ private' = [private EXCEPT ![v] = None]

-----------------------------------------------------------------------------
(* Mutated forms of the operators that follow, for showing that a property    *)
(* depends on them; no action uses one.                                      *)

\* The test of paging_vma_close is off by one.
LastRef_OffByOne(s) == ref_count[s] <= 1

\* The loop of paging_vma_close forgets list_del, or __free_page.
FreeNode_NoListDel(f) == used' = used \ {f} /\ UNCHANGED ref_page_list
FreeNode_PageKept(f) == ref_page_list' = ref_page_list \ {f} /\ UNCHANGED used

\* The loop of paging_mmap forgets to advance.
NextAddr_Same(p) == curAddr[p]

-----------------------------------------------------------------------------
\* atomic_inc and atomic_dec of a reference count, and the test for zero.
RefInc(s) == ref_count' = [ref_count EXCEPT ![s] = @ + 1]
RefDec(s) == ref_count' = [ref_count EXCEPT ![s] = @ - 1]
LastRef(s) == ref_count[s] = 0

\* __free_page, list_del and kfree of a node.
FreeNode(f) == used' = used \ {f} /\ ref_page_list' = ref_page_list \ {f}

\* The next address of the loop of paging_mmap.
NextAddr(p) == curAddr[p] + 1

-----------------------------------------------------------------------------
Init ==
  /\ module = "new"
  /\ demand_paging = TRUE
  /\ pc = [p \in Procs |-> "user"]
  /\ prepaging = {}
  /\ exiting = {}
  /\ curVma  = [p \in Procs |-> None]
  /\ curAddr = [p \in Procs |-> 0]
  /\ curPage = [p \in Procs |-> None]
  /\ ret = 0
  /\ owner   = [v \in Vmas |-> None]
  /\ cover   = [v \in Vmas |-> {}]
  /\ private = [v \in Vmas |-> None]
  /\ pas = {}
  /\ ref_count = [s \in Pas |-> 0]
  /\ pte = [p \in Procs |-> [a \in Addr |-> None]]
  /\ used = {}
  /\ ref_page_list = {}
  /\ seen = [p \in Procs |-> {}]
  /\ alloc_count = 0
  /\ free_count = 0
  /\ orphans = {}
  /\ addsMet = FALSE /\ closeMet = FALSE

\* kmod_paging_init, with the module parameter given on the command line.
\* When misc_register fails the module is not loaded.
kmod_paging_init ==
  /\ module = "new"
  /\ alloc_count' = 0 /\ free_count' = 0
  /\ demand_paging' \in BOOLEAN
  /\ module' = "loaded"
  /\ UNCHANGED <<pc, ctxVars, curVars, ret, vmaVars, pasVars, pte, memVars>>

RegisterFails ==
  /\ module = "new"
  /\ "misc_register" \in CanFail
  /\ alloc_count' = 0 /\ free_count' = 0
  /\ UNCHANGED <<modVars, pc, ctxVars, curVars, ret, vmaVars, pasVars, pte,
                 memVars>>

\* kmod_paging_exit.  dev_ops names no owner, so an open file or a mapping
\* does not pin the module: it can be removed at any time.
kmod_paging_exit ==
  /\ Running
  /\ module' = "removed"
  /\ UNCHANGED <<demand_paging, pc, ctxVars, curVars, ret, vmaVars, pasVars,
                 pte, memVars, cntVars>>

\* The parameter is writable (mode 0644) while the module is loaded.
SetDemandPaging ==
  /\ Running
  /\ demand_paging' = ~demand_paging
  /\ UNCHANGED <<module, pc, ctxVars, curVars, ret, vmaVars, pasVars, pte,
                 memVars, cntVars>>

-----------------------------------------------------------------------------
\* paging_mmap up to the prepaging loop.  The kernel has already given the
\* process a VMA over the pages S; under demand paging the handler is done.
paging_mmap(p, v, s, S) ==
  /\ Running
  /\ pc[p] = "user"
  /\ owner[v] = None
  /\ s \notin pas
  /\ IsRange(S)
  /\ \A w \in VmasOf(p) : cover[w] \cap S = {}
  /\ owner'   = [owner   EXCEPT ![v] = p]
  /\ cover'   = [cover   EXCEPT ![v] = S]
  /\ private' = [private EXCEPT ![v] = s]
  /\ pas' = pas \cup {s}
  /\ ref_count' = [ref_count EXCEPT ![s] = 1]
  /\ \/ /\ demand_paging
        /\ ret' = 0
        /\ UNCHANGED <<pc, prepaging, curVars>>
     \/ /\ ~demand_paging
        /\ prepaging' = prepaging \cup {p}
        /\ curVma'  = [curVma  EXCEPT ![p] = v]
        /\ \E start \in S :   \* vma->vm_start
             /\ \A a \in S : start <= a
             /\ curAddr' = [curAddr EXCEPT ![p] = start]
        /\ Goto(p, "alloc")
        /\ UNCHANGED <<curPage, ret>>
  /\ UNCHANGED <<modVars, exiting, pte, memVars, cntVars>>

\* The pa_state_struct cannot be allocated.  The kernel drops the VMA without
\* calling paging_vma_close.
PasFails(p) ==
  /\ Running
  /\ pc[p] = "user"
  /\ "kmalloc_pas" \in CanFail
  /\ ret' = ENOMEM
  /\ UNCHANGED <<modVars, pc, ctxVars, curVars, vmaVars, pasVars, pte, memVars,
                 cntVars>>

\* A process touches a page of a VMA that has no page yet: paging_vma_fault.
paging_vma_fault(p, v, a) ==
  /\ Running
  /\ pc[p] = "user"
  /\ owner[v] = p
  /\ a \in cover[v]
  /\ pte[p][a] = None
  /\ curVma'  = [curVma  EXCEPT ![p] = v]
  /\ curAddr' = [curAddr EXCEPT ![p] = a]
  /\ Goto(p, "alloc")
  /\ UNCHANGED <<modVars, ctxVars, curPage, ret, vmaVars, pasVars, pte, memVars,
                 cntVars>>

-----------------------------------------------------------------------------
(* do_fault, one action per call it makes *)

alloc_page(p) ==
  /\ Running
  /\ pc[p] = "alloc"
  /\ \E f \in Frames \ used :
       /\ used' = used \cup {f}
       /\ curPage' = [curPage EXCEPT ![p] = f]
  /\ Goto(p, "remap")
  /\ UNCHANGED <<modVars, ctxVars, curVma, curAddr, ret, vmaVars, pasVars, pte,
                 orphans, listVars, cntVars>>

remap_pfn_range(p) ==
  /\ Running
  /\ pc[p] = "remap"
  /\ pte' = [pte EXCEPT ![p][curAddr[p]] = curPage[p]]
  /\ Goto(p, "node")
  /\ UNCHANGED <<modVars, ctxVars, curVars, ret, vmaVars, pasVars, memVars,
                 cntVars>>

\* The node is allocated and filled in, and list_add loads what the head points
\* to: the new node will be put before that one.
kmalloc_node(p) ==
  /\ Running
  /\ pc[p] = "node"
  /\ seen' = [seen EXCEPT ![p] = ref_page_list]
  /\ addsMet' = (addsMet \/ \E q \in Procs : Adding(q))
  /\ closeMet' = \E q \in Procs : Freeing(q)
  /\ Goto(p, "add")
  /\ UNCHANGED <<modVars, ctxVars, curVars, ret, vmaVars, pasVars, pte, used,
                 orphans, ref_page_list, cntVars>>

\* list_add makes the head point to the new node: the list is that node and what
\* was there at the load.  What another list_add has put there since is lost.
list_add(p) ==
  /\ Running
  /\ pc[p] = "add"
  /\ ref_page_list' = seen[p] \cup {curPage[p]}
  /\ seen' = [seen EXCEPT ![p] = {}]
  /\ Goto(p, "count")
  /\ UNCHANGED <<modVars, ctxVars, curVars, ret, vmaVars, pasVars, pte, used,
                 orphans, metVars, cntVars>>

\* The allocation is counted and do_fault returns VM_FAULT_NOPAGE: a fault is
\* over, the prepaging loop goes on to the next page or returns 0.
CountAlloc(p) ==
  /\ Running
  /\ pc[p] = "count"
  /\ alloc_count' = Wrap(alloc_count + 1)
  /\ \/ /\ p \in prepaging
        /\ NextAddr(p) \in cover[curVma[p]]
        /\ curAddr' = [curAddr EXCEPT ![p] = NextAddr(p)]
        /\ curPage' = [curPage EXCEPT ![p] = None]
        /\ Goto(p, "alloc")
        /\ UNCHANGED <<prepaging, curVma, ret>>
     \/ /\ p \in prepaging
        /\ NextAddr(p) \notin cover[curVma[p]]
        /\ prepaging' = prepaging \ {p}
        /\ ret' = 0
        /\ ClearCur(p)
        /\ Goto(p, "user")
     \/ /\ p \notin prepaging
        /\ ClearCur(p)
        /\ Goto(p, "user")
        /\ UNCHANGED <<prepaging, ret>>
  /\ UNCHANGED <<modVars, exiting, vmaVars, pasVars, pte, memVars, free_count>>

-----------------------------------------------------------------------------
(* The error paths of do_fault *)

\* paging_mmap returns the error to the kernel, which unmaps the new VMA and
\* frees it without calling paging_vma_close.
AbortMmap(p, code) ==
  /\ p \in prepaging
  /\ prepaging' = prepaging \ {p}
  /\ ret' = code
  /\ Unmap(p, cover[curVma[p]])
  /\ FreeVma(curVma[p])
  /\ ClearCur(p)
  /\ Goto(p, "user")
  /\ UNCHANGED exiting

\* The kernel starts to tear down the address space of p: every page table
\* entry is cleared before the first VMA is closed.
StartExit(p) ==
  /\ exiting' = exiting \cup {p}
  /\ Unmap(p, Addr)
  /\ ClearCur(p)
  /\ Goto(p, "exit")

\* No page: VM_FAULT_OOM.  A faulting process goes back to user space and
\* faults again.
AllocFails(p) ==
  /\ Running
  /\ pc[p] = "alloc"
  /\ "alloc_page" \in CanFail
  /\ \/ AbortMmap(p, VM_FAULT_OOM)
     \/ /\ p \notin prepaging
        /\ ClearCur(p)
        /\ Goto(p, "user")
        /\ UNCHANGED <<ctxVars, ret, vmaVars, pte>>
  /\ UNCHANGED <<modVars, pasVars, memVars, cntVars>>

\* The page cannot be mapped: it is freed and VM_FAULT_SIGBUS returned, which
\* kills a faulting process.
RemapFails(p) ==
  /\ Running
  /\ pc[p] = "remap"
  /\ "remap_pfn_range" \in CanFail
  /\ used' = used \ {curPage[p]}
  /\ \/ AbortMmap(p, VM_FAULT_SIGBUS)
     \/ /\ p \notin prepaging
        /\ StartExit(p)
        /\ UNCHANGED <<prepaging, ret, vmaVars>>
  /\ UNCHANGED <<modVars, pasVars, orphans, listVars, cntVars>>

\* The result of the node's kmalloc is not tested: the task dies on the null
\* pointer.  A faulting process exits; in paging_mmap it dies with the lock of
\* its address space held for writing and is stuck there.
NodeFails(p) ==
  /\ Running
  /\ pc[p] = "node"
  /\ "kmalloc_node" \in CanFail
  /\ orphans' = orphans \cup {curPage[p]}
  /\ \/ /\ p \in prepaging
        /\ Goto(p, "stuck")
        /\ UNCHANGED <<exiting, curVars, pte>>
     \/ /\ p \notin prepaging
        /\ StartExit(p)
  /\ UNCHANGED <<modVars, prepaging, ret, vmaVars, pasVars, used, listVars, cntVars>>

-----------------------------------------------------------------------------
\* The kernel splits VMA v (a munmap or mprotect of a part of it): the new VMA
\* w takes the pages S and a copy of the pointer, then paging_vma_open(w).
paging_vma_open(p, v, w, S) ==
  /\ Running
  /\ pc[p] = "user"
  /\ owner[v] = p /\ owner[w] = None
  /\ S \subseteq cover[v] /\ IsRange(S) /\ IsRange(cover[v] \ S)
  /\ owner'   = [owner   EXCEPT ![w] = p]
  /\ cover'   = [cover   EXCEPT ![w] = S, ![v] = @ \ S]
  /\ private' = [private EXCEPT ![w] = private[v]]
  /\ RefInc(private[v])
  /\ UNCHANGED <<modVars, pc, ctxVars, curVars, ret, pas, pte, memVars, cntVars>>

\* The first half of paging_vma_close, the atomic_dec.
CloseDec(p, v) ==
  /\ RefDec(private[v])
  /\ curVma' = [curVma EXCEPT ![p] = v]
  /\ Goto(p, "close")

munmap(p, v) ==
  /\ Running
  /\ pc[p] = "user"
  /\ owner[v] = p
  /\ Unmap(p, cover[v])
  /\ CloseDec(p, v)
  /\ UNCHANGED <<modVars, ctxVars, curAddr, curPage, ret, vmaVars, pas, memVars,
                 cntVars>>

exit(p) ==
  /\ Running
  /\ pc[p] = "user"
  /\ StartExit(p)
  /\ UNCHANGED <<modVars, prepaging, ret, vmaVars, pasVars, memVars, cntVars>>

ExitClose(p, v) ==
  /\ Running
  /\ pc[p] = "exit"
  /\ owner[v] = p
  /\ CloseDec(p, v)
  /\ UNCHANGED <<modVars, ctxVars, curAddr, curPage, ret, vmaVars, pas, pte,
                 memVars, cntVars>>

\* paging_vma_close is over and the kernel frees the VMA.
Closed(p) ==
  /\ FreeVma(curVma[p])
  /\ ClearCur(p)
  /\ Goto(p, IF p \in exiting THEN "exit" ELSE "user")

\* The second half: the counter is read, and when it is zero the loop over the
\* whole list begins.
paging_vma_close(p) ==
  /\ Running
  /\ pc[p] = "close"
  /\ \/ /\ LastRef(private[curVma[p]])
        /\ closeMet' = \E q \in Procs : Adding(q) \/ Freeing(q)
        /\ Goto(p, "free")
        /\ UNCHANGED <<curVars, vmaVars>>
     \/ /\ ~LastRef(private[curVma[p]])
        /\ Closed(p)
        /\ UNCHANGED closeMet
  /\ UNCHANGED <<modVars, ctxVars, ret, pasVars, pte, used, orphans, ref_page_list,
                 seen, addsMet, cntVars>>

\* The loop frees the page and the node of an entry, whichever comes next, and
\* then counts it.
FreePage(p) ==
  /\ Running
  /\ pc[p] = "free"
  /\ \E f \in ref_page_list : FreeNode(f)
  /\ Goto(p, "freed")
  /\ UNCHANGED <<modVars, ctxVars, curVars, ret, vmaVars, pasVars, pte, orphans,
                 seen, metVars, cntVars>>

CountFree(p) ==
  /\ Running
  /\ pc[p] = "freed"
  /\ free_count' = Wrap(free_count + 1)
  /\ Goto(p, "free")
  /\ UNCHANGED <<modVars, ctxVars, curVars, ret, vmaVars, pasVars, pte, memVars,
                 alloc_count>>

\* After the last entry the pa_state_struct is freed.
LoopEnds(p) ==
  /\ Running
  /\ pc[p] = "free"
  /\ ref_page_list = {}
  /\ pas' = pas \ {private[curVma[p]]}
  /\ Closed(p)
  /\ UNCHANGED <<modVars, ctxVars, ret, ref_count, pte, memVars, cntVars>>

\* The address space is gone; the slot can be used by another process.
reap(p) ==
  /\ Running
  /\ pc[p] = "exit"
  /\ VmasOf(p) = {}
  /\ exiting' = exiting \ {p}
  /\ Goto(p, "user")
  /\ UNCHANGED <<modVars, prepaging, curVars, ret, vmaVars, pasVars, pte, memVars,
                 cntVars>>

-----------------------------------------------------------------------------
\* The steps of a handler, once it has been entered.
Handler(p) ==
  \/ alloc_page(p) \/ AllocFails(p)
  \/ remap_pfn_range(p) \/ RemapFails(p)
  \/ kmalloc_node(p) \/ NodeFails(p) \/ list_add(p)
  \/ CountAlloc(p)
  \/ \E v \in Vmas : ExitClose(p, v)
  \/ paging_vma_close(p) \/ FreePage(p) \/ CountFree(p) \/ LoopEnds(p)
  \/ reap(p)

\* What a process asks of the kernel.
Syscall(p) ==
  \/ \E v \in Vmas, s \in Pas, S \in SUBSET Addr : paging_mmap(p, v, s, S)
  \/ PasFails(p)
  \/ \E v \in Vmas, a \in Addr : paging_vma_fault(p, v, a)
  \/ \E v, w \in Vmas, S \in SUBSET Addr : paging_vma_open(p, v, w, S)
  \/ \E v \in Vmas : munmap(p, v)
  \/ exit(p)

\* Once the module is removed none of its code runs; and the model stops where a
\* close has met another operation.
Stopped == (module = "removed" \/ closeMet) /\ UNCHANGED vars

Next ==
  \/ kmod_paging_init \/ RegisterFails \/ kmod_paging_exit
  \/ SetDemandPaging
  \/ \E p \in Procs : Syscall(p) \/ Handler(p)
  \/ Stopped

Spec == Init /\ [][Next]_vars

\* A process in the kernel runs on: the kernel is preemptive and its scheduler
\* starves no task.
FairSpec == Spec /\ \A p \in Procs : WF_vars(Handler(p))

-----------------------------------------------------------------------------
(* What the module's state means between the steps of its handlers *)

InKernel ==
  {"alloc", "remap", "node", "add", "count", "stuck", "exit", "close", "free", "freed"}

TypeOK ==
  /\ module \in {"new", "loaded", "removed"}
  /\ demand_paging \in BOOLEAN
  /\ pc \in [Procs -> InKernel \cup {"user"}]
  /\ prepaging \subseteq Procs
  /\ exiting \subseteq Procs
  /\ curVma  \in [Procs -> Vmas \cup {None}]
  /\ curAddr \in [Procs -> Addr \cup {0}]
  /\ curPage \in [Procs -> Frames \cup {None}]
  /\ ret \in {0, VM_FAULT_OOM, VM_FAULT_SIGBUS, ENOMEM}
  /\ owner   \in [Vmas -> Procs \cup {None}]
  /\ cover   \in [Vmas -> SUBSET Addr]
  /\ private \in [Vmas -> Pas \cup {None}]
  /\ pas \subseteq Pas
  /\ ref_count \in [Pas -> Nat]
  /\ pte \in [Procs -> [Addr -> Frames \cup {None}]]
  /\ used \subseteq Frames
  /\ ref_page_list \subseteq Frames
  /\ seen \in [Procs -> SUBSET Frames]
  /\ alloc_count \in 0..Modulus - 1
  /\ free_count  \in 0..Modulus - 1
  /\ orphans \subseteq Frames
  /\ addsMet \in BOOLEAN /\ closeMet \in BOOLEAN

Sharers(s) == {v \in Vmas : private[v] = s}
Closing(v) == \E p \in Procs : (pc[p] = "close" \/ Freeing(p)) /\ curVma[p] = v
Holders(s) == {v \in Sharers(s) : ~Closing(v)}

\* The reference count of a pa_state_struct is the number of VMAs that point
\* to it and that paging_vma_close has not taken off yet, through every split,
\* partial munmap and exit; no VMA points to a freed one, so neither
\* paging_vma_open nor paging_vma_close touches freed memory.  One that no VMA
\* points to any more exists only after a prepaging that failed.
RefCountExact ==
  /\ \A v \in Vmas : owner[v] # None => private[v] \in pas
  /\ \A s \in pas :
       \/ Sharers(s) # {} /\ ref_count[s] = Cardinality(Holders(s))
       \/ Sharers(s) = {} /\ CanFail \cap {"alloc_page", "remap_pfn_range"} # {}

\* The page of a do_fault that has not reached the list.
InHand(p) == pc[p] \in {"remap", "node", "add"}
HeldPages == {curPage[p] : p \in {q \in Procs : InHand(q)}}

\* The pages that list_add has put on the list and no close has freed: they are
\* there, or list_adds that met have lost them.
Entered == used \ (HeldPages \cup orphans)

\* The handlers between a step on a page and the one that counts it.
Counting == {p \in Procs : pc[p] = "count"}
Uncounted == {p \in Procs : pc[p] = "freed"}

\* The two counters the module prints when it is removed differ, modulo their
\* range, by the pages that list_add has put on the list and no close has freed,
\* lost ones included, up to the allocations and frees whose counting is still to
\* come: whatever the interleaving of faults, list_adds that meet and closes,
\* whatever fails, and through a wrap of either counter.
CountersBalance ==
  alloc_count + Cardinality(Counting) - free_count - Cardinality(Uncounted)
    - Cardinality(Entered)
      \in {-2 * Modulus, -Modulus, 0, Modulus}

\* Every page on the list is allocated, and so is what a list_add under way will
\* put back there; the page a do_fault holds is allocated, not on the list or on
\* its way there, and held by no other do_fault: a loop of paging_vma_close that
\* meets no other operation frees a page once and never one that do_fault is about
\* to list.  A page gets lost only where list_adds meet or a node cannot be
\* allocated.
PagesAccounted ==
  ~closeMet =>
    /\ ref_page_list \subseteq used
    /\ \A p \in Procs : Adding(p) => seen[p] \subseteq used
    /\ \A p \in Procs : InHand(p) =>
         /\ curPage[p] \in used \ ref_page_list
         /\ \A q \in Procs : curPage[p] \notin seen[q]
    /\ \A p, q \in Procs :
         InHand(p) /\ InHand(q) /\ curPage[p] = curPage[q] => p = q
    /\ ~addsMet => used = ref_page_list \cup HeldPages \cup orphans

\* The close of the last VMA leaves nothing on the list, in spite of failed faults,
\* and what the module's message says of the memory is right: once no
\* pa_state_struct is left (a failed prepaging loses its own), the counters are
\* equal exactly if no page is allocated but those whose node could not be
\* allocated, and without list_adds that met none is.  (For a close that met
\* another operation nothing is said.)
NothingLeftBehind ==
  ~closeMet /\ (\A v \in Vmas : owner[v] = None) /\ pas = {} =>
    /\ ref_page_list = {}
    /\ alloc_count = free_count <=> used = orphans
    /\ ~addsMet => used = orphans

\* A page that a process can reach through its page table is allocated, and
\* nobody else can reach it: no close frees a page that is still mapped.
MappingsSound ==
  /\ \A p \in Procs, a \in Addr : pte[p][a] # None => pte[p][a] \in used
  /\ \A p, q \in Procs, a, b \in Addr :
       pte[p][a] # None /\ pte[p][a] = pte[q][b] => p = q /\ a = b

\* With one pa_state_struct, that is one mapping and its splits at a time, the
\* mappings are sound, and no operation on the list meets another.
SoleMappingSound == Cardinality(Pas) = 1 => MappingsSound /\ ~addsMet /\ ~closeMet

\* With one pa_state_struct the module lends its pages as PageLending says: a
\* page that a process has is given to no other and not back to the kernel.
Lending == INSTANCE PageLending
  WITH Pages <- Frames, out <- used,
       lent <- [p \in Procs |-> {pte[p][a] : a \in Addr} \ {None}]
ImplementsLending == Lending!LendSpec

\* The pages of the module are a set as PageSet has it: the set is empty as soon as
\* the loop of a close begins, which is the only one to see its pages then.
\* RefPageList implements the same set with pointers.
Set ==
  INSTANCE PageSet
  WITH Pages <- Frames,
       used <- IF \E p \in Procs : Freeing(p) THEN used \ ref_page_list ELSE used,
       list <- IF \E p \in Procs : Freeing(p) THEN {} ELSE ref_page_list
ImplementsPageSet == Set!SetSpec

\* The message of kmod_paging_exit: the memory is cleaned up when the module
\* goes.
CleanUnload == module = "removed" => alloc_count = free_count

\* A process that entered the module's code comes back to user space (or has
\* exited), unless the module is removed under it, it died in the kernel, or a
\* close met another operation on the list.
HandlersReturn ==
  \A p \in Procs :
    pc[p] \in InKernel ~> pc[p] \in {"user", "stuck"} \/ module = "removed" \/ closeMet
=============================================================================
