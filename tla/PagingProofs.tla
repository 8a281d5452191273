---------------------------- MODULE PagingProofs ----------------------------
(***************************************************************************)
(* Proofs about Paging, for every number of processes, VMAs, pages and      *)
(* failing calls.                                                          *)
(***************************************************************************)
EXTENDS Paging, FiniteSetTheorems, TLAPS

InFault == {"alloc", "remap", "node", "add", "count", "stuck"}
InClose == {"close", "free", "freed"}

\* A VMA object is in use exactly when it has a pa_state_struct, and all the
\* VMAs that share one belong to one process (VM_DONTCOPY).
VmaInv ==
  /\ \A v \in Vmas : owner[v] = None <=> private[v] = None
  /\ \A v \in Vmas : owner[v] # None => private[v] \in pas
  /\ \A v, w \in Vmas : private[v] # None /\ private[v] = private[w] => owner[v] = owner[w]

\* What the local state of a handler means.
CurInv ==
  /\ \A p \in Procs : pc[p] \in InFault \cup InClose =>
       curVma[p] \in Vmas /\ owner[curVma[p]] = p
  /\ \A p \in Procs : pc[p] \in InFault => curAddr[p] \in cover[curVma[p]]
  /\ \A p \in exiting : pc[p] \in {"exit"} \cup InClose
  /\ \A p \in Procs : pc[p] = "exit" => p \in exiting
  /\ \A p \in prepaging : pc[p] \in InFault
  /\ \A p \in prepaging : \A w \in Vmas :
       private[w] = private[curVma[p]] => w = curVma[p]

\* The pages on the list, those a list_add puts back there, and the one a do_fault
\* holds are allocated, and they and the orphans are different pages.  As long as
\* no list_adds have met, there are no others.
HandInv ==
  /\ ref_page_list \subseteq used /\ orphans \subseteq used
  /\ \A p \in Procs : seen[p] \subseteq used /\ (~Adding(p) => seen[p] = {})
  /\ \A f \in orphans : f \notin ref_page_list /\ \A q \in Procs : f \notin seen[q]
  /\ \A p \in Procs : InHand(p) =>
       /\ curPage[p] \in used \ ref_page_list /\ curPage[p] \notin orphans
       /\ \A q \in Procs : curPage[p] \notin seen[q]
  /\ \A p, q \in Procs :
       InHand(p) /\ InHand(q) /\ curPage[p] = curPage[q] => p = q
  /\ ~addsMet => \A f \in used :
       f \in ref_page_list \cup orphans \/ \E p \in Procs : InHand(p) /\ curPage[p] = f

\* What has not met is alone on the list.
MeetInv ==
  /\ ~closeMet => \A p, q \in Procs :
       Freeing(p) => ~Adding(q) /\ (Freeing(q) => p = q)
  /\ ~addsMet => \A p \in Procs : Adding(p) =>
       /\ seen[p] = ref_page_list
       /\ \A q \in Procs : Adding(q) => p = q

\* While the loop of a close runs, the count stays at zero.
ZeroInv == \A p \in Procs : Freeing(p) => ref_count[private[curVma[p]]] = 0

RefInv ==
  \A s \in pas :
    \/ Sharers(s) # {} /\ ref_count[s] = Cardinality(Holders(s))
    \/ Sharers(s) = {} /\ CanFail \cap {"alloc_page", "remap_pfn_range"} # {}

\* Before the module is loaded nothing has happened.
NewInv ==
  module = "new" => used = {} /\ \A p \in Procs : pc[p] = "user"

IInv ==
  /\ TypeOK /\ VmaInv /\ CurInv /\ HandInv /\ MeetInv /\ ZeroInv /\ RefInv
  /\ CountersBalance /\ NewInv

\* Names of single assignments and tests of paging.c.
USE DEF RefInc, RefDec, LastRef, FreeNode, NextAddr, Adding, Freeing, Running

-----------------------------------------------------------------------------
\* What the assumptions on the constants give: None is no object, and a counter
\* counts further than there are pages and processes.
LEMMA ConstFacts ==
  /\ None \notin Procs /\ None \notin Vmas /\ None \notin Pas /\ None \notin Frames
  /\ NPages \in Nat /\ NPages # 0
  /\ CanFail \subseteq Fallible
  /\ IsFiniteSet(Procs) /\ IsFiniteSet(Vmas) /\ IsFiniteSet(Frames)
  /\ Modulus \in Nat /\ Modulus # 0
  /\ Cardinality(Frames) \in Nat /\ Cardinality(Frames) < Modulus
  /\ Cardinality(Procs) \in Nat /\ Cardinality(Procs) < Modulus
  BY ConstAssumption, FiniteAssumption, FS_CardinalityType

\* The holders of a pa_state_struct are finitely many.
LEMMA HoldersFinite ==
  ASSUME NEW s
  PROVE  IsFiniteSet(Holders(s)) /\ Cardinality(Holders(s)) \in Nat
<1>1. Holders(s) \in SUBSET Vmas
  BY DEF Holders, Sharers
<1>2. IsFiniteSet(Holders(s))
  BY <1>1, ConstFacts, FS_Subset
<1> QED
  BY <1>2, FS_CardinalityType

\* The parts of TypeOK that several actions share.
PteType == [Procs -> [Addr -> Frames \cup {None}]]
CurType ==
  /\ curVma  \in [Procs -> Vmas \cup {None}]
  /\ curAddr \in [Procs -> Addr \cup {0}]
  /\ curPage \in [Procs -> Frames \cup {None}]
VmaType ==
  /\ owner   \in [Vmas -> Procs \cup {None}]
  /\ cover   \in [Vmas -> SUBSET Addr]
  /\ private \in [Vmas -> Pas \cup {None}]
PcType == pc \in [Procs -> InKernel \cup {"user"}]

\* Before kmod_paging_init everything is unused and counted as zero.
THEOREM InitIInv == Init => IInv
<1> SUFFICES ASSUME Init PROVE IInv
  OBVIOUS
<1> USE ConstFacts
<1>1. TypeOK
  <2>1. /\ pte \in [Procs -> [Addr -> Frames \cup {None}]]
        /\ seen \in [Procs -> SUBSET Frames]
    BY DEF Init
  <2>2. /\ PcType /\ CurType /\ VmaType
        /\ alloc_count \in 0..Modulus - 1 /\ free_count \in 0..Modulus - 1
    BY DEF Init, PcType, CurType, VmaType
  <2> QED
    BY <2>1, <2>2 DEF Init, TypeOK, PcType, CurType, VmaType
<1>2. VmaInv /\ CurInv /\ HandInv /\ MeetInv /\ ZeroInv /\ NewInv
  BY DEF Init, VmaInv, CurInv, HandInv, MeetInv, ZeroInv, InHand, InFault, InClose, NewInv
<1>3. RefInv
  BY DEF Init, RefInv
<1>4. CountersBalance
  <2>1. Counting = {} /\ Uncounted = {} /\ Entered = {}
    BY DEF Init, Counting, Uncounted, Entered
  <2>2. Cardinality(Counting) = 0 /\ Cardinality(Uncounted) = 0 /\ Cardinality(Entered) = 0
    BY <2>1, FS_EmptySet
  <2>3. alloc_count = 0 /\ free_count = 0
    BY DEF Init
  <2> QED
    BY <2>2, <2>3, ConstFacts DEF CountersBalance
<1> QED
  BY <1>1, <1>2, <1>3, <1>4 DEF IInv

-----------------------------------------------------------------------------
(* What the operators shared by several actions do to the types *)

\* The assignments that several handlers share keep the types: the page table,
\* the local variables of a handler, the VMAs, the place of a process.
LEMMA UnmapType ==
  ASSUME NEW p \in Procs, NEW S, pte \in PteType, Unmap(p, S)
  PROVE  pte' \in PteType
  BY DEF PteType, Unmap

\* The handler returns.
LEMMA ClearCurType ==
  ASSUME NEW p \in Procs, CurType, ClearCur(p)
  PROVE  CurType'
  BY DEF CurType, ClearCur

\* The kernel frees a VMA.
LEMMA FreeVmaType ==
  ASSUME NEW v \in Vmas, VmaType, FreeVma(v)
  PROVE  VmaType'
  BY DEF VmaType, FreeVma

\* A process goes on.
LEMMA GotoType ==
  ASSUME NEW p \in Procs, PcType, NEW l \in InKernel \cup {"user"}, Goto(p, l)
  PROVE  PcType'
  BY DEF PcType, Goto

\* TypeOK in terms of these parts.
LEMMA SplitType ==
  TypeOK <=>
    /\ module \in {"new", "loaded", "removed"}
    /\ demand_paging \in BOOLEAN
    /\ PcType
    /\ prepaging \subseteq Procs
    /\ exiting \subseteq Procs
    /\ CurType
    /\ ret \in {0, VM_FAULT_OOM, VM_FAULT_SIGBUS, ENOMEM}
    /\ VmaType
    /\ pas \subseteq Pas
    /\ ref_count \in [Pas -> Nat]
    /\ pte \in PteType
    /\ used \subseteq Frames
    /\ ref_page_list \subseteq Frames
    /\ seen \in [Procs -> SUBSET Frames]
    /\ alloc_count \in 0..Modulus - 1
    /\ free_count  \in 0..Modulus - 1
    /\ orphans \subseteq Frames
    /\ addsMet \in BOOLEAN /\ closeMet \in BOOLEAN
  BY DEF TypeOK, PcType, CurType, VmaType, PteType

\* The process of a handler, its VMA and the holders of the pointer it drops.
LEMMA AbortType ==
  ASSUME IInv, NEW p \in Procs, NEW code \in {VM_FAULT_OOM, VM_FAULT_SIGBUS},
         AbortMmap(p, code)
  PROVE  /\ PcType' /\ CurType' /\ VmaType' /\ pte' \in PteType
         /\ prepaging' \subseteq Procs /\ exiting' \subseteq Procs
         /\ ret' \in {0, VM_FAULT_OOM, VM_FAULT_SIGBUS, ENOMEM}
<1>1. curVma[p] \in Vmas
  BY DEF AbortMmap, IInv, CurInv
<1>2. "user" \in InKernel \cup {"user"}
  OBVIOUS
<1> QED
  BY <1>1, <1>2, SplitType, UnmapType, ClearCurType, FreeVmaType, GotoType DEF AbortMmap, IInv

\* The kernel starts to tear down an address space.
LEMMA StartExitType ==
  ASSUME TypeOK, NEW p \in Procs, StartExit(p)
  PROVE  PcType' /\ CurType' /\ pte' \in PteType /\ exiting' \subseteq Procs
<1>1. "exit" \in InKernel \cup {"user"}
  BY DEF InKernel
<1> QED
  BY <1>1, SplitType, UnmapType, ClearCurType, GotoType DEF StartExit

\* A VMA that is about to be closed is held, so the count is positive.
LEMMA CloseHeld ==
  ASSUME IInv, NEW p \in Procs, NEW v \in Vmas, owner[v] = p, pc[p] \notin InClose
  PROVE  /\ private[v] \in pas
         /\ v \in Holders(private[v])
         /\ ref_count[private[v]] = Cardinality(Holders(private[v]))
         /\ ref_count[private[v]] \in Nat \ {0}
<1>1. private[v] \in pas
  BY ConstFacts DEF IInv, VmaInv
<1>2. ~Closing(v)
  BY DEF IInv, CurInv, Closing, InClose
<1>3. v \in Sharers(private[v]) /\ v \in Holders(private[v])
  BY <1>2 DEF Holders, Sharers
<1>4. ref_count[private[v]] = Cardinality(Holders(private[v]))
  BY <1>1, <1>3 DEF IInv, RefInv
<1>5. Cardinality(Holders(private[v])) # 0
  BY <1>3, HoldersFinite, FS_EmptySet
<1> QED
  BY <1>1, <1>3, <1>4, <1>5, HoldersFinite

\* The first half of paging_vma_close.
LEMMA CloseDecType ==
  ASSUME IInv, NEW p \in Procs, NEW v \in Vmas, owner[v] = p, pc[p] \notin InClose,
         CloseDec(p, v)
  PROVE  /\ ref_count' \in [Pas -> Nat]
         /\ curVma' \in [Procs -> Vmas \cup {None}]
         /\ PcType'
<1>1. ref_count[private[v]] - 1 \in Nat
  BY CloseHeld
<1>2. ref_count' \in [Pas -> Nat]
  BY <1>1 DEF CloseDec, IInv, TypeOK
<1>3. PcType'
  BY SplitType, GotoType DEF CloseDec, InKernel, IInv
<1>4. curVma' \in [Procs -> Vmas \cup {None}]
  BY DEF CloseDec, IInv, TypeOK
<1> QED
  BY <1>2, <1>3, <1>4

\* Type correctness is preserved.
LEMMA TypeStep ==
  ASSUME IInv, Next
  PROVE  TypeOK'
<1> TypeOK
  BY DEF IInv
<1> USE DEF modVars, ctxVars, curVars, vmaVars, pasVars, memVars, listVars, metVars, cntVars
<1>1. CASE kmod_paging_init
  BY <1>1, ConstFacts DEF kmod_paging_init, TypeOK
<1>2. CASE RegisterFails
  BY <1>2, ConstFacts DEF RegisterFails, TypeOK
<1>3. CASE kmod_paging_exit
  BY <1>3 DEF kmod_paging_exit, TypeOK
<1>4. CASE SetDemandPaging
  BY <1>4 DEF SetDemandPaging, TypeOK
<1>5. ASSUME NEW p \in Procs, NEW v \in Vmas, NEW s \in Pas, NEW S \in SUBSET Addr,
             paging_mmap(p, v, s, S)
      PROVE  TypeOK'
  <2>1. VmaType' /\ pas' \subseteq Pas /\ ref_count' \in [Pas -> Nat]
    BY <1>5 DEF paging_mmap, VmaType, TypeOK
  <2>2. UNCHANGED <<module, demand_paging, exiting, pte, used, ref_page_list, seen,
                    alloc_count, free_count, orphans, addsMet, closeMet>>
    BY <1>5 DEF paging_mmap
  <2>3. CASE demand_paging
    BY <1>5, <2>1, <2>2, <2>3 DEF paging_mmap, TypeOK, VmaType
  <2>4. CASE ~demand_paging
    <3>1. CurType'
      <4>1. PICK start \in S : curAddr' = [curAddr EXCEPT ![p] = start]
        BY <1>5, <2>4 DEF paging_mmap
      <4>2. curVma' = [curVma EXCEPT ![p] = v] /\ curPage' = curPage
        BY <1>5, <2>4 DEF paging_mmap
      <4> QED
        BY <4>1, <4>2 DEF CurType, TypeOK
    <3>2. PcType'
      BY <1>5, <2>4, SplitType, GotoType DEF paging_mmap, InKernel
    <3> QED
      BY <1>5, <2>1, <2>2, <2>4, <3>1, <3>2 DEF paging_mmap, TypeOK, PcType, CurType, VmaType, PteType
  <2> QED
    BY <1>5, <2>3, <2>4 DEF paging_mmap
<1>6. ASSUME NEW p \in Procs, PasFails(p) PROVE TypeOK'
  BY <1>6 DEF PasFails, TypeOK
<1>7. ASSUME NEW p \in Procs, NEW v \in Vmas, NEW a \in Addr, paging_vma_fault(p, v, a)
      PROVE  TypeOK'
  BY <1>7 DEF paging_vma_fault, TypeOK, Goto, InKernel
<1>8. ASSUME NEW p \in Procs, alloc_page(p) PROVE TypeOK'
  BY <1>8 DEF alloc_page, TypeOK, Goto, InKernel
<1>9. ASSUME NEW p \in Procs, remap_pfn_range(p) PROVE TypeOK'
  BY <1>9 DEF remap_pfn_range, TypeOK, Goto, InKernel
<1>10. ASSUME NEW p \in Procs, kmalloc_node(p) \/ list_add(p) PROVE TypeOK'
  <2>1. CASE kmalloc_node(p)
    BY <2>1 DEF kmalloc_node, TypeOK, Goto, InKernel
  <2>2. CASE list_add(p)
    BY <2>2 DEF list_add, TypeOK, Goto, InKernel, IInv, HandInv, InHand
  <2> QED
    BY <1>10, <2>1, <2>2
<1>11. ASSUME NEW p \in Procs, CountAlloc(p) PROVE TypeOK'
  <2>1. alloc_count' \in 0..Modulus - 1
    BY <1>11, ConstFacts DEF CountAlloc, TypeOK, Wrap
  <2>2. PcType' /\ CurType' /\ prepaging' \subseteq Procs
    <3>1. CASE curAddr[p] + 1 \in cover[curVma[p]] /\ p \in prepaging
      <4>1. curAddr[p] + 1 \in Addr
        BY <1>11, <3>1 DEF CountAlloc, IInv, CurInv, InFault, TypeOK
      <4>2. /\ curAddr' = [curAddr EXCEPT ![p] = @ + 1]
            /\ curPage' = [curPage EXCEPT ![p] = None]
            /\ Goto(p, "alloc")
            /\ UNCHANGED <<prepaging, curVma>>
        BY <1>11, <3>1 DEF CountAlloc
      <4>3. PcType'
        BY <4>2, SplitType, GotoType DEF InKernel
      <4>4. CurType'
        BY <4>1, <4>2 DEF TypeOK, CurType
      <4> QED
        BY <4>2, <4>3, <4>4 DEF TypeOK
    <3>2. CASE ~(curAddr[p] + 1 \in cover[curVma[p]] /\ p \in prepaging)
      BY <1>11, <3>2 DEF CountAlloc, TypeOK, PcType, CurType, Goto, InKernel, ClearCur
    <3> QED
      BY <3>1, <3>2
  <2>3. ret' \in {0, VM_FAULT_OOM, VM_FAULT_SIGBUS, ENOMEM}
    BY <1>11 DEF CountAlloc, TypeOK
  <2> QED
    BY <1>11, <2>1, <2>2, <2>3 DEF CountAlloc, TypeOK, PcType, CurType, VmaType, PteType
<1>12. ASSUME NEW p \in Procs, AllocFails(p) PROVE TypeOK'
  <2>1. UNCHANGED <<modVars, pasVars, memVars, cntVars>>
    BY <1>12 DEF AllocFails
  <2>2. CASE AbortMmap(p, VM_FAULT_OOM)
    BY <2>1, <2>2, AbortType DEF TypeOK, PcType, CurType, VmaType, PteType
  <2>3. CASE ClearCur(p) /\ Goto(p, "user") /\ UNCHANGED <<ctxVars, ret, vmaVars, pte>>
    BY <2>1, <2>3, ClearCurType, GotoType DEF TypeOK, PcType, CurType, VmaType, PteType
  <2> QED
    BY <1>12, <2>2, <2>3 DEF AllocFails
<1>13. ASSUME NEW p \in Procs, RemapFails(p) PROVE TypeOK'
  <2>1. used' \subseteq Frames /\ UNCHANGED <<modVars, pasVars, orphans, listVars, cntVars>>
    BY <1>13 DEF RemapFails, TypeOK
  <2>2. CASE AbortMmap(p, VM_FAULT_SIGBUS)
    BY <2>1, <2>2, AbortType DEF TypeOK, PcType, CurType, VmaType, PteType
  <2>3. CASE StartExit(p) /\ UNCHANGED <<prepaging, ret, vmaVars>>
    BY <2>1, <2>3, StartExitType DEF TypeOK, PcType, CurType, VmaType, PteType
  <2> QED
    BY <1>13, <2>2, <2>3 DEF RemapFails
<1>14. ASSUME NEW p \in Procs, NodeFails(p) PROVE TypeOK'
  <2>1. /\ orphans' \subseteq Frames
        /\ UNCHANGED <<modVars, prepaging, ret, vmaVars, pasVars, used, listVars, cntVars>>
    BY <1>14 DEF NodeFails, IInv, HandInv, InHand, TypeOK
  <2>2. CASE Goto(p, "stuck") /\ UNCHANGED <<exiting, curVars, pte>>
    BY <2>1, <2>2 DEF TypeOK, Goto, InKernel
  <2>3. CASE StartExit(p)
    BY <2>1, <2>3, StartExitType DEF TypeOK, PcType, CurType, VmaType, PteType
  <2> QED
    BY <1>14, <2>2, <2>3 DEF NodeFails
<1>15. ASSUME NEW p \in Procs, NEW v \in Vmas, NEW w \in Vmas, NEW S \in SUBSET Addr,
              paging_vma_open(p, v, w, S)
      PROVE  TypeOK'
  <2>1. private[v] \in Pas /\ ref_count[private[v]] + 1 \in Nat
    BY <1>15, ConstFacts DEF paging_vma_open, IInv, VmaInv, TypeOK
  <2>2. VmaType'
    BY <1>15, <2>1 DEF paging_vma_open, VmaType, TypeOK
  <2>3. ref_count' \in [Pas -> Nat]
    BY <1>15, <2>1 DEF paging_vma_open, TypeOK
  <2> QED
    BY <1>15, <2>2, <2>3 DEF paging_vma_open, TypeOK, VmaType
<1>16. ASSUME NEW p \in Procs, NEW v \in Vmas, munmap(p, v) PROVE TypeOK'
  <2>1. pte' \in PteType
    BY <1>16, UnmapType, SplitType DEF munmap
  <2>2. ref_count' \in [Pas -> Nat] /\ curVma' \in [Procs -> Vmas \cup {None}] /\ PcType'
    BY <1>16, CloseDecType DEF munmap, InClose
  <2> QED
    BY <1>16, <2>1, <2>2 DEF munmap, TypeOK, PcType, PteType
<1>17. ASSUME NEW p \in Procs, exit(p) PROVE TypeOK'
  BY <1>17, StartExitType DEF exit, TypeOK, PcType, CurType, VmaType, PteType
<1>18. ASSUME NEW p \in Procs, NEW v \in Vmas, ExitClose(p, v) PROVE TypeOK'
  <2>1. ref_count' \in [Pas -> Nat] /\ curVma' \in [Procs -> Vmas \cup {None}] /\ PcType'
    BY <1>18, CloseDecType DEF ExitClose, InClose
  <2> QED
    BY <1>18, <2>1 DEF ExitClose, TypeOK, PcType, PteType
<1>19. ASSUME NEW p \in Procs, paging_vma_close(p) \/ LoopEnds(p) PROVE TypeOK'
  <2>1. curVma[p] \in Vmas
    BY <1>19 DEF paging_vma_close, LoopEnds, IInv, CurInv, InClose
  <2>2. CASE Closed(p)
    <3>1. VmaType' /\ CurType' /\ PcType'
      BY <2>1, <2>2, FreeVmaType, ClearCurType, SplitType DEF Closed, PcType, Goto, InKernel
    <3>2. pas' \subseteq Pas /\ closeMet' \in BOOLEAN
      BY <1>19 DEF paging_vma_close, LoopEnds, TypeOK
    <3> QED
      BY <1>19, <3>1, <3>2 DEF paging_vma_close, LoopEnds, TypeOK, PcType, CurType, VmaType, PteType
  <2>3. CASE paging_vma_close(p) /\ Goto(p, "free") /\ UNCHANGED <<curVars, vmaVars>>
    BY <2>3 DEF paging_vma_close, TypeOK, Goto, InKernel
  <2> QED
    BY <1>19, <2>2, <2>3 DEF paging_vma_close, LoopEnds
<1>22. ASSUME NEW p \in Procs, FreePage(p) PROVE TypeOK'
  BY <1>22 DEF FreePage, TypeOK, Goto, InKernel
<1>23. ASSUME NEW p \in Procs, CountFree(p) PROVE TypeOK'
  BY <1>23, ConstFacts DEF CountFree, TypeOK, Goto, InKernel, Wrap
<1>20. ASSUME NEW p \in Procs, reap(p) PROVE TypeOK'
  BY <1>20 DEF reap, TypeOK, Goto, InKernel
<1>21. CASE Stopped
  BY <1>21 DEF Stopped, vars, TypeOK
<1> QED
  BY <1>1, <1>2, <1>3, <1>4, <1>5, <1>6, <1>7, <1>8, <1>9, <1>10, <1>11, <1>12, <1>13,
     <1>14, <1>15, <1>16, <1>17, <1>18, <1>19, <1>20, <1>21, <1>22, <1>23
  DEF Next, Syscall, Handler
-----------------------------------------------------------------------------
\* The VMA of a close that finds the count at zero is the only one to share its
\* pa_state_struct.
LEMMA LastHolder ==
  ASSUME IInv, NEW p \in Procs, pc[p] \in InClose, ref_count[private[curVma[p]]] = 0
  PROVE  Sharers(private[curVma[p]]) = {curVma[p]}
<1> DEFINE v == curVma[p]
           s == private[v]
<1>1. v \in Vmas /\ owner[v] = p /\ s \in pas /\ s # None
  BY ConstFacts DEF IInv, CurInv, VmaInv
<1>2. v \in Sharers(s)
  BY <1>1 DEF Sharers
<1>3. Cardinality(Holders(s)) = 0
  BY <1>1, <1>2 DEF IInv, RefInv
<1>4. Holders(s) = {}
  BY <1>3, HoldersFinite, FS_EmptySet
<1>5. ASSUME NEW w \in Sharers(s) PROVE w = v
  <2>1. PICK q \in Procs : pc[q] \in InClose /\ curVma[q] = w
    BY <1>4 DEF Holders, Closing, InClose
  <2>2. w \in Vmas /\ owner[w] = q /\ private[w] = s
    BY <2>1 DEF IInv, CurInv, Sharers
  <2>3. owner[w] = owner[v]
    BY <1>1, <2>2 DEF IInv, VmaInv
  <2> QED
    BY <1>1, <2>1, <2>2, <2>3
<1> QED
  BY <1>2, <1>5

\* Ownership and sharing of the VMAs are preserved.
LEMMA VmaStep ==
  ASSUME IInv, Next
  PROVE  VmaInv'
<1> USE ConstFacts
<1>1. CASE UNCHANGED <<owner, private, pas>>
  BY <1>1 DEF IInv, VmaInv
<1>2. ASSUME NEW p \in Procs, NEW v \in Vmas, NEW s \in Pas, NEW S \in SUBSET Addr,
             paging_mmap(p, v, s, S)
      PROVE  VmaInv'
  BY <1>2 DEF paging_mmap, IInv, VmaInv, TypeOK
<1>3. ASSUME NEW p \in Procs, NEW code, AbortMmap(p, code), pas' = pas
      PROVE  VmaInv'
  BY <1>3 DEF AbortMmap, FreeVma, IInv, VmaInv, TypeOK
<1>4. ASSUME NEW p \in Procs, NEW v \in Vmas, NEW w \in Vmas, NEW S \in SUBSET Addr,
             paging_vma_open(p, v, w, S)
      PROVE  VmaInv'
  BY <1>4 DEF paging_vma_open, IInv, VmaInv, TypeOK
<1>5. ASSUME NEW p \in Procs, paging_vma_close(p) PROVE VmaInv'
  <2>1. CASE Closed(p)
    BY <1>5, <2>1 DEF paging_vma_close, Closed, FreeVma, IInv, VmaInv, TypeOK, pasVars
  <2>2. CASE UNCHANGED vmaVars
    BY <1>1, <1>5, <2>2 DEF paging_vma_close, vmaVars, pasVars
  <2> QED
    BY <1>5, <2>1, <2>2 DEF paging_vma_close
<1>11. ASSUME NEW p \in Procs, LoopEnds(p) PROVE VmaInv'
  <2>1. pc[p] \in InClose /\ ref_count[private[curVma[p]]] = 0
    BY <1>11 DEF LoopEnds, InClose, IInv, ZeroInv
  <2>2. \A w \in Vmas : private[w] = private[curVma[p]] => w = curVma[p]
    BY <2>1, LastHolder DEF Sharers
  <2> QED
    BY <1>11, <2>2 DEF LoopEnds, Closed, FreeVma, IInv, VmaInv, TypeOK
<1>6. ASSUME NEW p \in Procs, AllocFails(p) \/ RemapFails(p) PROVE VmaInv'
  <2>1. CASE UNCHANGED <<owner, private, pas>>
    BY <2>1, <1>1
  <2>2. CASE AbortMmap(p, VM_FAULT_OOM) \/ AbortMmap(p, VM_FAULT_SIGBUS)
    BY <1>6, <2>2, <1>3 DEF AllocFails, RemapFails, pasVars
  <2> QED
    BY <1>6, <2>1, <2>2 DEF AllocFails, RemapFails, vmaVars, pasVars
<1>7. ASSUME NEW p \in Procs, NEW v \in Vmas, munmap(p, v) \/ ExitClose(p, v)
      PROVE  VmaInv'
  BY <1>7, <1>1 DEF munmap, ExitClose, vmaVars
<1>8. ASSUME NEW p \in Procs,
             \/ PasFails(p) \/ exit(p) \/ alloc_page(p) \/ remap_pfn_range(p)
             \/ kmalloc_node(p) \/ list_add(p) \/ NodeFails(p) \/ CountAlloc(p)
             \/ FreePage(p) \/ CountFree(p) \/ reap(p)
      PROVE  VmaInv'
  BY <1>8, <1>1 DEF PasFails, exit, alloc_page, remap_pfn_range, kmalloc_node, list_add,
     NodeFails, CountAlloc, FreePage, CountFree, reap, vmaVars, pasVars
<1>9. ASSUME NEW p \in Procs, NEW v \in Vmas, NEW a \in Addr, paging_vma_fault(p, v, a)
      PROVE  VmaInv'
  BY <1>9, <1>1 DEF paging_vma_fault, vmaVars, pasVars
<1>10. CASE kmod_paging_init \/ RegisterFails \/ kmod_paging_exit \/ SetDemandPaging \/ Stopped
  BY <1>10, <1>1 DEF kmod_paging_init, RegisterFails, kmod_paging_exit, SetDemandPaging,
     Stopped, vars, vmaVars, pasVars
<1> QED
  BY <1>2, <1>4, <1>5, <1>6, <1>7, <1>8, <1>9, <1>10, <1>11 DEF Next, Syscall, Handler

\* What the local state of the handlers means is preserved: a step of one
\* process touches no VMA of another.
LEMMA CurStep ==
  ASSUME IInv, Next
  PROVE  CurInv'
<1> USE ConstFacts
<1> USE DEF modVars, ctxVars, curVars, vmaVars, pasVars, memVars, listVars, metVars, cntVars
<1> TypeOK /\ CurInv /\ VmaInv
  BY DEF IInv
<1>1. CASE UNCHANGED <<pc, curVma, curAddr, owner, cover, private, prepaging, exiting>>
  BY <1>1 DEF CurInv
<1>2. ASSUME NEW p \in Procs, NEW v \in Vmas, NEW s \in Pas, NEW S \in SUBSET Addr,
             paging_mmap(p, v, s, S)
      PROVE  CurInv'
  <2>1. \A q \in Procs : pc[q] \in InFault \cup InClose => q # p /\ curVma[q] # v
    BY <1>2 DEF paging_mmap, CurInv, InFault, InClose
  <2>2. owner' = [owner EXCEPT ![v] = p] /\ cover' = [cover EXCEPT ![v] = S]
        /\ private' = [private EXCEPT ![v] = s] /\ exiting' = exiting
        /\ pc[p] = "user" /\ owner[v] = None
    BY <1>2 DEF paging_mmap
  <2>3. \A w \in Vmas : private[w] # s
    BY <1>2 DEF paging_mmap, VmaInv, TypeOK
  <2>4. CASE demand_paging
    <3>1. UNCHANGED <<pc, prepaging, curVma, curAddr>>
      BY <1>2, <2>4 DEF paging_mmap
    <3> QED
      BY <2>1, <2>2, <2>3, <3>1 DEF CurInv, InFault, InClose, TypeOK
  <2>5. CASE ~demand_paging
    <3>1. PICK start \in S : curAddr' = [curAddr EXCEPT ![p] = start]
      BY <1>2, <2>5 DEF paging_mmap
    <3>2. prepaging' = prepaging \cup {p} /\ curVma' = [curVma EXCEPT ![p] = v]
          /\ pc' = [pc EXCEPT ![p] = "alloc"]
      BY <1>2, <2>5 DEF paging_mmap, Goto
    <3> QED
      BY <2>1, <2>2, <2>3, <3>1, <3>2 DEF CurInv, InFault, InClose, TypeOK
  <2> QED
    BY <2>4, <2>5
<1>3. ASSUME NEW p \in Procs, NEW v \in Vmas, NEW a \in Addr, paging_vma_fault(p, v, a)
      PROVE  CurInv'
  BY <1>3 DEF paging_vma_fault, Goto, CurInv, InFault, InClose, TypeOK
<1>4. ASSUME NEW p \in Procs,
             alloc_page(p) \/ remap_pfn_range(p) \/ kmalloc_node(p) \/ list_add(p)
      PROVE  CurInv'
  <2>1. PICK l \in {"remap", "node", "add", "count"} : pc' = [pc EXCEPT ![p] = l]
    BY <1>4 DEF alloc_page, remap_pfn_range, kmalloc_node, list_add, Goto
  <2>2. pc[p] \in {"alloc", "remap", "node", "add"}
        /\ UNCHANGED <<curVma, curAddr, owner, cover, private, prepaging, exiting>>
    BY <1>4 DEF alloc_page, remap_pfn_range, kmalloc_node, list_add
  <2> QED
    BY <2>1, <2>2 DEF CurInv, InFault, InClose, TypeOK
<1>5. ASSUME NEW p \in Procs, CountAlloc(p) PROVE CurInv'
  <2>1. pc[p] = "count" /\ UNCHANGED <<owner, cover, private, exiting>>
    BY <1>5 DEF CountAlloc
  <2>2. CASE curAddr[p] + 1 \in cover[curVma[p]] /\ p \in prepaging
    <3>1. /\ curAddr' = [curAddr EXCEPT ![p] = curAddr[p] + 1]
          /\ pc' = [pc EXCEPT ![p] = "alloc"]
          /\ UNCHANGED <<prepaging, curVma>>
      BY <1>5, <2>2 DEF CountAlloc, Goto
    <3> QED
      BY <2>1, <2>2, <3>1 DEF CurInv, InFault, InClose, TypeOK
  <2>3. CASE ~(curAddr[p] + 1 \in cover[curVma[p]] /\ p \in prepaging)
    <3>1. /\ prepaging' = prepaging \ {p}
          /\ curVma' = [curVma EXCEPT ![p] = None]
          /\ curAddr' = [curAddr EXCEPT ![p] = 0]
          /\ pc' = [pc EXCEPT ![p] = "user"]
      BY <1>5, <2>3 DEF CountAlloc, ClearCur, Goto
    <3> QED
      BY <2>1, <3>1 DEF CurInv, InFault, InClose, TypeOK
  <2> QED
    BY <2>2, <2>3
<1>6. ASSUME NEW p \in Procs, NEW code, pc[p] \in InFault, AbortMmap(p, code)
      PROVE  CurInv'
  BY <1>6 DEF AbortMmap, FreeVma, ClearCur, Goto, CurInv, VmaInv, InFault, InClose, TypeOK
<1>7. ASSUME NEW p \in Procs, pc[p] \in InFault, p \notin prepaging, prepaging' = prepaging,
             UNCHANGED vmaVars, ClearCur(p),
             StartExit(p) \/ (Goto(p, "user") /\ UNCHANGED exiting)
      PROVE  CurInv'
  <2>1. /\ curVma' = [curVma EXCEPT ![p] = None]
        /\ curAddr' = [curAddr EXCEPT ![p] = 0]
        /\ UNCHANGED <<owner, cover, private, prepaging>>
    BY <1>7 DEF ClearCur
  <2>2. CASE pc' = [pc EXCEPT ![p] = "exit"] /\ exiting' = exiting \cup {p}
    BY <1>7, <2>1, <2>2 DEF CurInv, InFault, InClose, TypeOK
  <2>3. CASE pc' = [pc EXCEPT ![p] = "user"] /\ exiting' = exiting
    BY <1>7, <2>1, <2>3 DEF CurInv, InFault, InClose, TypeOK
  <2> QED
    BY <1>7, <2>2, <2>3 DEF StartExit, Goto
<1>8. ASSUME NEW p \in Procs, AllocFails(p) \/ RemapFails(p) PROVE CurInv'
  BY <1>8, <1>6, <1>7 DEF AllocFails, RemapFails, StartExit, InFault
<1>9. ASSUME NEW p \in Procs, NodeFails(p) PROVE CurInv'
  <2>1. CASE Goto(p, "stuck") /\ p \in prepaging /\ UNCHANGED <<exiting, curVars, pte>>
    BY <1>9, <2>1 DEF NodeFails, Goto, CurInv, InFault, InClose, TypeOK
  <2>2. CASE StartExit(p) /\ p \notin prepaging
    BY <1>9, <2>2, <1>7 DEF NodeFails, StartExit, InFault
  <2> QED
    BY <1>9, <2>1, <2>2 DEF NodeFails
<1>10. ASSUME NEW p \in Procs, NEW v \in Vmas, NEW w \in Vmas, NEW S \in SUBSET Addr,
              paging_vma_open(p, v, w, S)
      PROVE  CurInv'
  <2>1. \A q \in Procs : pc[q] \in InFault \cup InClose =>
          q # p /\ curVma[q] # v /\ curVma[q] # w
    BY <1>10 DEF paging_vma_open, CurInv, InFault, InClose
  <2>2. \A q \in prepaging : private[curVma[q]] # private[v]
    BY <1>10, <2>1 DEF paging_vma_open, CurInv, VmaInv, TypeOK
  <2> QED
    BY <1>10, <2>1, <2>2 DEF paging_vma_open, CurInv, InFault, InClose, TypeOK
<1>11. ASSUME NEW p \in Procs, NEW v \in Vmas, munmap(p, v) \/ ExitClose(p, v)
      PROVE  CurInv'
  <2>1. /\ curVma' = [curVma EXCEPT ![p] = v]
        /\ pc' = [pc EXCEPT ![p] = "close"]
        /\ owner[v] = p /\ pc[p] \in {"user", "exit"}
        /\ UNCHANGED <<curAddr, owner, cover, private, prepaging, exiting>>
    BY <1>11 DEF munmap, ExitClose, CloseDec, Goto
  <2> QED
    BY <2>1 DEF CurInv, InFault, InClose, TypeOK
<1>12. ASSUME NEW p \in Procs, exit(p) PROVE CurInv'
  BY <1>12 DEF exit, StartExit, ClearCur, Goto, CurInv, InFault, InClose, TypeOK
<1>13. ASSUME NEW p \in Procs, paging_vma_close(p) \/ LoopEnds(p) PROVE CurInv'
  <2>1. CASE Closed(p)
    <3>1. pc[p] \in InClose /\ UNCHANGED <<prepaging, exiting>>
      BY <1>13 DEF paging_vma_close, LoopEnds, InClose
    <3> QED
      BY <2>1, <3>1, SMTT(30)
      DEF Closed, FreeVma, ClearCur, Goto, CurInv, VmaInv, InFault, InClose, TypeOK
  <2>2. CASE paging_vma_close(p) /\ Goto(p, "free") /\ UNCHANGED <<curVars, vmaVars>>
    BY <2>2 DEF paging_vma_close, Goto, CurInv, InFault, InClose, TypeOK
  <2> QED
    BY <1>13, <2>1, <2>2 DEF paging_vma_close, LoopEnds
<1>17. ASSUME NEW p \in Procs, FreePage(p) \/ CountFree(p) PROVE CurInv'
  <2>1. PICK l \in {"free", "freed"} : pc' = [pc EXCEPT ![p] = l]
    BY <1>17 DEF FreePage, CountFree, Goto
  <2>2. /\ pc[p] \in {"free", "freed"}
        /\ UNCHANGED <<curVma, curAddr, owner, cover, private, prepaging, exiting>>
    BY <1>17 DEF FreePage, CountFree
  <2> QED
    BY <2>1, <2>2 DEF CurInv, InFault, InClose, TypeOK
<1>14. ASSUME NEW p \in Procs, reap(p) PROVE CurInv'
  BY <1>14 DEF reap, Goto, CurInv, InFault, InClose, TypeOK
<1>15. ASSUME NEW p \in Procs, PasFails(p) PROVE CurInv'
  BY <1>15, <1>1 DEF PasFails
<1>16. CASE kmod_paging_init \/ RegisterFails \/ kmod_paging_exit \/ SetDemandPaging \/ Stopped
  BY <1>16, <1>1 DEF kmod_paging_init, RegisterFails, kmod_paging_exit, SetDemandPaging,
     Stopped, vars
<1> QED
  BY <1>2, <1>3, <1>4, <1>5, <1>8, <1>9, <1>10, <1>11, <1>12, <1>13, <1>14, <1>15, <1>16,
     <1>17
  DEF Next, Syscall, Handler

\* The steps that do something with a page or the list, and what all others leave
\* as it is.
PageStep(p) ==
  \/ alloc_page(p) \/ RemapFails(p) \/ NodeFails(p)
  \/ kmalloc_node(p) \/ list_add(p) \/ FreePage(p)
SamePages ==
  /\ UNCHANGED <<used, orphans, ref_page_list, seen, addsMet>>
  /\ \A q \in Procs : (InHand(q)' <=> InHand(q)) /\ (Adding(q)' <=> Adding(q))
  /\ \A q \in Procs : InHand(q) => curPage'[q] = curPage[q]

\* The other steps hold no page and take none up.
LEMMA OtherSteps ==
  ASSUME IInv, Next
  PROVE  SamePages \/ \E p \in Procs : PageStep(p)
<1> USE ConstFacts
<1> USE DEF modVars, ctxVars, curVars, vmaVars, pasVars, memVars, listVars, metVars, cntVars
<1>a. TypeOK
  BY DEF IInv
<1>1. ASSUME UNCHANGED <<used, orphans, ref_page_list, seen, addsMet, pc, curPage>>
      PROVE  SamePages
  BY <1>1 DEF SamePages, InHand
<1>2. ASSUME NEW p \in Procs, NEW l \in {"user", "alloc", "exit", "close", "free"},
             UNCHANGED <<used, orphans, ref_page_list, seen, addsMet>>, Goto(p, l),
             \A q \in Procs \ {p} : curPage'[q] = curPage[q], ~InHand(p)
      PROVE  SamePages
  <2>1. \A q \in Procs : (InHand(q)' <=> InHand(q)) /\ (Adding(q)' <=> Adding(q))
    BY <1>2, <1>a DEF Goto, InHand, TypeOK
  <2> QED
    BY <1>2, <2>1 DEF SamePages
<1>3. ASSUME NEW p \in Procs, NEW v \in Vmas, NEW s \in Pas, NEW S \in SUBSET Addr,
             paging_mmap(p, v, s, S)
      PROVE  SamePages
  <2>1. CASE UNCHANGED <<pc, curPage>>
    BY <1>1, <1>3, <2>1 DEF paging_mmap
  <2>2. CASE Goto(p, "alloc") /\ curPage' = curPage
    BY <1>2, <1>3, <2>2 DEF paging_mmap, InHand
  <2> QED
    BY <1>3, <2>1, <2>2 DEF paging_mmap
<1>4. ASSUME NEW p \in Procs, NEW v \in Vmas, NEW a \in Addr, paging_vma_fault(p, v, a)
      PROVE  SamePages
  BY <1>2, <1>4 DEF paging_vma_fault, InHand
<1>5. ASSUME NEW p \in Procs, remap_pfn_range(p) PROVE SamePages
  <2>1. /\ pc[p] = "remap" /\ pc' = [pc EXCEPT ![p] = "node"]
        /\ UNCHANGED <<used, orphans, ref_page_list, seen, addsMet, curPage>>
    BY <1>5 DEF remap_pfn_range, Goto
  <2> QED
    BY <1>a, <2>1 DEF SamePages, InHand, TypeOK
<1>6. ASSUME NEW p \in Procs, CountAlloc(p) PROVE SamePages
  BY <1>2, <1>6, <1>a DEF CountAlloc, ClearCur, InHand, TypeOK
<1>7. ASSUME NEW p \in Procs, AllocFails(p) PROVE SamePages
  BY <1>2, <1>7, <1>a DEF AllocFails, AbortMmap, ClearCur, InHand, TypeOK
<1>8. ASSUME NEW p \in Procs, NEW v \in Vmas, NEW w \in Vmas, NEW S \in SUBSET Addr,
             paging_vma_open(p, v, w, S)
      PROVE  SamePages
  BY <1>1, <1>8 DEF paging_vma_open
<1>9. ASSUME NEW p \in Procs, NEW v \in Vmas, munmap(p, v) \/ ExitClose(p, v)
      PROVE  SamePages
  BY <1>2, <1>9 DEF munmap, ExitClose, CloseDec, InHand
<1>10. ASSUME NEW p \in Procs, exit(p) PROVE SamePages
  BY <1>2, <1>10, <1>a DEF exit, StartExit, ClearCur, InHand, TypeOK
<1>11. ASSUME NEW p \in Procs, paging_vma_close(p) \/ LoopEnds(p) PROVE SamePages
  <2>1. /\ UNCHANGED <<used, orphans, ref_page_list, seen, addsMet>> /\ ~InHand(p)
        /\ \A q \in Procs \ {p} : curPage'[q] = curPage[q]
    BY <1>11, <1>a DEF paging_vma_close, LoopEnds, Closed, ClearCur, InHand, TypeOK
  <2>2. PICK l \in {"user", "exit", "free"} : Goto(p, l)
    BY <1>11 DEF paging_vma_close, LoopEnds, Closed
  <2> QED
    BY <1>2, <2>1, <2>2
<1>12. ASSUME NEW p \in Procs, CountFree(p) \/ reap(p) PROVE SamePages
  BY <1>2, <1>12 DEF CountFree, reap, InHand
<1>13. ASSUME NEW p \in Procs, PasFails(p) PROVE SamePages
  BY <1>1, <1>13 DEF PasFails
<1>14. CASE kmod_paging_init \/ RegisterFails \/ kmod_paging_exit \/ SetDemandPaging \/ Stopped
  BY <1>1, <1>14 DEF kmod_paging_init, RegisterFails, kmod_paging_exit, SetDemandPaging,
     Stopped, vars
<1>15. ASSUME NEW p \in Procs, Handler(p) PROVE SamePages \/ PageStep(p)
  BY <1>5, <1>6, <1>7, <1>9, <1>11, <1>12, <1>15 DEF Handler, PageStep
<1>16. ASSUME NEW p \in Procs, Syscall(p) PROVE SamePages
  BY <1>3, <1>4, <1>8, <1>9, <1>10, <1>13, <1>16 DEF Syscall
<1> QED
  BY <1>14, <1>15, <1>16 DEF Next

\* The pages of the list, of the list_adds and of the do_faults stay allocated and
\* different.
LEMMA HandStep ==
  ASSUME IInv, Next
  PROVE  HandInv'
<1> USE ConstFacts
<1> USE DEF modVars, ctxVars, curVars, vmaVars, pasVars, memVars, listVars, metVars, cntVars
<1>a. TypeOK /\ HandInv /\ MeetInv
  BY DEF IInv
<1>1. CASE SamePages
  BY <1>1, <1>a DEF SamePages, HandInv
<1>2. ASSUME NEW p \in Procs, alloc_page(p) PROVE HandInv'
  <2>1. PICK f \in Frames \ used :
          used' = used \cup {f} /\ curPage' = [curPage EXCEPT ![p] = f]
    BY <1>2 DEF alloc_page
  <2>2. /\ pc[p] = "alloc" /\ pc' = [pc EXCEPT ![p] = "remap"]
        /\ UNCHANGED <<orphans, ref_page_list, seen, addsMet>>
    BY <1>2 DEF alloc_page, Goto
  <2> QED
    BY <1>a, <2>1, <2>2, SMTT(30) DEF HandInv, InHand, TypeOK
<1>3. ASSUME NEW p \in Procs, RemapFails(p) PROVE HandInv'
  <2>1. /\ pc[p] = "remap" /\ used' = used \ {curPage[p]}
        /\ \E l \in {"user", "exit"} : pc' = [pc EXCEPT ![p] = l]
        /\ curPage' = [curPage EXCEPT ![p] = None]
        /\ UNCHANGED <<orphans, ref_page_list, seen, addsMet>>
    BY <1>3 DEF RemapFails, AbortMmap, StartExit, ClearCur, Goto
  <2> QED
    BY <1>a, <2>1, SMTT(30) DEF HandInv, InHand, TypeOK
<1>4. ASSUME NEW p \in Procs, NodeFails(p) PROVE HandInv'
  <2>1. /\ pc[p] = "node" /\ orphans' = orphans \cup {curPage[p]}
        /\ \E l \in {"stuck", "exit"} : pc' = [pc EXCEPT ![p] = l]
        /\ \A q \in Procs : q # p => curPage'[q] = curPage[q]
        /\ UNCHANGED <<used, ref_page_list, seen, addsMet>>
    BY <1>4, <1>a DEF NodeFails, StartExit, ClearCur, Goto, TypeOK
  <2> QED
    BY <1>a, <2>1, SMTT(30) DEF HandInv, InHand, TypeOK
<1>5. ASSUME NEW p \in Procs, kmalloc_node(p) PROVE HandInv'
  <2>1. /\ pc[p] = "node" /\ pc' = [pc EXCEPT ![p] = "add"]
        /\ seen' = [seen EXCEPT ![p] = ref_page_list] /\ (~addsMet' => ~addsMet)
        /\ UNCHANGED <<used, orphans, ref_page_list, curPage>>
    BY <1>5, <1>a DEF kmalloc_node, Goto, TypeOK
  <2> QED
    BY <1>a, <2>1, SMTT(30) DEF HandInv, InHand, TypeOK
<1>6. ASSUME NEW p \in Procs, list_add(p) PROVE HandInv'
  <2>1. /\ pc[p] = "add" /\ pc' = [pc EXCEPT ![p] = "count"]
        /\ ref_page_list' = seen[p] \cup {curPage[p]} /\ seen' = [seen EXCEPT ![p] = {}]
        /\ UNCHANGED <<used, orphans, curPage, addsMet>>
    BY <1>6 DEF list_add, Goto
  <2>2. ~addsMet => seen[p] = ref_page_list
    BY <1>a, <2>1 DEF MeetInv
  <2> QED
    BY <1>a, <2>1, <2>2, SMTT(30) DEF HandInv, InHand, TypeOK
<1>7. ASSUME NEW p \in Procs, FreePage(p) PROVE HandInv'
  <2>1. PICK f \in ref_page_list : used' = used \ {f} /\ ref_page_list' = ref_page_list \ {f}
    BY <1>7 DEF FreePage
  <2>2. /\ pc[p] = "free" /\ pc' = [pc EXCEPT ![p] = "freed"] /\ ~closeMet
        /\ UNCHANGED <<orphans, seen, curPage, addsMet>>
    BY <1>7 DEF FreePage, Goto
  <2>3. \A q \in Procs : seen[q] = {}
    BY <1>a, <2>2 DEF MeetInv, HandInv
  <2> QED
    BY <1>a, <2>1, <2>2, <2>3, SMTT(30) DEF HandInv, InHand, TypeOK
<1> QED
  BY <1>1, <1>2, <1>3, <1>4, <1>5, <1>6, <1>7, OtherSteps DEF PageStep

\* What has met is noted: list_adds that are alone see the list as it is, and a loop
\* that is alone sees no list_add.
LEMMA MeetStep ==
  ASSUME IInv, Next
  PROVE  MeetInv'
<1> USE ConstFacts
<1> USE DEF modVars, ctxVars, curVars, vmaVars, pasVars, memVars, listVars, metVars, cntVars
<1>a. TypeOK /\ MeetInv
  BY DEF IInv
<1>1. ASSUME UNCHANGED <<ref_page_list, seen, addsMet, closeMet>>,
             \A q \in Procs : (Adding(q)' <=> Adding(q)) /\ (Freeing(q)' => Freeing(q))
      PROVE  MeetInv'
  BY <1>1, <1>a DEF MeetInv
<1>2. ASSUME NEW p \in Procs, ~Adding(p),
             NEW l \in {"user", "alloc", "remap", "node", "stuck", "exit", "close"},
             UNCHANGED <<ref_page_list, seen, addsMet, closeMet>>, Goto(p, l)
      PROVE  MeetInv'
  <2>1. \A q \in Procs : (Adding(q)' <=> Adding(q)) /\ (Freeing(q)' => Freeing(q))
    BY <1>2, <1>a DEF Goto, TypeOK
  <2> QED
    BY <1>1, <1>2, <2>1
<1>3. ASSUME NEW p \in Procs, kmalloc_node(p) PROVE MeetInv'
  <2>1. /\ pc[p] = "node" /\ pc' = [pc EXCEPT ![p] = "add"] /\ ~closeMet
        /\ seen' = [seen EXCEPT ![p] = ref_page_list] /\ ref_page_list' = ref_page_list
    BY <1>3 DEF kmalloc_node, Goto
  <2>2. ~closeMet' => \A q \in Procs : ~Freeing(q)
    BY <1>3 DEF kmalloc_node
  <2>3. ~addsMet' => ~addsMet /\ \A q \in Procs : ~Adding(q)
    BY <1>3, <1>a DEF kmalloc_node, TypeOK
  <2> QED
    BY <1>a, <2>1, <2>2, <2>3 DEF MeetInv, TypeOK
<1>4. ASSUME NEW p \in Procs, list_add(p) PROVE MeetInv'
  <2>1. /\ pc[p] = "add" /\ pc' = [pc EXCEPT ![p] = "count"]
        /\ seen' = [seen EXCEPT ![p] = {}] /\ UNCHANGED metVars
    BY <1>4 DEF list_add, Goto
  <2> QED
    BY <1>a, <2>1 DEF MeetInv, TypeOK
<1>5. ASSUME NEW p \in Procs, paging_vma_close(p) PROVE MeetInv'
  <2>1. CASE Goto(p, "free") /\ closeMet' = \E q \in Procs : Adding(q) \/ Freeing(q)
    <3>1. /\ pc[p] = "close" /\ pc' = [pc EXCEPT ![p] = "free"] /\ ~closeMet
          /\ UNCHANGED <<ref_page_list, seen, addsMet>>
      BY <1>5, <2>1 DEF paging_vma_close, Goto
    <3> QED
      BY <1>a, <2>1, <3>1 DEF MeetInv, TypeOK
  <2>2. CASE Closed(p) /\ closeMet' = closeMet
    BY <1>2, <1>5, <2>2 DEF paging_vma_close, Closed
  <2> QED
    BY <1>5, <2>1, <2>2 DEF paging_vma_close
<1>6. ASSUME NEW p \in Procs, FreePage(p) \/ CountFree(p) PROVE MeetInv'
  <2>1. PICK l \in {"free", "freed"} : pc' = [pc EXCEPT ![p] = l]
    BY <1>6 DEF FreePage, CountFree, Goto
  <2>2. /\ Freeing(p) /\ ~closeMet /\ UNCHANGED <<seen, metVars>>
    BY <1>6 DEF FreePage, CountFree
  <2>3. \A q \in Procs : ~Adding(q)' /\ (Freeing(q)' <=> Freeing(q))
    BY <1>a, <2>1, <2>2 DEF MeetInv, TypeOK
  <2> QED
    BY <1>a, <2>2, <2>3 DEF MeetInv
<1>7. ASSUME NEW p \in Procs, LoopEnds(p) \/ reap(p) PROVE MeetInv'
  BY <1>2, <1>7 DEF LoopEnds, Closed, reap
<1>8. ASSUME NEW p \in Procs,
             \/ alloc_page(p) \/ AllocFails(p) \/ remap_pfn_range(p) \/ RemapFails(p)
             \/ NodeFails(p) \/ CountAlloc(p) \/ exit(p)
      PROVE  MeetInv'
  BY <1>2, <1>8 DEF alloc_page, AllocFails, remap_pfn_range, RemapFails, NodeFails, CountAlloc,
     exit, AbortMmap, StartExit
<1>9. ASSUME NEW p \in Procs, NEW v \in Vmas, munmap(p, v) \/ ExitClose(p, v)
      PROVE  MeetInv'
  BY <1>2, <1>9 DEF munmap, ExitClose, CloseDec
<1>10. ASSUME NEW p \in Procs, NEW v \in Vmas, NEW a \in Addr, paging_vma_fault(p, v, a)
       PROVE  MeetInv'
  BY <1>2, <1>10 DEF paging_vma_fault
<1>11. ASSUME NEW p \in Procs, NEW v \in Vmas, NEW s \in Pas, NEW S \in SUBSET Addr,
              paging_mmap(p, v, s, S)
       PROVE  MeetInv'
  BY <1>1, <1>2, <1>11 DEF paging_mmap
<1>12. ASSUME NEW p \in Procs, NEW v \in Vmas, NEW w \in Vmas, NEW S \in SUBSET Addr,
              paging_vma_open(p, v, w, S)
       PROVE  MeetInv'
  BY <1>1, <1>12 DEF paging_vma_open
<1>13. ASSUME NEW p \in Procs, PasFails(p) PROVE MeetInv'
  BY <1>1, <1>13 DEF PasFails
<1>14. CASE kmod_paging_init \/ RegisterFails \/ kmod_paging_exit \/ SetDemandPaging \/ Stopped
  <2>1. UNCHANGED <<ref_page_list, seen, addsMet, closeMet, pc>>
    BY <1>14 DEF kmod_paging_init, RegisterFails, kmod_paging_exit, SetDemandPaging, Stopped, vars
  <2> QED
    BY <1>1, <2>1
<1> QED
  BY <1>3, <1>4, <1>5, <1>6, <1>7, <1>8, <1>9, <1>10, <1>11, <1>12, <1>13, <1>14
  DEF Next, Syscall, Handler

\* While a loop runs its process splits and closes nothing, and no other process
\* has a VMA with its pa_state_struct.
LEMMA ZeroStep ==
  ASSUME IInv, Next
  PROVE  ZeroInv'
<1> USE ConstFacts
<1> USE DEF modVars, ctxVars, curVars, vmaVars, pasVars, memVars, listVars, metVars, cntVars
<1>a. TypeOK /\ CurInv /\ VmaInv /\ ZeroInv
  BY DEF IInv
<1>b. \A q \in Procs : Freeing(q) =>
        /\ curVma[q] \in Vmas /\ owner[curVma[q]] = q
        /\ private[curVma[q]] \in pas /\ private[curVma[q]] \in Pas
  BY <1>a DEF CurInv, VmaInv, InClose, TypeOK
<1>1. ASSUME \A q \in Procs : Freeing(q)' =>
               /\ Freeing(q) /\ curVma'[q] = curVma[q]
               /\ private'[curVma[q]] = private[curVma[q]]
               /\ ref_count'[private[curVma[q]]] = ref_count[private[curVma[q]]]
      PROVE  ZeroInv'
  BY <1>1, <1>a DEF ZeroInv
<1>2. ASSUME UNCHANGED <<private, ref_count, pc, curVma>> PROVE ZeroInv'
  BY <1>2, <1>1
<1>3. ASSUME NEW p \in Procs, UNCHANGED <<private, ref_count>>,
             NEW l \in InKernel \cup {"user"},
             l \notin {"free", "freed"} \/ (Freeing(p) /\ curVma' = curVma),
             Goto(p, l), \A q \in Procs : q # p => curVma'[q] = curVma[q]
      PROVE  ZeroInv'
  <2>1. \A q \in Procs : Freeing(q)' => Freeing(q) /\ curVma'[q] = curVma[q]
    BY <1>3, <1>a DEF Goto, TypeOK
  <2> QED
    BY <1>1, <1>3, <2>1
<1>4. ASSUME NEW p \in Procs, NEW v \in Vmas, NEW s \in Pas, NEW S \in SUBSET Addr,
             paging_mmap(p, v, s, S)
      PROVE  ZeroInv'
  <2>1. /\ pc[p] = "user" /\ owner[v] = None /\ s \notin pas
        /\ private' = [private EXCEPT ![v] = s] /\ ref_count' = [ref_count EXCEPT ![s] = 1]
        /\ UNCHANGED <<pc, curVma>> \/ (Goto(p, "alloc") /\ curVma' = [curVma EXCEPT ![p] = v])
    BY <1>4 DEF paging_mmap
  <2>2. \A q \in Procs : Freeing(q)' => Freeing(q) /\ curVma'[q] = curVma[q]
    BY <1>a, <2>1 DEF Goto, TypeOK
  <2>3. \A q \in Procs : Freeing(q) => curVma[q] # v /\ private[curVma[q]] # s
    BY <1>b, <2>1
  <2> QED
    BY <1>1, <1>a, <1>b, <2>1, <2>2, <2>3 DEF TypeOK
<1>5. ASSUME NEW p \in Procs, NEW code, AbortMmap(p, code), ref_count' = ref_count
      PROVE  ZeroInv'
  <2>1. /\ curVma[p] \in Vmas /\ owner[curVma[p]] = p /\ ~Freeing(p)
    BY <1>5, <1>a DEF AbortMmap, CurInv, InFault
  <2>2. /\ private' = [private EXCEPT ![curVma[p]] = None]
        /\ pc' = [pc EXCEPT ![p] = "user"] /\ curVma' = [curVma EXCEPT ![p] = None]
    BY <1>5 DEF AbortMmap, FreeVma, ClearCur, Goto
  <2>3. \A q \in Procs : Freeing(q)' => Freeing(q) /\ q # p /\ curVma'[q] = curVma[q]
    BY <1>a, <2>2 DEF TypeOK
  <2> QED
    BY <1>1, <1>5, <1>a, <1>b, <2>1, <2>2, <2>3 DEF TypeOK
<1>6. ASSUME NEW p \in Procs, NEW v \in Vmas, NEW w \in Vmas, NEW S \in SUBSET Addr,
             paging_vma_open(p, v, w, S)
      PROVE  ZeroInv'
  <2>1. /\ pc[p] = "user" /\ owner[v] = p /\ owner[w] = None
        /\ private' = [private EXCEPT ![w] = private[v]]
        /\ ref_count' = [ref_count EXCEPT ![private[v]] = ref_count[private[v]] + 1]
        /\ UNCHANGED <<pc, curVma>>
    BY <1>6 DEF paging_vma_open
  <2>2. \A q \in Procs : Freeing(q) => curVma[q] # w /\ private[curVma[q]] # private[v]
    BY <1>a, <1>b, <2>1 DEF VmaInv, TypeOK
  <2> QED
    BY <1>1, <1>a, <1>b, <2>1, <2>2 DEF TypeOK
<1>7. ASSUME NEW p \in Procs, NEW v \in Vmas, munmap(p, v) \/ ExitClose(p, v)
      PROVE  ZeroInv'
  <2>1. /\ pc[p] \in {"user", "exit"} /\ owner[v] = p /\ private' = private
        /\ ref_count' = [ref_count EXCEPT ![private[v]] = ref_count[private[v]] - 1]
        /\ pc' = [pc EXCEPT ![p] = "close"] /\ curVma' = [curVma EXCEPT ![p] = v]
    BY <1>7 DEF munmap, ExitClose, CloseDec, Goto
  <2>2. \A q \in Procs : Freeing(q) => private[curVma[q]] # private[v]
    BY <1>a, <1>b, <2>1 DEF VmaInv, TypeOK
  <2>3. \A q \in Procs : Freeing(q)' => Freeing(q) /\ q # p /\ curVma'[q] = curVma[q]
    BY <1>a, <2>1 DEF TypeOK
  <2> QED
    BY <1>1, <1>a, <1>b, <2>1, <2>2, <2>3 DEF TypeOK
<1>8. ASSUME NEW p \in Procs, paging_vma_close(p) \/ LoopEnds(p) PROVE ZeroInv'
  <2>1. CASE Closed(p)
    <3>1. /\ curVma[p] \in Vmas /\ owner[curVma[p]] = p /\ ref_count' = ref_count
      BY <1>8, <1>a DEF paging_vma_close, LoopEnds, CurInv, InClose
    <3>2. /\ private' = [private EXCEPT ![curVma[p]] = None]
          /\ \E l \in {"user", "exit"} : pc' = [pc EXCEPT ![p] = l]
          /\ curVma' = [curVma EXCEPT ![p] = None]
      BY <2>1 DEF Closed, FreeVma, ClearCur, Goto
    <3>3. \A q \in Procs : Freeing(q)' => Freeing(q) /\ q # p /\ curVma'[q] = curVma[q]
      BY <1>a, <3>2 DEF TypeOK
    <3> QED
      BY <1>1, <1>a, <1>b, <3>1, <3>2, <3>3 DEF TypeOK
  <2>2. CASE /\ paging_vma_close(p) /\ LastRef(private[curVma[p]]) /\ Goto(p, "free")
             /\ UNCHANGED <<curVars, vmaVars>>
    BY <1>a, <2>2 DEF paging_vma_close, Goto, ZeroInv, TypeOK
  <2> QED
    BY <1>8, <2>1, <2>2 DEF paging_vma_close, LoopEnds
<1>9. ASSUME NEW p \in Procs,
             \/ PasFails(p) \/ exit(p) \/ alloc_page(p) \/ remap_pfn_range(p) \/ kmalloc_node(p)
             \/ list_add(p) \/ NodeFails(p) \/ CountAlloc(p) \/ FreePage(p) \/ CountFree(p)
             \/ reap(p)
      PROVE  ZeroInv'
  <2>1. UNCHANGED <<private, ref_count>> /\ \A q \in Procs : q # p => curVma'[q] = curVma[q]
    BY <1>9, <1>a DEF PasFails, exit, alloc_page, remap_pfn_range, kmalloc_node, list_add,
       NodeFails, CountAlloc, FreePage, CountFree, reap, StartExit, ClearCur, TypeOK
  <2>2. CASE PasFails(p)
    BY <1>2, <2>2 DEF PasFails
  <2>3. CASE FreePage(p) \/ CountFree(p)
    BY <1>3, <2>1, <2>3 DEF FreePage, CountFree, InKernel
  <2>4. CASE ~PasFails(p) /\ ~FreePage(p) /\ ~CountFree(p)
    <3>1. PICK l \in {"user", "alloc", "remap", "node", "add", "count", "stuck", "exit"} :
            Goto(p, l)
      BY <1>9, <2>4 DEF exit, alloc_page, remap_pfn_range, kmalloc_node, list_add,
         NodeFails, CountAlloc, reap, StartExit
    <3>2. l \in InKernel \cup {"user"} /\ l \notin {"free", "freed"}
      BY DEF InKernel
    <3> QED
      BY <1>3, <2>1, <3>1, <3>2
  <2> QED
    BY <2>2, <2>3, <2>4
<1>10. ASSUME NEW p \in Procs, AllocFails(p) \/ RemapFails(p) PROVE ZeroInv'
  <2>1. CASE AbortMmap(p, VM_FAULT_OOM) \/ AbortMmap(p, VM_FAULT_SIGBUS)
    BY <1>5, <1>10, <2>1 DEF AllocFails, RemapFails
  <2>2. CASE /\ UNCHANGED vmaVars /\ ClearCur(p)
             /\ Goto(p, "user") \/ Goto(p, "exit")
    BY <1>3, <1>10, <1>a, <2>2 DEF AllocFails, RemapFails, ClearCur, InKernel, TypeOK
  <2> QED
    BY <1>10, <2>1, <2>2 DEF AllocFails, RemapFails, StartExit
<1>11. ASSUME NEW p \in Procs, NEW v \in Vmas, NEW a \in Addr, paging_vma_fault(p, v, a)
       PROVE  ZeroInv'
  BY <1>3, <1>11, <1>a DEF paging_vma_fault, InKernel, TypeOK
<1>12. CASE kmod_paging_init \/ RegisterFails \/ kmod_paging_exit \/ SetDemandPaging \/ Stopped
  BY <1>2, <1>12 DEF kmod_paging_init, RegisterFails, kmod_paging_exit, SetDemandPaging,
     Stopped, vars
<1> QED
  BY <1>4, <1>6, <1>7, <1>8, <1>9, <1>10, <1>11, <1>12 DEF Next, Syscall, Handler

\* A step that moves no process into or out of paging_vma_close.
LEMMA ClosingFrame ==
  ASSUME TypeOK, NEW p \in Procs, NEW l \in InKernel \cup {"user"}, Goto(p, l),
         pc[p] \in InClose <=> l \in InClose,
         \A q \in Procs : q # p \/ pc[p] \in InClose => curVma'[q] = curVma[q]
  PROVE  \A w \in Vmas : Closing(w)' <=> Closing(w)
<1>1. \A q \in Procs : pc'[q] \in InClose <=> pc[q] \in InClose
  BY DEF Goto, TypeOK
<1>2. \A q \in Procs : pc[q] \in InClose => curVma'[q] = curVma[q]
  OBVIOUS
<1>3. \A w \in Vmas : Closing(w) <=> \E q \in Procs : pc[q] \in InClose /\ curVma[q] = w
  BY DEF Closing, InClose
<1>4. \A w \in Vmas : Closing(w)' <=> \E q \in Procs : pc'[q] \in InClose /\ curVma'[q] = w
  BY DEF Closing, InClose
<1> QED
  BY <1>1, <1>2, <1>3, <1>4

\* A pa_state_struct whose pointers and closers a step leaves alone.
LEMMA RefFrame ==
  ASSUME RefInv, NEW s \in pas, ref_count'[s] = ref_count[s],
         \A w \in Vmas : private'[w] = s <=> private[w] = s,
         \A w \in Vmas : private[w] = s => (Closing(w)' <=> Closing(w))
  PROVE  \/ Sharers(s)' # {} /\ ref_count'[s] = Cardinality(Holders(s)')
         \/ Sharers(s)' = {} /\ CanFail \cap {"alloc_page", "remap_pfn_range"} # {}
<1>1. Sharers(s)' = Sharers(s)
  BY DEF Sharers
<1>2. Holders(s)' = Holders(s)
  BY <1>1 DEF Holders, Sharers
<1> QED
  BY <1>1, <1>2 DEF RefInv

\* Adding a holder to a set of VMAs, and taking one off.
LEMMA AddHolder ==
  ASSUME NEW s, NEW H \in SUBSET Vmas, NEW w, w \notin H, Holders(s) = H
  PROVE  Cardinality(H \cup {w}) = Cardinality(H) + 1
  BY HoldersFinite, FS_AddElement

\* The holders when paging_vma_close takes one off.
LEMMA RemoveHolder ==
  ASSUME NEW s, NEW w \in Holders(s)
  PROVE  Cardinality(Holders(s) \ {w}) = Cardinality(Holders(s)) - 1
  BY HoldersFinite, FS_RemoveElement

\* The count of a fresh pa_state_struct.
LEMMA MmapRef ==
  ASSUME IInv, NEW p \in Procs, NEW v \in Vmas, NEW s \in Pas, NEW S \in SUBSET Addr,
         paging_mmap(p, v, s, S)
  PROVE  RefInv'
<1> USE ConstFacts
<1>1. TypeOK /\ VmaInv /\ CurInv /\ RefInv
  BY DEF IInv
<1>2. /\ s \notin pas /\ owner[v] = None /\ pc[p] = "user"
      /\ pas' = pas \cup {s} /\ private' = [private EXCEPT ![v] = s]
      /\ ref_count' = [ref_count EXCEPT ![s] = 1]
  BY DEF paging_mmap
<1>3. \A w \in Vmas : Closing(w)' <=> Closing(w)
  <2>1. CASE UNCHANGED <<pc, curVma>>
    BY <2>1 DEF Closing
  <2>2. CASE Goto(p, "alloc") /\ curVma' = [curVma EXCEPT ![p] = v]
    BY <1>1, <1>2, <2>2, ClosingFrame DEF TypeOK, InKernel, InClose
  <2> QED
    BY <2>1, <2>2 DEF paging_mmap, curVars
<1>4. \A w \in Vmas : private[w] # s
  BY <1>1, <1>2 DEF VmaInv, TypeOK
<1>5. ~Closing(v)
  BY <1>1, <1>2 DEF CurInv, Closing, InClose
<1>6. Sharers(s)' = {v} /\ Holders(s)' = {v}
  BY <1>1, <1>2, <1>3, <1>4, <1>5 DEF Sharers, Holders, TypeOK
<1>7. ref_count'[s] = Cardinality(Holders(s)')
  BY <1>1, <1>2, <1>6, FS_Singleton DEF TypeOK
<1>8. ASSUME NEW t \in pas
      PROVE  \/ Sharers(t)' # {} /\ ref_count'[t] = Cardinality(Holders(t)')
             \/ Sharers(t)' = {} /\ CanFail \cap {"alloc_page", "remap_pfn_range"} # {}
  <2>1. t # s /\ t \in Pas
    BY <1>1, <1>2 DEF TypeOK
  <2>2. ref_count'[t] = ref_count[t]
    BY <1>1, <1>2, <2>1 DEF TypeOK
  <2>3. \A w \in Vmas : private'[w] = t <=> private[w] = t
    BY <1>1, <1>2, <2>1 DEF TypeOK, VmaInv
  <2> QED
    BY <1>1, <1>3, <2>2, <2>3, RefFrame
<1> QED
  BY <1>2, <1>6, <1>7, <1>8 DEF RefInv

\* The count of the one an aborted mmap leaves without a VMA.
LEMMA AbortRef ==
  ASSUME IInv, NEW p \in Procs, NEW code, pc[p] \in InFault, AbortMmap(p, code),
         UNCHANGED pasVars, CanFail \cap {"alloc_page", "remap_pfn_range"} # {}
  PROVE  RefInv'
<1> USE ConstFacts
<1>1. TypeOK /\ VmaInv /\ CurInv /\ RefInv
  BY DEF IInv
<1> PICK v \in Vmas : v = curVma[p]
  BY <1>1 DEF CurInv
<1> PICK s \in Pas : s = private[v]
  BY <1>1 DEF CurInv, VmaInv, TypeOK
<1>2. s # None /\ \A w \in Vmas : private[w] = s => w = v
  BY <1>1 DEF AbortMmap, CurInv, VmaInv
<1>3. private' = [private EXCEPT ![v] = None]
  BY DEF AbortMmap, FreeVma
<1>4. \A w \in Vmas : Closing(w)' <=> Closing(w)
  <2>1. /\ Goto(p, "user") /\ pc[p] \notin InClose
        /\ \A q \in Procs : q # p => curVma'[q] = curVma[q]
    BY <1>1 DEF AbortMmap, ClearCur, InFault, InClose, TypeOK
  <2> QED
    BY <1>1, <2>1, ClosingFrame DEF InClose
<1>5. Sharers(s)' = {}
  BY <1>1, <1>2, <1>3 DEF Sharers, TypeOK
<1>6. ASSUME NEW t \in pas, t # s
      PROVE  \/ Sharers(t)' # {} /\ ref_count'[t] = Cardinality(Holders(t)')
             \/ Sharers(t)' = {} /\ CanFail \cap {"alloc_page", "remap_pfn_range"} # {}
  <2>1. ref_count'[t] = ref_count[t]
    BY DEF pasVars
  <2>2. \A w \in Vmas : private'[w] = t <=> private[w] = t
    BY <1>1, <1>2, <1>3, <1>6 DEF TypeOK
  <2> QED
    BY <1>1, <1>4, <2>1, <2>2, RefFrame
<1> QED
  BY <1>5, <1>6 DEF RefInv, pasVars

\* The count of the one that a split shares.
LEMMA OpenRef ==
  ASSUME IInv, NEW p \in Procs, NEW v \in Vmas, NEW w \in Vmas, NEW S \in SUBSET Addr,
         paging_vma_open(p, v, w, S)
  PROVE  RefInv'
<1> DEFINE s == private[v]
<1> USE ConstFacts
<1>1. TypeOK /\ VmaInv /\ CurInv /\ RefInv
  BY DEF IInv
<1>2. /\ owner[v] = p /\ owner[w] = None /\ pc[p] = "user" /\ pas' = pas
      /\ private' = [private EXCEPT ![w] = s]
      /\ ref_count' = [ref_count EXCEPT ![s] = ref_count[s] + 1]
      /\ UNCHANGED <<pc, curVma>>
  BY DEF paging_vma_open, curVars
<1>3. \A u \in Vmas : Closing(u)' <=> Closing(u)
  BY <1>2 DEF Closing
<1>4. s \in pas /\ s \in Pas /\ s # None /\ private[w] = None
  BY <1>1, <1>2 DEF VmaInv, TypeOK
<1>5. ~Closing(w)
  BY <1>1, <1>2 DEF CurInv, Closing, InClose
<1>6. Sharers(s)' = Sharers(s) \cup {w} /\ w \notin Sharers(s) /\ v \in Sharers(s)
  BY <1>1, <1>2, <1>4 DEF Sharers, TypeOK
<1>7. Holders(s)' = Holders(s) \cup {w} /\ w \notin Holders(s)
  BY <1>3, <1>5, <1>6 DEF Holders, Sharers
<1>8. ref_count'[s] = Cardinality(Holders(s)')
  <2>1. ref_count[s] = Cardinality(Holders(s))
    BY <1>1, <1>4, <1>6 DEF RefInv
  <2>2. Holders(s) \in SUBSET Vmas
    BY DEF Holders, Sharers
  <2>3. Cardinality(Holders(s)') = Cardinality(Holders(s)) + 1
    BY <1>7, <2>2, AddHolder
  <2> QED
    BY <1>1, <1>2, <1>4, <2>1, <2>3 DEF TypeOK
<1>9. ASSUME NEW t \in pas, t # s
      PROVE  \/ Sharers(t)' # {} /\ ref_count'[t] = Cardinality(Holders(t)')
             \/ Sharers(t)' = {} /\ CanFail \cap {"alloc_page", "remap_pfn_range"} # {}
  <2>1. ref_count'[t] = ref_count[t]
    BY <1>1, <1>2, <1>9 DEF TypeOK
  <2>2. t # None /\ \A u \in Vmas : private'[u] = t <=> private[u] = t
    BY <1>1, <1>2, <1>4, <1>9 DEF TypeOK
  <2> QED
    BY <1>1, <1>3, <2>1, <2>2, RefFrame
<1> QED
  BY <1>2, <1>6, <1>8, <1>9 DEF RefInv

\* The count after the atomic_dec of a close.
LEMMA CloseDecRef ==
  ASSUME IInv, NEW p \in Procs, NEW v \in Vmas, owner[v] = p, pc[p] \notin InClose,
         CloseDec(p, v), UNCHANGED <<pas, private>>
  PROVE  RefInv'
<1> DEFINE s == private[v]
<1> USE ConstFacts
<1>1. TypeOK /\ VmaInv /\ CurInv /\ RefInv
  BY DEF IInv
<1>2. /\ pc' = [pc EXCEPT ![p] = "close"]
      /\ curVma' = [curVma EXCEPT ![p] = v]
      /\ ref_count' = [ref_count EXCEPT ![s] = ref_count[s] - 1]
  BY DEF CloseDec, Goto
<1>3. \A u \in Vmas \ {v} : Closing(u)' <=> Closing(u)
  BY <1>1, <1>2 DEF Closing, InClose, TypeOK
<1>4. Closing(v)'
  BY <1>1, <1>2 DEF Closing, TypeOK
<1>5. s \in pas /\ s \in Pas /\ v \in Holders(s) /\ ref_count[s] = Cardinality(Holders(s))
  BY <1>1, CloseHeld DEF TypeOK
<1>6. Sharers(s)' = Sharers(s) /\ v \in Sharers(s)
  BY <1>5 DEF Sharers, Holders
<1>7. Holders(s)' = Holders(s) \ {v}
  BY <1>3, <1>4, <1>6 DEF Holders, Sharers
<1>8. ref_count'[s] = Cardinality(Holders(s)')
  BY <1>1, <1>2, <1>5, <1>7, RemoveHolder DEF TypeOK
<1>9. ASSUME NEW t \in pas, t # s
      PROVE  \/ Sharers(t)' # {} /\ ref_count'[t] = Cardinality(Holders(t)')
             \/ Sharers(t)' = {} /\ CanFail \cap {"alloc_page", "remap_pfn_range"} # {}
  <2>1. ref_count'[t] = ref_count[t]
    BY <1>1, <1>2, <1>9 DEF TypeOK
  <2>2. \A u \in Vmas : private'[u] = t <=> private[u] = t
    OBVIOUS
  <2>3. \A u \in Vmas : private[u] = t => (Closing(u)' <=> Closing(u))
    BY <1>3, <1>9
  <2> QED
    BY <1>1, <2>1, <2>2, <2>3, RefFrame
<1> QED
  BY <1>6, <1>8, <1>9 DEF RefInv

\* The count when a close is over: the last close of a pa_state_struct frees it, an
\* earlier one leaves it with a holder.
LEMMA CloseRef ==
  ASSUME IInv, NEW p \in Procs, pc[p] \in InClose, Closed(p), ref_count' = ref_count,
         \/ ~LastRef(private[curVma[p]]) /\ pas' = pas
         \/ pas' = pas \ {private[curVma[p]]}
  PROVE  RefInv'
<1> USE ConstFacts
<1>1. TypeOK /\ VmaInv /\ CurInv /\ RefInv
  BY DEF IInv
<1> PICK v \in Vmas : v = curVma[p]
  BY <1>1 DEF CurInv
<1> PICK s \in Pas : s = private[v]
  BY <1>1 DEF CurInv, VmaInv, TypeOK
<1>2. /\ private' = [private EXCEPT ![v] = None] /\ ref_count' = ref_count
      /\ curVma' = [curVma EXCEPT ![p] = None]
      /\ \E l \in {"exit", "user"} : pc' = [pc EXCEPT ![p] = l]
  BY DEF Closed, FreeVma, ClearCur, Goto
<1>3. v \in Vmas /\ owner[v] = p /\ s \in pas /\ s # None
  BY <1>1, <1>2 DEF CurInv, VmaInv
<1>4. \A u \in Vmas \ {v} : Closing(u)' <=> Closing(u)
  BY <1>1, <1>2 DEF Closing, InClose, TypeOK
<1>5. Closing(v)
  BY DEF Closing, InClose
<1>6. Sharers(s)' = Sharers(s) \ {v} /\ v \in Sharers(s)
  BY <1>1, <1>2, <1>3 DEF Sharers, TypeOK
<1>7. Holders(s)' = Holders(s)
  BY <1>4, <1>5, <1>6 DEF Holders, Sharers
<1>8. ASSUME ref_count[s] # 0
      PROVE  Sharers(s)' # {} /\ ref_count'[s] = Cardinality(Holders(s)')
  <2>1. ref_count[s] = Cardinality(Holders(s))
    BY <1>1, <1>3, <1>6 DEF RefInv
  <2>2. Holders(s) # {}
    BY <1>8, <2>1, FS_EmptySet
  <2> QED
    BY <1>2, <1>5, <1>6, <1>7, <2>1, <2>2 DEF Holders
<1>9. ASSUME NEW t \in pas, t # s
      PROVE  \/ Sharers(t)' # {} /\ ref_count'[t] = Cardinality(Holders(t)')
             \/ Sharers(t)' = {} /\ CanFail \cap {"alloc_page", "remap_pfn_range"} # {}
  <2>1. t # None /\ \A u \in Vmas : private'[u] = t <=> private[u] = t
    BY <1>1, <1>2, <1>3, <1>9 DEF TypeOK
  <2>2. \A u \in Vmas : private[u] = t => (Closing(u)' <=> Closing(u))
    BY <1>4, <1>9
  <2> QED
    BY <1>1, <1>2, <2>1, <2>2, RefFrame
<1>10. (ref_count[s] # 0 /\ pas' = pas) \/ pas' = pas \ {s}
  OBVIOUS
<1> QED
  BY <1>8, <1>9, <1>10 DEF RefInv

\* The reference counts stay exact.
LEMMA RefStep ==
  ASSUME IInv, Next
  PROVE  RefInv'
<1> USE DEF modVars, ctxVars, curVars, vmaVars, pasVars, memVars, listVars, metVars, cntVars
<1> TypeOK /\ CurInv /\ VmaInv /\ RefInv
  BY DEF IInv
<1>1. ASSUME UNCHANGED <<private, pas, ref_count>>,
             \A w \in Vmas : Closing(w)' <=> Closing(w)
      PROVE  RefInv'
  BY <1>1, RefFrame DEF RefInv
<1>2. ASSUME UNCHANGED <<private, pas, ref_count, pc, curVma>>
      PROVE  RefInv'
  BY <1>2, <1>1 DEF Closing
<1>3. ASSUME NEW p \in Procs, pc[p] \notin InClose,
             NEW l \in {"user", "alloc", "remap", "node", "add", "count", "stuck", "exit"},
             Goto(p, l), \A q \in Procs : q # p => curVma'[q] = curVma[q],
             UNCHANGED <<private, pas, ref_count>>
      PROVE  RefInv'
  <2>1. l \in InKernel \cup {"user"} /\ l \notin InClose
    BY DEF InKernel, InClose
  <2> QED
    BY <1>1, <1>3, <2>1, ClosingFrame
<1>4. ASSUME NEW p \in Procs, AllocFails(p) PROVE RefInv'
  <2>1. CASE AbortMmap(p, VM_FAULT_OOM)
    BY <1>4, <2>1, AbortRef DEF AllocFails, InFault
  <2>2. CASE ClearCur(p) /\ Goto(p, "user") /\ UNCHANGED vmaVars
    BY <1>3, <1>4, <2>2 DEF AllocFails, ClearCur, InClose, TypeOK
  <2> QED
    BY <1>4, <2>1, <2>2 DEF AllocFails
<1>5. ASSUME NEW p \in Procs, RemapFails(p) PROVE RefInv'
  <2>1. CASE AbortMmap(p, VM_FAULT_SIGBUS)
    BY <1>5, <2>1, AbortRef DEF RemapFails, InFault
  <2>2. CASE StartExit(p) /\ UNCHANGED vmaVars
    BY <1>3, <1>5, <2>2 DEF RemapFails, StartExit, ClearCur, InClose, TypeOK
  <2> QED
    BY <1>5, <2>1, <2>2 DEF RemapFails
<1>6. ASSUME NEW p \in Procs, NodeFails(p) PROVE RefInv'
  BY <1>3, <1>6 DEF NodeFails, StartExit, ClearCur, InClose, TypeOK
<1>7. ASSUME NEW p \in Procs,
             \/ alloc_page(p) \/ remap_pfn_range(p) \/ kmalloc_node(p) \/ list_add(p)
             \/ exit(p) \/ reap(p)
      PROVE  RefInv'
  <2>1. PICK l \in {"user", "remap", "node", "add", "count", "exit"} : Goto(p, l)
    BY <1>7 DEF alloc_page, remap_pfn_range, kmalloc_node, list_add, exit, reap, StartExit
  <2>2. /\ pc[p] \notin InClose /\ UNCHANGED <<private, pas, ref_count>>
        /\ \A q \in Procs : q # p => curVma'[q] = curVma[q]
    BY <1>7 DEF alloc_page, remap_pfn_range, kmalloc_node, list_add, exit, reap, StartExit,
       ClearCur, InClose, TypeOK
  <2> QED
    BY <1>3, <2>1, <2>2
<1>8. ASSUME NEW p \in Procs, CountAlloc(p) PROVE RefInv'
  BY <1>3, <1>8 DEF CountAlloc, ClearCur, InClose, TypeOK
<1>9. ASSUME NEW p \in Procs, NEW v \in Vmas, NEW a \in Addr, paging_vma_fault(p, v, a)
      PROVE  RefInv'
  BY <1>3, <1>9 DEF paging_vma_fault, InClose, TypeOK
<1>10. ASSUME NEW p \in Procs, PasFails(p) PROVE RefInv'
  BY <1>2, <1>10 DEF PasFails
<1>11. ASSUME NEW p \in Procs, NEW v \in Vmas, munmap(p, v) \/ ExitClose(p, v)
       PROVE  RefInv'
  BY <1>11, CloseDecRef DEF munmap, ExitClose, InClose
<1>12. ASSUME NEW p \in Procs, paging_vma_close(p) \/ LoopEnds(p) PROVE RefInv'
  <2>1. pc[p] \in InClose /\ ref_count' = ref_count
    BY <1>12 DEF paging_vma_close, LoopEnds, InClose
  <2>2. CASE Closed(p)
    <3>1. \/ ~LastRef(private[curVma[p]]) /\ pas' = pas
          \/ pas' = pas \ {private[curVma[p]]}
      BY <1>12, <2>2 DEF paging_vma_close, LoopEnds, Closed, Goto, TypeOK
    <3> QED
      BY <2>1, <2>2, <3>1, CloseRef
  <2>3. CASE paging_vma_close(p) /\ Goto(p, "free") /\ UNCHANGED <<curVars, vmaVars>>
    BY <1>1, <2>1, <2>3, ClosingFrame DEF paging_vma_close, InKernel, InClose
  <2> QED
    BY <1>12, <2>2, <2>3 DEF paging_vma_close, LoopEnds
<1>13. ASSUME NEW p \in Procs, FreePage(p) \/ CountFree(p) PROVE RefInv'
  <2>1. PICK l \in {"free", "freed"} : Goto(p, l)
    BY <1>13 DEF FreePage, CountFree
  <2>2. pc[p] \in InClose /\ UNCHANGED <<private, pas, ref_count, curVma>>
    BY <1>13 DEF FreePage, CountFree, InClose
  <2> QED
    BY <1>1, <2>1, <2>2, ClosingFrame DEF InKernel, InClose
<1>14. CASE kmod_paging_init \/ RegisterFails \/ kmod_paging_exit \/ SetDemandPaging \/ Stopped
  BY <1>2, <1>14 DEF kmod_paging_init, RegisterFails, kmod_paging_exit, SetDemandPaging,
     Stopped, vars
<1> QED
  BY MmapRef, OpenRef, <1>4, <1>5, <1>6, <1>7, <1>8, <1>9, <1>10, <1>11, <1>12, <1>13, <1>14
  DEF Next, Syscall, Handler

\* What the balance counts is less than a counter can count.
LEMMA CountBounds ==
  ASSUME TypeOK
  PROVE  /\ IsFiniteSet(Counting) /\ IsFiniteSet(Uncounted) /\ IsFiniteSet(Entered)
         /\ Cardinality(Counting) \in 0..Modulus - 1
         /\ Cardinality(Uncounted) \in 0..Modulus - 1
         /\ Cardinality(Entered) \in 0..Modulus - 1
<1>1. Counting \in SUBSET Procs /\ Uncounted \in SUBSET Procs
  BY DEF Counting, Uncounted
<1>2. /\ IsFiniteSet(Counting) /\ Cardinality(Counting) \in Nat
      /\ Cardinality(Counting) <= Cardinality(Procs)
  BY <1>1, ConstFacts, FS_Subset, FS_CardinalityType
<1>3. /\ IsFiniteSet(Uncounted) /\ Cardinality(Uncounted) \in Nat
      /\ Cardinality(Uncounted) <= Cardinality(Procs)
  BY <1>1, ConstFacts, FS_Subset, FS_CardinalityType
<1>4. /\ IsFiniteSet(Entered) /\ Cardinality(Entered) \in Nat
      /\ Cardinality(Entered) <= Cardinality(Frames)
  <2>1. Entered \in SUBSET Frames
    BY DEF Entered, TypeOK
  <2> QED
    BY <2>1, ConstFacts, FS_Subset, FS_CardinalityType
<1> QED
  BY <1>2, <1>3, <1>4, ConstFacts

\* A handler that goes from one of its steps to another enters the steps before a
\* counter only where the step is one of them.
LEMMA Places ==
  ASSUME TypeOK, NEW p \in Procs, NEW k \in InKernel \cup {"user"}, Goto(p, k)
  PROVE  /\ Counting' = IF k = "count" THEN Counting \cup {p} ELSE Counting \ {p}
         /\ Uncounted' = IF k = "freed" THEN Uncounted \cup {p} ELSE Uncounted \ {p}
  BY DEF Counting, Uncounted, Goto, TypeOK

\* A step between two places where no page is held leaves the listed pages alone.
LEMMA EnteredFrame ==
  ASSUME TypeOK, NEW p \in Procs, ~InHand(p), UNCHANGED <<used, orphans>>,
         NEW k \in InKernel \cup {"user"}, k \notin {"remap", "node", "add"}, Goto(p, k),
         \A q \in Procs : q # p => curPage'[q] = curPage[q]
  PROVE  Entered' = Entered
<1>1. \A q \in Procs : (InHand(q)' <=> InHand(q)) /\ (InHand(q) => curPage'[q] = curPage[q])
  BY DEF InHand, Goto, TypeOK
<1>2. HeldPages' = HeldPages
  BY <1>1 DEF HeldPages
<1> QED
  BY <1>2 DEF Entered

\* What do_fault does with its page before it is listed changes nothing on the list,
\* a page that enters the list comes from a do_fault, and the loop of a close takes
\* off a page that is there.
LEMMA EnteredStep ==
  ASSUME IInv, NEW p \in Procs
  PROVE  /\ alloc_page(p) \/ remap_pfn_range(p) \/ kmalloc_node(p) => Entered' = Entered
         /\ RemapFails(p) \/ NodeFails(p) => Entered' = Entered
         /\ list_add(p) => Entered' = Entered \cup {curPage[p]} /\ curPage[p] \notin Entered
         /\ FreePage(p) => \E f \in Entered : Entered' = Entered \ {f}
<1> USE DEF modVars, ctxVars, curVars, vmaVars, pasVars, memVars, listVars, metVars, cntVars
<1>1. TypeOK /\ HandInv
  BY DEF IInv
<1>2. ASSUME alloc_page(p) PROVE Entered' = Entered
  <2>1. PICK f \in Frames \ used :
          used' = used \cup {f} /\ curPage' = [curPage EXCEPT ![p] = f]
    BY <1>2 DEF alloc_page
  <2>2. pc[p] = "alloc" /\ pc' = [pc EXCEPT ![p] = "remap"] /\ orphans' = orphans
    BY <1>2 DEF alloc_page, Goto
  <2>3. HeldPages' = HeldPages \cup {f}
    <3>1. \A q \in Procs : InHand(q)' <=> InHand(q) \/ q = p
      BY <1>1, <2>2 DEF InHand, TypeOK
    <3>2. curPage'[p] = f /\ \A q \in Procs : q # p => curPage'[q] = curPage[q]
      BY <1>1, <2>1 DEF TypeOK
    <3>3. ~InHand(p)
      BY <2>2 DEF InHand
    <3> QED
      BY <3>1, <3>2, <3>3 DEF HeldPages
  <2> QED
    BY <1>1, <2>1, <2>2, <2>3 DEF Entered, HandInv
<1>3. ASSUME remap_pfn_range(p) \/ kmalloc_node(p) PROVE Entered' = Entered
  <2>1. /\ InHand(p) /\ \E k \in {"node", "add"} : pc' = [pc EXCEPT ![p] = k]
        /\ UNCHANGED <<used, orphans, curPage>>
    BY <1>3 DEF remap_pfn_range, kmalloc_node, Goto, InHand
  <2>2. \A q \in Procs : InHand(q)' <=> InHand(q)
    BY <1>1, <2>1 DEF InHand, TypeOK
  <2>3. HeldPages' = HeldPages
    BY <2>1, <2>2 DEF HeldPages
  <2> QED
    BY <2>1, <2>3 DEF Entered
<1>4. ASSUME InHand(p), NEW k \in {"user", "stuck", "exit", "count"}, Goto(p, k),
             \A q \in Procs : q # p => curPage'[q] = curPage[q]
      PROVE  HeldPages' = HeldPages \ {curPage[p]}
  <2>1. \A q \in Procs : InHand(q)' <=> InHand(q) /\ q # p
    BY <1>1, <1>4 DEF InHand, Goto, TypeOK
  <2>2. \A q \in Procs : InHand(q) /\ q # p => curPage[q] # curPage[p]
    BY <1>1, <1>4 DEF HandInv
  <2> QED
    BY <1>4, <2>1, <2>2 DEF HeldPages
<1>5. ASSUME RemapFails(p) PROVE Entered' = Entered
  <2>1. /\ InHand(p) /\ used' = used \ {curPage[p]} /\ orphans' = orphans
        /\ \E k \in {"user", "exit"} : Goto(p, k)
        /\ \A q \in Procs : q # p => curPage'[q] = curPage[q]
    BY <1>5, <1>1 DEF RemapFails, AbortMmap, StartExit, ClearCur, InHand, TypeOK
  <2>2. HeldPages' = HeldPages \ {curPage[p]} /\ curPage[p] \in HeldPages
    BY <1>4, <2>1 DEF HeldPages
  <2> QED
    BY <2>1, <2>2 DEF Entered
<1>6. ASSUME NodeFails(p) PROVE Entered' = Entered
  <2>1. /\ InHand(p) /\ orphans' = orphans \cup {curPage[p]} /\ used' = used
        /\ \E k \in {"stuck", "exit"} : Goto(p, k)
        /\ \A q \in Procs : q # p => curPage'[q] = curPage[q]
    BY <1>6, <1>1 DEF NodeFails, StartExit, ClearCur, InHand, TypeOK
  <2>2. HeldPages' = HeldPages \ {curPage[p]} /\ curPage[p] \in HeldPages
    BY <1>4, <2>1 DEF HeldPages
  <2> QED
    BY <2>1, <2>2 DEF Entered
<1>7. ASSUME list_add(p)
      PROVE  Entered' = Entered \cup {curPage[p]} /\ curPage[p] \notin Entered
  <2>1. /\ InHand(p) /\ UNCHANGED <<used, orphans, curPage>> /\ Goto(p, "count")
    BY <1>7 DEF list_add, InHand
  <2>2. HeldPages' = HeldPages \ {curPage[p]} /\ curPage[p] \in HeldPages
    BY <1>4, <2>1 DEF HeldPages
  <2>3. curPage[p] \in used /\ curPage[p] \notin orphans
    BY <1>1, <2>1 DEF HandInv
  <2> QED
    BY <2>1, <2>2, <2>3 DEF Entered
<1>8. ASSUME FreePage(p) PROVE \E f \in Entered : Entered' = Entered \ {f}
  <2>1. PICK f \in ref_page_list : used' = used \ {f}
    BY <1>8 DEF FreePage
  <2>2. pc[p] = "free" /\ pc' = [pc EXCEPT ![p] = "freed"] /\ UNCHANGED <<orphans, curPage>>
    BY <1>8 DEF FreePage, Goto
  <2>3. \A q \in Procs : InHand(q)' <=> InHand(q)
    BY <1>1, <2>2 DEF InHand, TypeOK
  <2>4. HeldPages' = HeldPages
    BY <2>2, <2>3 DEF HeldPages
  <2>5. f \in Entered
    BY <1>1 DEF HandInv, Entered, HeldPages
  <2> QED
    BY <2>1, <2>2, <2>4, <2>5 DEF Entered
<1> QED
  BY <1>2, <1>3, <1>5, <1>6, <1>7, <1>8

\* The counters stay balanced with what has entered the list: do_fault lists before
\* it counts, the loop of a close counts after it has taken a page off.
LEMMA BalanceStep ==
  ASSUME IInv, Next
  PROVE  CountersBalance'
<1> USE DEF modVars, ctxVars, curVars, vmaVars, pasVars, memVars, listVars, metVars, cntVars
<1>1. TypeOK /\ CurInv /\ HandInv /\ CountersBalance /\ NewInv
  BY DEF IInv
<1>a. PICK c \in 0..Modulus - 1 : c = Cardinality(Counting)
  BY <1>1, CountBounds
<1>b. PICK u \in 0..Modulus - 1 : u = Cardinality(Uncounted)
  BY <1>1, CountBounds
<1>c. PICK e \in 0..Modulus - 1 : e = Cardinality(Entered)
  BY <1>1, CountBounds
<1>2. /\ Modulus \in Nat
      /\ alloc_count \in 0..Modulus - 1 /\ free_count \in 0..Modulus - 1
  BY <1>1, ConstFacts DEF TypeOK
<1>3. alloc_count + c - free_count - u - e \in {-2 * Modulus, -Modulus, 0, Modulus}
  BY <1>a, <1>b, <1>c, <1>1 DEF CountersBalance
<1>d. IsFiniteSet(Counting) /\ IsFiniteSet(Uncounted) /\ IsFiniteSet(Entered)
  BY <1>1, CountBounds
<1>4. ASSUME UNCHANGED <<alloc_count, free_count, Counting, Uncounted, Entered>>
      PROVE  CountersBalance'
  BY <1>1, <1>4 DEF CountersBalance
<1>5. ASSUME NEW p \in Procs, pc[p] \notin {"count", "freed"},
             NEW k \in InKernel \cup {"user"}, k \notin {"count", "freed"},
             Goto(p, k), UNCHANGED <<alloc_count, free_count, Entered>>
      PROVE  CountersBalance'
  <2>1. Counting' = Counting /\ Uncounted' = Uncounted
    BY <1>1, <1>5, Places DEF Counting, Uncounted
  <2> QED
    BY <1>4, <1>5, <2>1
<1>6. ASSUME NEW p \in Procs, pc[p] \notin {"count", "freed"}, ~InHand(p),
             NEW k \in {"user", "alloc", "stuck", "exit", "close", "free"},
             Goto(p, k), UNCHANGED <<alloc_count, free_count, used, orphans>>,
             \A q \in Procs : q # p => curPage'[q] = curPage[q]
      PROVE  CountersBalance'
  <2>1. k \in InKernel \cup {"user"}
    BY DEF InKernel
  <2>2. Entered' = Entered
    BY <1>1, <1>6, <2>1, EnteredFrame
  <2> QED
    BY <1>5, <1>6, <2>1, <2>2
<1>7. ASSUME UNCHANGED <<alloc_count, free_count, pc, used, orphans, curPage>>
      PROVE  CountersBalance'
  BY <1>4, <1>7 DEF Counting, Uncounted, Entered, HeldPages, InHand
<1>8. ASSUME module = "new", alloc_count' = 0, free_count' = 0,
             UNCHANGED <<pc, used, orphans, curPage>>
      PROVE  CountersBalance'
  <2>1. Counting' = {} /\ Uncounted' = {} /\ Entered' = {}
    BY <1>1, <1>8 DEF NewInv, Counting, Uncounted, Entered
  <2>2. Cardinality(Counting)' = 0 /\ Cardinality(Uncounted)' = 0 /\ Cardinality(Entered)' = 0
    BY <2>1, FS_EmptySet
  <2> QED
    BY <1>2, <1>8, <2>2 DEF CountersBalance
<1>9. ASSUME NEW p \in Procs, list_add(p) PROVE CountersBalance'
  <2>1. Entered' = Entered \cup {curPage[p]} /\ curPage[p] \notin Entered
    BY <1>9, EnteredStep
  <2>2. /\ pc[p] = "add" /\ Goto(p, "count") /\ UNCHANGED <<alloc_count, free_count>>
    BY <1>9 DEF list_add
  <2>3. Counting' = Counting \cup {p} /\ p \notin Counting /\ Uncounted' = Uncounted
    BY <1>1, <2>2, Places DEF InKernel, Counting, Uncounted
  <2>4. Cardinality(Entered)' = e + 1
    BY <1>c, <1>d, <2>1, FS_AddElement
  <2>5. Cardinality(Counting)' = c + 1
    BY <1>a, <1>d, <2>3, FS_AddElement
  <2>6. Cardinality(Uncounted)' = u
    BY <1>b, <2>3
  <2> QED
    BY <1>2, <1>3, <2>2, <2>4, <2>5, <2>6 DEF CountersBalance
<1>10. ASSUME NEW p \in Procs, CountAlloc(p) PROVE CountersBalance'
  <2>1. PICK k \in {"user", "alloc"} : Goto(p, k)
    BY <1>10 DEF CountAlloc
  <2>2. /\ pc[p] = "count" /\ alloc_count' = Wrap(alloc_count + 1) /\ free_count' = free_count
        /\ UNCHANGED <<used, orphans>> /\ \A q \in Procs : q # p => curPage'[q] = curPage[q]
    BY <1>1, <1>10 DEF CountAlloc, ClearCur, TypeOK
  <2>3. Counting' = Counting \ {p} /\ p \in Counting /\ Uncounted' = Uncounted
    BY <1>1, <2>1, <2>2, Places DEF InKernel, Counting, Uncounted
  <2>4. Entered' = Entered
    BY <1>1, <2>1, <2>2, EnteredFrame DEF InKernel, InHand
  <2>5. Cardinality(Counting)' = c - 1
    BY <1>a, <1>d, <2>3, FS_RemoveElement
  <2>6. Cardinality(Uncounted)' = u /\ Cardinality(Entered)' = e
    BY <1>b, <1>c, <2>3, <2>4
  <2>7. alloc_count' = alloc_count + 1 \/ (alloc_count' = 0 /\ alloc_count = Modulus - 1)
    BY <1>2, <2>2 DEF Wrap
  <2>8. c - 1 \in 0..Modulus - 1
    BY <1>1, <1>a, <1>2, <2>3, <1>d, FS_EmptySet
  <2>9. alloc_count' + (c - 1) - free_count - u - e \in {-2 * Modulus, -Modulus, 0, Modulus}
    BY <1>2, <1>3, <2>7, <2>8
  <2> QED
    BY <2>2, <2>5, <2>6, <2>9 DEF CountersBalance
<1>11. ASSUME NEW p \in Procs, FreePage(p) PROVE CountersBalance'
  <2>1. PICK f \in Entered : Entered' = Entered \ {f}
    BY <1>11, EnteredStep
  <2>2. pc[p] = "free" /\ Goto(p, "freed") /\ UNCHANGED <<alloc_count, free_count>>
    BY <1>11 DEF FreePage
  <2>3. Uncounted' = Uncounted \cup {p} /\ p \notin Uncounted /\ Counting' = Counting
    BY <1>1, <2>2, Places DEF InKernel, Counting, Uncounted
  <2>4. Cardinality(Entered)' = e - 1
    BY <1>c, <1>d, <2>1, FS_RemoveElement
  <2>5. Cardinality(Uncounted)' = u + 1
    BY <1>b, <1>d, <2>3, FS_AddElement
  <2>6. Cardinality(Counting)' = c
    BY <1>a, <2>3
  <2> QED
    BY <1>2, <1>3, <2>2, <2>4, <2>5, <2>6 DEF CountersBalance
<1>12. ASSUME NEW p \in Procs, CountFree(p) PROVE CountersBalance'
  <2>1. /\ pc[p] = "freed" /\ Goto(p, "free") /\ free_count' = Wrap(free_count + 1)
        /\ UNCHANGED <<alloc_count, used, orphans, curPage>>
    BY <1>12 DEF CountFree
  <2>2. Uncounted' = Uncounted \ {p} /\ p \in Uncounted /\ Counting' = Counting
    BY <1>1, <2>1, Places DEF InKernel, Counting, Uncounted
  <2>3. Entered' = Entered
    BY <1>1, <2>1, EnteredFrame DEF InKernel, InHand
  <2>4. Cardinality(Uncounted)' = u - 1
    BY <1>b, <1>d, <2>2, FS_RemoveElement
  <2>5. Cardinality(Counting)' = c /\ Cardinality(Entered)' = e
    BY <1>a, <1>c, <2>2, <2>3
  <2>6. free_count' = free_count + 1 \/ (free_count' = 0 /\ free_count = Modulus - 1)
    BY <1>2, <2>1 DEF Wrap
  <2>7. u - 1 \in 0..Modulus - 1
    BY <1>1, <1>b, <1>2, <2>2, <1>d, FS_EmptySet
  <2>8. alloc_count + c - free_count' - (u - 1) - e \in {-2 * Modulus, -Modulus, 0, Modulus}
    BY <1>2, <1>3, <2>6, <2>7
  <2> QED
    BY <2>1, <2>4, <2>5, <2>8 DEF CountersBalance
<1>13. ASSUME NEW p \in Procs,
              \/ alloc_page(p) \/ remap_pfn_range(p) \/ RemapFails(p)
              \/ kmalloc_node(p) \/ NodeFails(p)
       PROVE  CountersBalance'
  <2>1. PICK k \in {"user", "remap", "node", "add", "stuck", "exit"} : Goto(p, k)
    BY <1>13 DEF alloc_page, remap_pfn_range, RemapFails, kmalloc_node, NodeFails, AbortMmap,
       StartExit
  <2>2. pc[p] \notin {"count", "freed"} /\ UNCHANGED <<alloc_count, free_count>>
    BY <1>13 DEF alloc_page, remap_pfn_range, RemapFails, kmalloc_node, NodeFails
  <2>3. Entered' = Entered
    BY <1>13, EnteredStep
  <2> QED
    BY <1>5, <2>1, <2>2, <2>3 DEF InKernel
<1>14. ASSUME NEW p \in Procs,
              \/ AllocFails(p) \/ exit(p) \/ reap(p) \/ paging_vma_close(p) \/ LoopEnds(p)
              \/ \E v \in Vmas : munmap(p, v) \/ ExitClose(p, v)
              \/ \E v \in Vmas, a \in Addr : paging_vma_fault(p, v, a)
       PROVE  CountersBalance'
  <2>1. PICK k \in {"user", "alloc", "exit", "close", "free"} : Goto(p, k)
    BY <1>14 DEF AllocFails, exit, reap, paging_vma_close, LoopEnds, munmap, ExitClose,
       paging_vma_fault, AbortMmap, StartExit, CloseDec, Closed
  <2>2. /\ pc[p] \notin {"count", "freed"} /\ ~InHand(p)
        /\ UNCHANGED <<alloc_count, free_count, used, orphans>>
    BY <1>14 DEF AllocFails, exit, reap, paging_vma_close, LoopEnds, munmap, ExitClose,
       paging_vma_fault, InHand
  <2>3. \A q \in Procs : q # p => curPage'[q] = curPage[q]
    BY <1>1, <1>14 DEF AllocFails, exit, reap, paging_vma_close, LoopEnds, munmap, ExitClose,
       paging_vma_fault, AbortMmap, StartExit, CloseDec, Closed, ClearCur, TypeOK
  <2> QED
    BY <1>6, <2>1, <2>2, <2>3
<1>15. ASSUME NEW p \in Procs, NEW v \in Vmas, NEW s \in Pas, NEW S \in SUBSET Addr,
              paging_mmap(p, v, s, S)
       PROVE  CountersBalance'
  <2>1. CASE UNCHANGED pc
    BY <1>7, <1>15, <2>1 DEF paging_mmap
  <2>2. CASE Goto(p, "alloc")
    BY <1>6, <1>15, <2>2 DEF paging_mmap, InHand
  <2> QED
    BY <1>15, <2>1, <2>2 DEF paging_mmap
<1>16. ASSUME NEW p \in Procs, NEW v \in Vmas, NEW w \in Vmas, NEW S \in SUBSET Addr,
              paging_vma_open(p, v, w, S)
       PROVE  CountersBalance'
  BY <1>7, <1>16 DEF paging_vma_open
<1>17. ASSUME NEW p \in Procs, PasFails(p) PROVE CountersBalance'
  BY <1>7, <1>17 DEF PasFails
<1>18. CASE kmod_paging_init \/ RegisterFails
  BY <1>8, <1>18 DEF kmod_paging_init, RegisterFails
<1>19. CASE kmod_paging_exit \/ SetDemandPaging \/ Stopped
  BY <1>7, <1>19 DEF kmod_paging_exit, SetDemandPaging, Stopped, vars
<1>20. ASSUME NEW p \in Procs, Handler(p) PROVE CountersBalance'
  BY <1>9, <1>10, <1>11, <1>12, <1>13, <1>14, <1>20 DEF Handler
<1>21. ASSUME NEW p \in Procs, Syscall(p) PROVE CountersBalance'
  BY <1>14, <1>15, <1>16, <1>17, <1>21 DEF Syscall
<1> QED
  BY <1>18, <1>19, <1>20, <1>21 DEF Next

\* No process is in the module's code before the module is loaded.
LEMMA NewStep ==
  ASSUME IInv, Next
  PROVE  NewInv'
<1> USE DEF modVars, memVars
<1>1. CASE module' # "new"
  BY <1>1 DEF NewInv
<1>2. ASSUME NEW p \in Procs, Handler(p) PROVE NewInv'
  <2>1. module' = "loaded"
    BY <1>2 DEF Handler, alloc_page, AllocFails, remap_pfn_range, RemapFails, kmalloc_node,
       list_add, NodeFails, CountAlloc, ExitClose, paging_vma_close, FreePage, CountFree,
       LoopEnds, reap
  <2> QED
    BY <1>1, <2>1
<1>3. ASSUME NEW p \in Procs, Syscall(p) PROVE NewInv'
  <2>1. module' = "loaded"
    BY <1>3 DEF Syscall, paging_mmap, PasFails, paging_vma_fault, paging_vma_open, munmap, exit
  <2> QED
    BY <1>1, <2>1
<1>4. CASE RegisterFails
  BY <1>4 DEF RegisterFails, NewInv, IInv
<1>5. CASE kmod_paging_init \/ kmod_paging_exit \/ SetDemandPaging
  BY <1>1, <1>5 DEF kmod_paging_init, kmod_paging_exit, SetDemandPaging
<1>6. CASE Stopped
  BY <1>6 DEF Stopped, vars, NewInv, IInv
<1> QED
  BY <1>2, <1>3, <1>4, <1>5, <1>6 DEF Next

-----------------------------------------------------------------------------
(* The theorems *)

\* The inductive invariant: what TypeOK, RefCountExact, CountersBalance and
\* PagesAccounted need to be preserved by every step of paging.c, list_adds that
\* meet included.
THEOREM Inductive == Spec => []IInv
<1>1. Init => IInv
  BY InitIInv
<1>2. IInv /\ [Next]_vars => IInv'
  <2> SUFFICES ASSUME IInv, [Next]_vars PROVE IInv'
    OBVIOUS
  <2>1. CASE Next
    BY <2>1, TypeStep, VmaStep, CurStep, HandStep, MeetStep, ZeroStep, RefStep, BalanceStep,
       NewStep DEF IInv
  <2>2. CASE UNCHANGED vars
    <3>1. TypeOK' /\ VmaInv' /\ CurInv' /\ NewInv'
      BY <2>2 DEF vars, IInv, TypeOK, VmaInv, CurInv, NewInv
    <3>2. HandInv' /\ MeetInv' /\ ZeroInv'
      BY <2>2 DEF vars, IInv, HandInv, InHand, MeetInv, ZeroInv
    <3>3. RefInv'
      BY <2>2 DEF vars, IInv, RefInv, Sharers, Holders, Closing
    <3>4. CountersBalance'
      BY <2>2 DEF vars, IInv, CountersBalance, Counting, Uncounted, Entered, HeldPages, InHand
    <3> QED
      BY <3>1, <3>2, <3>3, <3>4 DEF IInv
  <2> QED
    BY <2>1, <2>2
<1> QED
  BY <1>1, <1>2, PTL DEF Spec

\* Every variable keeps its type: in particular a reference count of
\* pa_state_struct never goes below zero (paging_vma_close, line 95).
THEOREM TypeCorrect == Spec => []TypeOK
<1>1. IInv => TypeOK
  BY DEF IInv
<1> QED
  BY <1>1, Inductive, PTL

\* The reference counts are exact and no VMA points to a freed
\* pa_state_struct, for any number of processes, mappings and splits.
THEOREM RefCountsExact == Spec => []RefCountExact
<1>1. IInv => RefCountExact
  BY DEF IInv, VmaInv, RefInv, RefCountExact
<1> QED
  BY <1>1, Inductive, PTL

\* The counters printed when the module is removed differ by the pages that have
\* entered the list and have not been freed.
THEOREM CountersBalanced == Spec => []CountersBalance
<1>1. IInv => CountersBalance
  BY DEF IInv
<1> QED
  BY <1>1, Inductive, PTL

\* What is listed, or will be when a list_add publishes what it has loaded, is
\* allocated and no do_fault's own, through list_adds that meet; until they do, no
\* page but those whose node cannot be allocated gets lost.
THEOREM PagesAreAccounted == Spec => []PagesAccounted
<1>1. IInv => PagesAccounted
  <2> SUFFICES ASSUME IInv PROVE PagesAccounted
    OBVIOUS
  <2>1. ~addsMet => used = ref_page_list \cup HeldPages \cup orphans
    BY DEF IInv, HandInv, HeldPages
  <2> QED
    BY <2>1 DEF IInv, HandInv, PagesAccounted
<1> QED
  BY <1>1, Inductive, PTL

-----------------------------------------------------------------------------
(* What the close of the last VMA leaves behind *)

ListInv == pas = {} => ref_page_list = {}

\* A page is listed by a process that has a mapping, and the loop of the last close
\* is over when the list is empty.
LEMMA ListStep ==
  ASSUME IInv, ListInv, Next
  PROVE  ListInv'
<1> USE DEF modVars, ctxVars, curVars, vmaVars, pasVars, memVars, listVars, metVars, cntVars
<1>1. VmaInv /\ CurInv
  BY DEF IInv
<1>2. ASSUME NEW p \in Procs, list_add(p) PROVE ListInv'
  <2>1. pc[p] = "add" /\ pas' = pas
    BY <1>2 DEF list_add
  <2>2. curVma[p] \in Vmas /\ owner[curVma[p]] = p
    BY <1>1, <2>1 DEF CurInv, InFault
  <2>3. private[curVma[p]] \in pas
    BY <1>1, <2>2, ConstFacts DEF VmaInv
  <2> QED
    BY <2>1, <2>3 DEF ListInv
<1>3. ASSUME NEW p \in Procs, LoopEnds(p) PROVE ListInv'
  BY <1>3 DEF LoopEnds, ListInv
<1>8. ASSUME NEW p \in Procs, FreePage(p) PROVE ListInv'
  <2>1. \E f \in ref_page_list : ref_page_list' = ref_page_list \ {f} /\ pas' = pas
    BY <1>8 DEF FreePage
  <2> QED
    BY <2>1 DEF ListInv
<1>4. ASSUME NEW p \in Procs, NEW v \in Vmas, NEW s \in Pas, NEW S \in SUBSET Addr,
             paging_mmap(p, v, s, S)
      PROVE  ListInv'
  BY <1>4 DEF paging_mmap, ListInv
<1>5. ASSUME NEW p \in Procs,
             \/ alloc_page(p) \/ AllocFails(p) \/ remap_pfn_range(p) \/ RemapFails(p)
             \/ kmalloc_node(p) \/ NodeFails(p) \/ CountAlloc(p) \/ reap(p)
             \/ (\E v \in Vmas : ExitClose(p, v)) \/ paging_vma_close(p) \/ CountFree(p)
      PROVE  ListInv'
  <2>1. UNCHANGED <<pas, ref_page_list>>
    BY <1>5 DEF alloc_page, AllocFails, remap_pfn_range, RemapFails, kmalloc_node, NodeFails,
       CountAlloc, ExitClose, paging_vma_close, CountFree, reap
  <2> QED
    BY <2>1 DEF ListInv
<1>6. ASSUME NEW p \in Procs,
             \/ PasFails(p) \/ (\E v \in Vmas, a \in Addr : paging_vma_fault(p, v, a))
             \/ (\E v, w \in Vmas, S \in SUBSET Addr : paging_vma_open(p, v, w, S))
             \/ (\E v \in Vmas : munmap(p, v)) \/ exit(p)
      PROVE  ListInv'
  <2>1. UNCHANGED <<pas, ref_page_list>>
    BY <1>6 DEF PasFails, paging_vma_fault, paging_vma_open, munmap, exit
  <2> QED
    BY <2>1 DEF ListInv
<1>7. CASE kmod_paging_init \/ RegisterFails \/ kmod_paging_exit \/ SetDemandPaging \/ Stopped
  BY <1>7 DEF kmod_paging_init, RegisterFails, kmod_paging_exit, SetDemandPaging, Stopped,
     vars, ListInv
<1> QED
  BY <1>2, <1>3, <1>4, <1>5, <1>6, <1>7, <1>8 DEF Next, Syscall, Handler

\* Without a VMA no process is in do_fault or in a close, so what has entered the
\* list and is not freed is what is used without being an orphan.
LEMMA NothingLeftFromInv ==
  ASSUME IInv, ListInv
  PROVE  NothingLeftBehind
<1> SUFFICES ASSUME \A v \in Vmas : owner[v] = None, pas = {}
             PROVE  /\ ref_page_list = {}
                    /\ alloc_count = free_count <=> used = orphans
                    /\ ~addsMet => used = orphans
  BY DEF NothingLeftBehind
<1>1. ref_page_list = {}
  BY DEF ListInv
<1>2. \A p \in Procs : pc[p] \notin InFault \cup InClose
  BY ConstFacts DEF IInv, CurInv
<1>3. Entered = used \ orphans /\ orphans \subseteq used
  BY <1>2 DEF IInv, HandInv, Entered, HeldPages, InHand, InFault
<1>4. alloc_count = free_count <=> Entered = {}
  <2>1. Counting = {} /\ Uncounted = {}
    BY <1>2 DEF Counting, Uncounted, InFault, InClose
  <2>2. Cardinality(Counting) = 0 /\ Cardinality(Uncounted) = 0
    BY <2>1, FS_EmptySet
  <2>3. PICK e \in 0..Modulus - 1 : e = Cardinality(Entered)
    BY CountBounds DEF IInv
  <2>4. alloc_count \in 0..Modulus - 1 /\ free_count \in 0..Modulus - 1
    BY DEF IInv, TypeOK
  <2>5. alloc_count + 0 - free_count - 0 - e \in {-2 * Modulus, -Modulus, 0, Modulus}
    BY <2>2, <2>3 DEF IInv, CountersBalance
  <2>6. alloc_count = free_count <=> e = 0
    BY <2>4, <2>5, ConstFacts
  <2>7. e = 0 <=> Entered = {}
    BY <2>3, CountBounds, FS_EmptySet DEF IInv
  <2> QED
    BY <2>6, <2>7
<1>5. ASSUME ~addsMet PROVE used = orphans
  BY <1>1, <1>2, <1>5 DEF IInv, HandInv, InHand, InFault
<1> QED
  BY <1>1, <1>3, <1>4, <1>5

\* The last close leaves no node on the list, and the counters tell whether pages
\* have been lost, whatever failed and met before, for any number of processes and
\* mappings.
THEOREM LastCloseLeavesNothing == Spec => []NothingLeftBehind
<1>1. Init => ListInv
  BY DEF Init, ListInv
<1>2. IInv /\ ListInv /\ [Next]_vars => ListInv'
  <2>1. CASE UNCHANGED vars
    BY <2>1 DEF vars, ListInv
  <2> QED
    BY <2>1, ListStep
<1>3. IInv /\ ListInv => NothingLeftBehind
  BY NothingLeftFromInv
<1> QED
  BY <1>1, <1>2, <1>3, Inductive, PTL DEF Spec
-----------------------------------------------------------------------------
(* The pages of the module are a set *)

\* The loop of a close runs.
Looping == \E p \in Procs : Freeing(p)

\* A step that is not one of a loop.
LEMMA LoopFrame ==
  ASSUME TypeOK, NEW p \in Procs, ~Freeing(p), NEW l, l \notin {"free", "freed"}, Goto(p, l)
  PROVE  Looping' <=> Looping
<1>1. \A q \in Procs : Freeing(q)' <=> Freeing(q)
  BY DEF Goto, TypeOK
<1> QED
  BY <1>1 DEF Looping

\* A step that leaves the pages and the list alone and begins or ends no loop.
LEMMA SetFrame ==
  ASSUME UNCHANGED <<used, ref_page_list, addsMet, closeMet>>, Looping' <=> Looping
  PROVE  UNCHANGED Set!setVars
  BY DEF Set!setVars, Looping

\* What do_fault does with its page is a step on the set of pages: it is taken, and
\* given up where it cannot be mapped, or added; a list_add that has met another one
\* may make the set a different one.
LEMMA FaultOnSet ==
  ASSUME IInv, NEW p \in Procs, ~closeMet',
         alloc_page(p) \/ RemapFails(p) \/ kmalloc_node(p) \/ list_add(p)
  PROVE  Set!SetNext
<1> USE DEF modVars, ctxVars, curVars, vmaVars, pasVars, memVars, listVars, metVars, cntVars
<1>1. TypeOK /\ HandInv /\ MeetInv
  BY DEF IInv
<1>2. Looping' <=> Looping
  <2>1. ~Freeing(p) /\ \E l : l \notin {"free", "freed"} /\ Goto(p, l)
    BY DEF alloc_page, RemapFails, kmalloc_node, list_add, AbortMmap, StartExit
  <2> QED
    BY <1>1, <2>1, LoopFrame
<1>3. CASE alloc_page(p)
  <2>1. PICK f \in Frames \ used : used' = used \cup {f}
    BY <1>3 DEF alloc_page
  <2>2. UNCHANGED <<ref_page_list, addsMet, closeMet>>
    BY <1>3 DEF alloc_page
  <2>3. Set!Take(f)
    BY <1>1, <1>2, <2>1, <2>2 DEF Set!Take, Looping, HandInv
  <2> QED
    BY <2>2, <2>3 DEF Set!SetNext
<1>4. CASE RemapFails(p)
  <2>1. PICK f \in Frames : /\ f \in used \ ref_page_list /\ used' = used \ {f}
                           /\ UNCHANGED <<ref_page_list, addsMet, closeMet>>
    BY <1>1, <1>4 DEF RemapFails, HandInv, InHand, TypeOK
  <2>2. Set!GiveUp(f)
    BY <1>2, <2>1 DEF Set!GiveUp, Looping
  <2> QED
    BY <2>1, <2>2 DEF Set!SetNext
<1>5. CASE kmalloc_node(p)
  <2>1. UNCHANGED <<used, ref_page_list>> /\ (addsMet => addsMet')
    BY <1>5 DEF kmalloc_node
  <2>2. Set!Meet
    BY <1>2, <2>1 DEF Set!Meet, Looping
  <2> QED
    BY <2>1, <2>2 DEF Set!SetNext
<1>6. CASE list_add(p)
  <2>1. /\ pc[p] = "add" /\ ref_page_list' = seen[p] \cup {curPage[p]}
        /\ UNCHANGED <<used, addsMet, closeMet>>
    BY <1>6 DEF list_add
  <2>2. curPage[p] \in used \ ref_page_list /\ seen[p] \subseteq used /\ curPage[p] \in Frames
    BY <1>1, <2>1 DEF HandInv, InHand, TypeOK
  <2>3. ~Looping /\ ~Looping'
    BY <1>1, <1>2, <2>1 DEF MeetInv, Looping
  <2>4. CASE addsMet
    BY <2>1, <2>2, <2>3, <2>4 DEF Set!SetNext, Set!AddInto, Looping
  <2>5. CASE ~addsMet
    <3>1. seen[p] = ref_page_list
      BY <1>1, <2>1, <2>5 DEF MeetInv
    <3> QED
      BY <2>1, <2>2, <2>3, <3>1 DEF Set!SetNext, Set!Add, Looping
  <2> QED
    BY <2>4, <2>5
<1> QED
  BY <1>3, <1>4, <1>5, <1>6

\* The set is given back when the loop of the last close of a pa_state_struct begins;
\* what the loop then does page by page, nobody sees.
LEMMA CloseOnSet ==
  ASSUME IInv, NEW p \in Procs, ~closeMet',
         paging_vma_close(p) \/ FreePage(p) \/ CountFree(p) \/ LoopEnds(p)
  PROVE  Set!SetNext \/ UNCHANGED Set!setVars
<1> USE DEF modVars, ctxVars, curVars, vmaVars, pasVars, memVars, listVars, metVars, cntVars
<1>1. TypeOK /\ HandInv /\ MeetInv
  BY DEF IInv
<1>2. CASE paging_vma_close(p) /\ Goto(p, "free") /\ closeMet' = \E q \in Procs : Adding(q) \/ Freeing(q)
  <2>1. ~Looping /\ UNCHANGED <<used, ref_page_list, addsMet>>
    BY <1>2 DEF paging_vma_close, Looping
  <2>2. Looping'
    BY <1>1, <1>2 DEF Looping, Goto, TypeOK
  <2> QED
    BY <2>1, <2>2 DEF Set!SetNext, Set!FreeAll, Looping
<1>3. CASE paging_vma_close(p) /\ Closed(p) /\ UNCHANGED closeMet
  <2>1. ~Freeing(p) /\ \E l \in {"user", "exit"} : Goto(p, l)
    BY <1>3 DEF paging_vma_close, Closed
  <2>2. Looping' <=> Looping
    BY <1>1, <2>1, LoopFrame
  <2> QED
    BY <1>3, <2>2, SetFrame DEF paging_vma_close
<1>4. CASE FreePage(p) \/ CountFree(p)
  <2>1. Looping /\ UNCHANGED <<addsMet, closeMet>>
    BY <1>4 DEF FreePage, CountFree, Looping
  <2>2. Looping'
    BY <1>1, <1>4 DEF FreePage, CountFree, Goto, Looping, TypeOK
  <2>3. used' \ ref_page_list' = used \ ref_page_list
    BY <1>4 DEF FreePage, CountFree
  <2> QED
    BY <2>1, <2>2, <2>3 DEF Set!SetNext, Set!Meet, Looping
<1>5. CASE LoopEnds(p)
  <2>1. /\ Freeing(p) /\ ref_page_list = {} /\ UNCHANGED <<used, ref_page_list, addsMet, closeMet>>
        /\ \E l \in {"user", "exit"} : Goto(p, l)
    BY <1>5 DEF LoopEnds, Closed
  <2>2. ~Looping'
    BY <1>1, <2>1 DEF MeetInv, Looping, Goto, TypeOK
  <2> QED
    BY <2>1, <2>2 DEF Set!setVars, Looping
<1> QED
  BY <1>2, <1>3, <1>4, <1>5 DEF paging_vma_close

\* Of the module's pages, whichever process and mapping they are for, paging.c
\* keeps one set as PageSet has it, whatever fails, until a close meets another
\* operation: nothing but a page that do_fault holds is added, and nothing but the
\* last close takes pages out, all of them, or list_adds that meet.
THEOREM PagesAreASet == Spec => ImplementsPageSet
<1> USE DEF modVars, ctxVars, curVars, vmaVars, pasVars, memVars, listVars, metVars, cntVars
<1>1. Init => Set!SetInit
  BY DEF Init, Set!SetInit
<1>2. IInv /\ [Next]_vars => [Set!SetNext]_(Set!setVars)
  <2> SUFFICES ASSUME IInv, [Next]_vars PROVE Set!SetNext \/ UNCHANGED Set!setVars
    OBVIOUS
  <2>a. TypeOK
    BY DEF IInv
  <2>b. CASE closeMet'
    BY <2>b DEF Set!SetNext
  <2>1. CASE UNCHANGED vars
    BY <2>1, SetFrame DEF vars, Looping
  <2>2. ASSUME NEW p \in Procs, NEW l \in {"user", "alloc", "node", "stuck", "exit", "close"},
               UNCHANGED <<used, ref_page_list, addsMet, closeMet>>, ~Freeing(p), Goto(p, l)
        PROVE  UNCHANGED Set!setVars
    BY <2>2, <2>a, LoopFrame, SetFrame
  <2>3. ASSUME UNCHANGED <<used, ref_page_list, addsMet, closeMet, pc>>
        PROVE  UNCHANGED Set!setVars
    BY <2>3, SetFrame DEF Looping
  <2>4. ASSUME NEW p \in Procs, Handler(p), ~closeMet'
        PROVE  Set!SetNext \/ UNCHANGED Set!setVars
    <3>1. CASE AllocFails(p) \/ remap_pfn_range(p) \/ NodeFails(p) \/ CountAlloc(p) \/ reap(p)
      <4>1. PICK l \in {"user", "alloc", "node", "stuck", "exit"} : Goto(p, l)
        BY <3>1 DEF AllocFails, remap_pfn_range, NodeFails, CountAlloc, reap, AbortMmap, StartExit
      <4>2. UNCHANGED <<used, ref_page_list, addsMet, closeMet>> /\ ~Freeing(p)
        BY <3>1 DEF AllocFails, remap_pfn_range, NodeFails, CountAlloc, reap
      <4> QED
        BY <2>2, <4>1, <4>2
    <3>2. CASE \E v \in Vmas : ExitClose(p, v)
      BY <2>2, <3>2 DEF ExitClose, CloseDec
    <3> QED
      BY <2>4, <3>1, <3>2, FaultOnSet, CloseOnSet DEF Handler
  <2>5. ASSUME NEW p \in Procs, Syscall(p) PROVE UNCHANGED Set!setVars
    <3>1. /\ UNCHANGED <<used, ref_page_list, addsMet, closeMet>>
          /\ pc' = pc \/ (~Freeing(p) /\ \E l \in {"alloc", "exit", "close"} : Goto(p, l))
      BY <2>5 DEF Syscall, paging_mmap, PasFails, paging_vma_fault, paging_vma_open, munmap, exit,
         StartExit, CloseDec
    <3> QED
      BY <2>2, <2>3, <3>1
  <2>6. CASE kmod_paging_init \/ RegisterFails \/ kmod_paging_exit \/ SetDemandPaging \/ Stopped
    <3>1. UNCHANGED <<used, ref_page_list, addsMet, closeMet, pc>>
      BY <2>6 DEF kmod_paging_init, RegisterFails, kmod_paging_exit, SetDemandPaging, Stopped, vars
    <3> QED
      BY <2>3, <3>1
  <2> QED
    BY <2>b, <2>1, <2>4, <2>5, <2>6 DEF Next
<1> QED
  BY <1>1, <1>2, Inductive, PTL DEF Spec, ImplementsPageSet, Set!SetSpec
=============================================================================
