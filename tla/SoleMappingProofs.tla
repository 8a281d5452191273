------------------------- MODULE SoleMappingProofs -------------------------
(***************************************************************************)
(* With one pa_state_struct the mappings of Paging are sound and Paging        *)
(* implements PageLending, for every number of processes, VMAs and pages and   *)
(* every set of failing calls.                                              *)
(***************************************************************************)
EXTENDS PagingProofs

\* A page that is mapped is allocated, and mapped once.
Backed == \A p \in Procs, a \in Addr : pte[p][a] # None => pte[p][a] \in used
Sole ==
  \A p, q \in Procs, a, b \in Addr :
    pte[p][a] # None /\ pte[p][a] = pte[q][b] => p = q /\ a = b

\* What is mapped belongs to a VMA that is not being closed; VMAs of one process
\* do not overlap; a process that exits has nothing mapped any more.
Covered ==
  \A p \in Procs, a \in Addr : pte[p][a] # None =>
    \E v \in Vmas : owner[v] = p /\ a \in cover[v] /\ ~Closing(v)
Disjoint ==
  \A v, w \in Vmas :
    owner[v] # None /\ owner[v] = owner[w] /\ v # w => cover[v] \cap cover[w] = {}
Gone == \A p \in exiting, a \in Addr : pte[p][a] = None

\* The page do_fault is about to map is mapped nowhere, and where it will be
\* mapped there is none; the loop of paging_mmap has empty pages before it.
Fresh ==
  \A p \in Procs : pc[p] = "remap" => \A q \in Procs, a \in Addr : pte[q][a] # curPage[p]
Ahead ==
  /\ \A p \in Procs : pc[p] \in {"alloc", "remap"} => pte[p][curAddr[p]] = None
  /\ \A p \in prepaging : \A a \in cover[curVma[p]] : curAddr[p] < a => pte[p][a] = None

MapInv == Backed /\ Sole /\ Covered /\ Disjoint /\ Gone /\ Fresh /\ Ahead

\* No operation on the list has met another.
Alone == ~addsMet /\ ~closeMet

SoleInv == Cardinality(Pas) = 1 => MapInv /\ Alone

USE DEF modVars, ctxVars, curVars, vmaVars, pasVars, memVars, listVars, metVars, cntVars
USE DEF RefInc, RefDec, LastRef, FreeNode, NextAddr, Adding, Freeing, Running

-----------------------------------------------------------------------------
\* Only a fault adds to a page table: what any other step leaves in it was there.
LEMMA Unmaps ==
  ASSUME TypeOK, NEW p \in Procs, NEW S, Unmap(p, S)
  PROVE  /\ \A q \in Procs, a \in Addr : pte'[q][a] = IF q = p /\ a \in S THEN None ELSE pte[q][a]
         /\ \A q \in Procs, a \in Addr : pte'[q][a] # None => pte'[q][a] = pte[q][a]
  BY DEF Unmap, TypeOK

\* Before the mapping do_fault holds a page.
LEMMA HeldPage ==
  ASSUME IInv, NEW p \in Procs, pc[p] = "remap"
  PROVE  curPage[p] # None
  BY ConstFacts DEF IInv, HandInv, InHand, TypeOK

\* A new mapping, empty, over addresses that no VMA of the process has.
LEMMA MmapMap ==
  ASSUME IInv, MapInv, NEW p \in Procs, NEW v \in Vmas, NEW s \in Pas, NEW S \in SUBSET Addr,
         paging_mmap(p, v, s, S)
  PROVE  MapInv'
<1> USE ConstFacts
<1>1. TypeOK /\ CurInv
  BY DEF IInv
<1>2. /\ pc[p] = "user" /\ owner[v] = None
      /\ owner' = [owner EXCEPT ![v] = p] /\ cover' = [cover EXCEPT ![v] = S]
      /\ \A w \in Vmas : owner[w] = p => cover[w] \cap S = {}
      /\ UNCHANGED <<exiting, pte, used>>
  BY DEF paging_mmap, VmasOf
<1>3. \A w \in Vmas : Closing(w)' <=> Closing(w)
  <2>1. CASE UNCHANGED <<pc, curVma>>
    BY <2>1 DEF Closing
  <2>2. CASE Goto(p, "alloc") /\ curVma' = [curVma EXCEPT ![p] = v]
    BY <1>1, <1>2, <2>2, ClosingFrame DEF TypeOK, InKernel, InClose
  <2> QED
    BY <2>1, <2>2 DEF paging_mmap
<1>4. \A a \in S : pte[p][a] = None
  BY <1>1, <1>2 DEF MapInv, Covered, TypeOK
<1>5. Backed' /\ Sole' /\ Gone'
  BY <1>2 DEF MapInv, Backed, Sole, Gone
<1>6. Covered'
  BY <1>1, <1>2, <1>3 DEF MapInv, Covered, TypeOK
<1>7. Disjoint'
  BY <1>1, <1>2 DEF MapInv, Disjoint, TypeOK
<1>8. \A q \in Procs : pc[q] \in InFault \cup InClose => q # p /\ curVma[q] # v
  BY <1>1, <1>2 DEF CurInv, InFault, InClose
<1>9. Fresh' /\ Ahead'
  <2>1. CASE UNCHANGED <<pc, prepaging, curVma, curAddr, curPage>>
    BY <1>1, <1>2, <1>8, <2>1 DEF MapInv, Fresh, Ahead, CurInv, TypeOK
  <2>2. CASE ~demand_paging
    <3>1. PICK start \in S : curAddr' = [curAddr EXCEPT ![p] = start]
      BY <2>2 DEF paging_mmap
    <3>2. /\ prepaging' = prepaging \cup {p} /\ curVma' = [curVma EXCEPT ![p] = v]
          /\ pc' = [pc EXCEPT ![p] = "alloc"] /\ curPage' = curPage
      BY <2>2 DEF paging_mmap, Goto
    <3>3. Fresh'
      BY <1>1, <1>2, <3>2 DEF MapInv, Fresh, TypeOK
    <3>4. \A q \in Procs : pc'[q] \in {"alloc", "remap"} => pte'[q][curAddr'[q]] = None
      BY <1>1, <1>2, <1>4, <3>1, <3>2 DEF MapInv, Ahead, TypeOK
    <3>5. ASSUME NEW q \in prepaging', NEW a \in cover'[curVma'[q]], curAddr'[q] < a
          PROVE  pte'[q][a] = None
      <4>1. CASE q = p
        BY <1>1, <1>2, <1>4, <3>2, <3>5, <4>1 DEF TypeOK
      <4>2. CASE q # p
        BY <1>1, <1>2, <1>8, <3>1, <3>2, <3>5, <4>2 DEF MapInv, Ahead, CurInv, TypeOK
      <4> QED
        BY <4>1, <4>2
    <3> QED
      BY <3>3, <3>4, <3>5 DEF Ahead
  <2> QED
    BY <2>1, <2>2 DEF paging_mmap
<1> QED
  BY <1>5, <1>6, <1>7, <1>9 DEF MapInv

\* The steps of do_fault: the page is new, then mapped where nothing was.
LEMMA FaultMap ==
  ASSUME IInv, MapInv, NEW p \in Procs,
         \/ alloc_page(p) \/ remap_pfn_range(p) \/ kmalloc_node(p) \/ list_add(p)
         \/ CountAlloc(p)
  PROVE  MapInv'
<1> USE ConstFacts
<1>1. TypeOK /\ CurInv /\ HandInv
  BY DEF IInv
<1>2. pc[p] \in InFault /\ UNCHANGED <<owner, cover, exiting>>
  BY DEF alloc_page, remap_pfn_range, kmalloc_node, list_add, CountAlloc, InFault
<1>3. \A w \in Vmas : Closing(w)' <=> Closing(w)
  <2>1. PICK l \in {"user", "alloc", "remap", "node", "add", "count"} : Goto(p, l)
    BY DEF alloc_page, remap_pfn_range, kmalloc_node, list_add, CountAlloc
  <2>2. \A q \in Procs : q # p => curVma'[q] = curVma[q]
    BY <1>1 DEF alloc_page, remap_pfn_range, kmalloc_node, list_add, CountAlloc, ClearCur, TypeOK
  <2>3. pc[p] \notin InClose /\ l \notin InClose /\ l \in InKernel \cup {"user"}
    BY <1>2 DEF InFault, InClose, InKernel
  <2> QED
    BY <1>1, <2>1, <2>2, <2>3, ClosingFrame
<1>4. Disjoint'
  BY <1>2 DEF MapInv, Disjoint
<1>5. CASE alloc_page(p)
  <2>1. PICK f \in Frames \ used :
          used' = used \cup {f} /\ curPage' = [curPage EXCEPT ![p] = f]
    BY <1>5 DEF alloc_page
  <2>2. pc[p] = "alloc" /\ pc' = [pc EXCEPT ![p] = "remap"]
        /\ UNCHANGED <<pte, prepaging, curVma, curAddr>>
    BY <1>5 DEF alloc_page, Goto
  <2>3. Backed' /\ Sole' /\ Covered' /\ Gone'
    BY <1>2, <1>3, <2>1, <2>2 DEF MapInv, Backed, Sole, Covered, Gone
  <2>4. Fresh'
    BY <1>1, <2>1, <2>2 DEF MapInv, Backed, Fresh, TypeOK
  <2>5. Ahead'
    BY <1>1, <1>2, <2>2 DEF MapInv, Ahead, TypeOK
  <2> QED
    BY <1>4, <2>3, <2>4, <2>5 DEF MapInv
<1>6. CASE remap_pfn_range(p)
  <2>1. /\ pc[p] = "remap" /\ pc' = [pc EXCEPT ![p] = "node"]
        /\ pte' = [pte EXCEPT ![p][curAddr[p]] = curPage[p]]
        /\ UNCHANGED <<used, prepaging, curVma, curAddr, curPage>>
    BY <1>6 DEF remap_pfn_range, Goto
  <2>2. /\ curAddr[p] \in Addr /\ curVma[p] \in Vmas /\ owner[curVma[p]] = p
        /\ curAddr[p] \in cover[curVma[p]] /\ p \notin exiting
        /\ curPage[p] \in used
    <3>1. /\ curVma[p] \in Vmas /\ owner[curVma[p]] = p
          /\ curAddr[p] \in cover[curVma[p]] /\ p \notin exiting
      BY <1>1, <2>1 DEF CurInv, InFault, InClose
    <3>2. curAddr[p] \in Addr
      BY <1>1, <3>1 DEF TypeOK
    <3>3. curPage[p] \in used
      BY <1>1, <2>1 DEF HandInv, InHand
    <3> QED
      BY <3>1, <3>2, <3>3
  <2>3. \A q \in Procs, a \in Addr :
          pte'[q][a] = IF q = p /\ a = curAddr[p] THEN curPage[p] ELSE pte[q][a]
    BY <1>1, <2>1, <2>2 DEF TypeOK
  <2>4. Backed' /\ Gone'
    BY <1>1, <1>2, <2>1, <2>2, <2>3 DEF MapInv, Backed, Gone, TypeOK
  <2>5. Sole'
    BY <2>1, <2>3 DEF MapInv, Sole, Fresh
  <2>6. ~Closing(curVma[p])
    BY <1>1, <2>1, <2>2 DEF Closing, CurInv, InClose
  <2>7. Covered'
    BY <1>2, <1>3, <2>2, <2>3, <2>6 DEF MapInv, Covered
  <2>8. Fresh'
    BY <1>1, <2>1, <2>3 DEF MapInv, Fresh, HandInv, InHand, TypeOK
  <2>9. Ahead'
    BY <1>1, <1>2, <2>1, <2>2, <2>3 DEF MapInv, Ahead, CurInv, TypeOK, Addr
  <2> QED
    BY <1>4, <2>4, <2>5, <2>7, <2>8, <2>9 DEF MapInv
<1>7. CASE kmalloc_node(p) \/ list_add(p)
  <2>1. PICK l \in {"add", "count"} : pc' = [pc EXCEPT ![p] = l]
    BY <1>7 DEF kmalloc_node, list_add, Goto
  <2>2. UNCHANGED <<pte, used, prepaging, curVars>>
    BY <1>7 DEF kmalloc_node, list_add
  <2> QED
    BY <1>1, <1>2, <1>3, <1>4, <2>1, <2>2
    DEF MapInv, Backed, Sole, Covered, Gone, Fresh, Ahead, TypeOK
<1>8. CASE CountAlloc(p)
  <2>1. UNCHANGED <<pte, used>> /\ pc[p] = "count"
    BY <1>8 DEF CountAlloc
  <2>2. Backed' /\ Sole' /\ Covered' /\ Gone'
    BY <1>2, <1>3, <2>1 DEF MapInv, Backed, Sole, Covered, Gone
  <2>3. CASE p \in prepaging /\ curAddr[p] + 1 \in cover[curVma[p]]
    <3>1. /\ curAddr' = [curAddr EXCEPT ![p] = curAddr[p] + 1]
          /\ pc' = [pc EXCEPT ![p] = "alloc"] /\ curPage' = [curPage EXCEPT ![p] = None]
          /\ UNCHANGED <<prepaging, curVma>>
      BY <1>8, <2>3 DEF CountAlloc, Goto
    <3>2. curAddr[p] \in Nat /\ curVma[p] \in Vmas /\ cover[curVma[p]] \subseteq Nat
      BY <1>1, <2>1 DEF TypeOK, Addr, CurInv, InFault
    <3>3. Fresh'
      BY <1>1, <2>1, <3>1 DEF MapInv, Fresh, TypeOK
    <3>4. Ahead'
      BY <1>1, <1>2, <2>1, <2>3, <3>1, <3>2 DEF MapInv, Ahead, TypeOK
    <3> QED
      BY <1>4, <2>2, <3>3, <3>4 DEF MapInv
  <2>4. CASE ~(p \in prepaging /\ curAddr[p] + 1 \in cover[curVma[p]])
    <3>1. /\ prepaging' = prepaging \ {p} /\ ClearCur(p) /\ pc' = [pc EXCEPT ![p] = "user"]
      BY <1>8, <2>4 DEF CountAlloc, Goto
    <3> QED
      BY <1>1, <1>2, <1>4, <2>1, <2>2, <3>1 DEF MapInv, Fresh, Ahead, ClearCur, TypeOK
  <2> QED
    BY <2>3, <2>4
<1> QED
  BY <1>5, <1>6, <1>7, <1>8

\* A failed prepaging: the kernel unmaps the VMA and frees it.
LEMMA AbortMap ==
  ASSUME IInv, MapInv, NEW p \in Procs, NEW code, pc[p] \in {"alloc", "remap"},
         AbortMmap(p, code),
         used' = used \/ (pc[p] = "remap" /\ used' = used \ {curPage[p]})
  PROVE  MapInv'
<1> USE ConstFacts
<1> PICK v \in Vmas : v = curVma[p] /\ owner[v] = p
  BY DEF IInv, CurInv, InFault
<1>1. TypeOK /\ CurInv
  BY DEF IInv
<1>2. /\ p \in prepaging /\ prepaging' = prepaging \ {p} /\ exiting' = exiting
      /\ pc' = [pc EXCEPT ![p] = "user"]
      /\ owner' = [owner EXCEPT ![v] = None] /\ cover' = [cover EXCEPT ![v] = {}]
      /\ Unmap(p, cover[v]) /\ ClearCur(p)
  BY DEF AbortMmap, FreeVma, Goto
<1>3. \A w \in Vmas : Closing(w)' <=> Closing(w)
  <2>1. \A q \in Procs : q # p => curVma'[q] = curVma[q]
    BY <1>1, <1>2 DEF ClearCur, TypeOK
  <2>2. Goto(p, "user") /\ pc[p] \notin InClose
    BY <1>2 DEF Goto, InClose
  <2> QED
    BY <1>1, <2>1, <2>2, ClosingFrame DEF InClose
<1>4. /\ \A q \in Procs, a \in Addr :
           pte'[q][a] = IF q = p /\ a \in cover[v] THEN None ELSE pte[q][a]
      /\ \A q \in Procs, a \in Addr : pte'[q][a] # None => pte'[q][a] = pte[q][a]
  BY <1>1, <1>2, Unmaps
<1>5. Backed' /\ Sole' /\ Gone'
  <2>1. exiting \subseteq Procs
    BY <1>1 DEF TypeOK
  <2>2. Backed'
    BY <1>4 DEF MapInv, Backed, Fresh
  <2>3. Sole' /\ Gone'
    BY <1>2, <1>4, <2>1 DEF MapInv, Sole, Gone
  <2> QED
    BY <2>2, <2>3
<1>6. Covered'
  BY <1>1, <1>2, <1>3, <1>4 DEF MapInv, Covered, TypeOK
<1>7. Disjoint'
  BY <1>1, <1>2 DEF MapInv, Disjoint, TypeOK
<1>8. \A q \in Procs : q # p => pc'[q] = pc[q] /\ curVma'[q] = curVma[q]
                              /\ curAddr'[q] = curAddr[q] /\ curPage'[q] = curPage[q]
  BY <1>1, <1>2 DEF ClearCur, TypeOK
<1>9. Fresh'
  BY <1>1, <1>2, <1>4, <1>8, HeldPage DEF MapInv, Fresh, TypeOK
<1>10. Ahead'
  <2>1. ASSUME NEW q \in Procs, pc'[q] \in {"alloc", "remap"}
        PROVE  pte'[q][curAddr'[q]] = None
    <3>1. q # p /\ pc[q] \in InFault /\ curAddr[q] \in Addr
      BY <1>1, <1>2, <1>8, <2>1 DEF CurInv, InFault, TypeOK
    <3> QED
      BY <1>4, <1>8, <2>1, <3>1 DEF MapInv, Ahead
  <2>2. ASSUME NEW q \in prepaging', NEW a \in cover'[curVma'[q]], curAddr'[q] < a
        PROVE  pte'[q][a] = None
    <3>1. q # p /\ q \in prepaging /\ q \in Procs /\ curVma[q] \in Vmas /\ curVma[q] # v
      BY <1>1, <1>2 DEF CurInv, TypeOK
    <3> QED
      BY <1>1, <1>2, <1>4, <1>8, <2>2, <3>1 DEF MapInv, Ahead, TypeOK
  <2> QED
    BY <2>1, <2>2 DEF Ahead
<1> QED
  BY <1>5, <1>6, <1>7, <1>9, <1>10 DEF MapInv

\* A process leaves do_fault or user space for good or comes back from it, and
\* keeps or loses what it has mapped.
LEMMA LeaveMap ==
  ASSUME IInv, MapInv, NEW p \in Procs, pc[p] \in InFault \cup {"user"}, p \notin prepaging,
         prepaging' = prepaging, UNCHANGED <<owner, cover>>,
         \/ StartExit(p)
         \/ Goto(p, "user") /\ ClearCur(p) /\ UNCHANGED <<pte, exiting>>,
         used' = used \/ (pc[p] = "remap" /\ used' = used \ {curPage[p]})
  PROVE  MapInv'
<1> USE ConstFacts
<1>1. TypeOK /\ CurInv
  BY DEF IInv
<1>2. PICK l \in {"user", "exit"} : pc' = [pc EXCEPT ![p] = l] /\ ClearCur(p)
  BY DEF StartExit, Goto
<1>3. \A w \in Vmas : Closing(w)' <=> Closing(w)
  <2>1. \A q \in Procs : q # p => curVma'[q] = curVma[q]
    BY <1>1, <1>2 DEF ClearCur, TypeOK
  <2>2. Goto(p, l) /\ pc[p] \notin InClose /\ l \notin InClose /\ l \in InKernel \cup {"user"}
    BY <1>2 DEF Goto, InFault, InClose, InKernel
  <2> QED
    BY <1>1, <2>1, <2>2, ClosingFrame
<1>4. \A q \in Procs, a \in Addr : pte'[q][a] # None => pte'[q][a] = pte[q][a]
  BY <1>1, Unmaps DEF StartExit
<1>5. \A q \in exiting', a \in Addr : pte'[q][a] = None
  <2>1. CASE StartExit(p)
    BY <1>1, <1>4, <2>1, Unmaps DEF StartExit, MapInv, Gone, TypeOK
  <2>2. CASE UNCHANGED <<pte, exiting>>
    BY <2>2 DEF MapInv, Gone
  <2> QED
    BY <2>1, <2>2
<1>6. \A q \in Procs : q # p => pc'[q] = pc[q] /\ curVma'[q] = curVma[q]
                              /\ curAddr'[q] = curAddr[q] /\ curPage'[q] = curPage[q]
  BY <1>1, <1>2 DEF ClearCur, TypeOK
<1>7. pc'[p] \in {"user", "exit"}
  BY <1>1, <1>2 DEF TypeOK
<1>8. Backed' /\ Sole' /\ Gone'
  BY <1>4, <1>5 DEF MapInv, Backed, Sole, Gone, Fresh
<1>9. Covered' /\ Disjoint'
  BY <1>3, <1>4 DEF MapInv, Covered, Disjoint
<1>10. Fresh'
  BY <1>4, <1>6, <1>7, HeldPage DEF MapInv, Fresh
<1>11. Ahead'
  <2>1. ASSUME NEW q \in Procs, pc'[q] \in {"alloc", "remap"}
        PROVE  pte'[q][curAddr'[q]] = None
    <3>1. q # p /\ pc[q] \in InFault /\ curAddr[q] \in Addr
      BY <1>1, <1>6, <1>7, <2>1 DEF CurInv, InFault, TypeOK
    <3> QED
      BY <1>4, <1>6, <2>1, <3>1 DEF MapInv, Ahead
  <2>2. ASSUME NEW q \in prepaging', NEW a \in cover'[curVma'[q]], curAddr'[q] < a
        PROVE  pte'[q][a] = None
    <3>1. q # p /\ q \in prepaging /\ q \in Procs /\ curVma[q] \in Vmas
      BY <1>1 DEF CurInv, TypeOK
    <3>2. a \in Addr
      BY <1>1, <1>6, <3>1 DEF TypeOK
    <3> QED
      BY <1>4, <1>6, <2>2, <3>1, <3>2 DEF MapInv, Ahead
  <2> QED
    BY <2>1, <2>2 DEF Ahead
<1> QED
  BY <1>8, <1>9, <1>10, <1>11 DEF MapInv

\* The error paths of do_fault.
LEMMA FailMap ==
  ASSUME IInv, MapInv, NEW p \in Procs, AllocFails(p) \/ RemapFails(p) \/ NodeFails(p)
  PROVE  MapInv'
<1>1. CASE AllocFails(p)
  <2>1. CASE AbortMmap(p, VM_FAULT_OOM)
    BY <1>1, <2>1, AbortMap DEF AllocFails
  <2>2. CASE p \notin prepaging
    BY <1>1, <2>2, LeaveMap DEF AllocFails, AbortMmap, InFault
  <2> QED
    BY <1>1, <2>1, <2>2 DEF AllocFails
<1>2. CASE RemapFails(p)
  <2>1. CASE AbortMmap(p, VM_FAULT_SIGBUS)
    BY <1>2, <2>1, AbortMap DEF RemapFails
  <2>2. CASE p \notin prepaging
    BY <1>2, <2>2, LeaveMap DEF RemapFails, AbortMmap, InFault
  <2> QED
    BY <1>2, <2>1, <2>2 DEF RemapFails
<1>3. CASE NodeFails(p)
  <2>1. CASE Goto(p, "stuck") /\ UNCHANGED <<exiting, curVars, pte>>
    <3>1. TypeOK /\ pc[p] = "node"
      BY <1>3 DEF IInv, NodeFails
    <3>2. \A w \in Vmas : Closing(w)' <=> Closing(w)
      BY <2>1, <3>1, ClosingFrame DEF InKernel, InClose
    <3> QED
      BY <1>3, <2>1, <3>1, <3>2
      DEF NodeFails, Goto, MapInv, Backed, Sole, Covered, Disjoint, Gone, Fresh, Ahead, TypeOK
  <2>2. CASE p \notin prepaging
    BY <1>3, <2>2, LeaveMap DEF NodeFails, InFault
  <2> QED
    BY <1>3, <2>1, <2>2 DEF NodeFails
<1> QED
  BY <1>1, <1>2, <1>3

-----------------------------------------------------------------------------
\* The kernel splits a VMA: the two halves cover what it covered.
LEMMA OpenMap ==
  ASSUME IInv, MapInv, NEW p \in Procs, NEW v \in Vmas, NEW w \in Vmas,
         NEW S \in SUBSET Addr, paging_vma_open(p, v, w, S)
  PROVE  MapInv'
<1> USE ConstFacts
<1>1. TypeOK /\ CurInv
  BY DEF IInv
<1>2. /\ pc[p] = "user" /\ owner[v] = p /\ owner[w] = None /\ v # w
      /\ owner' = [owner EXCEPT ![w] = p]
      /\ cover' = [cover EXCEPT ![w] = S, ![v] = cover[v] \ S]
      /\ UNCHANGED <<pc, pte, used, prepaging, exiting, curVma, curAddr, curPage>>
  BY DEF paging_vma_open
<1>3. S \subseteq cover[v]
  BY DEF paging_vma_open
<1>4. \A u \in Vmas : Closing(u)' <=> Closing(u)
  BY <1>2 DEF Closing
<1>5. Backed' /\ Sole' /\ Gone' /\ Fresh'
  BY <1>2 DEF MapInv, Backed, Sole, Gone, Fresh
<1>6. ~Closing(w)
  BY <1>1, <1>2 DEF Closing, CurInv, InClose
<1>7. Covered'
  BY <1>1, <1>2, <1>4, <1>6 DEF MapInv, Covered, TypeOK
<1>8. Disjoint'
  BY <1>1, <1>2, <1>3 DEF MapInv, Disjoint, TypeOK
<1>9. Ahead'
  <2>1. \A q \in prepaging : q \in Procs /\ curVma[q] # v /\ curVma[q] # w
    BY <1>1, <1>2 DEF CurInv, InFault, TypeOK
  <2> QED
    BY <1>1, <1>2, <2>1 DEF MapInv, Ahead, CurInv, TypeOK
<1> QED
  BY <1>5, <1>7, <1>8, <1>9 DEF MapInv

\* The first half of paging_vma_close: nothing of the VMA is mapped any more.
LEMMA CloseDecMap ==
  ASSUME IInv, MapInv, NEW p \in Procs, NEW v \in Vmas, munmap(p, v) \/ ExitClose(p, v)
  PROVE  MapInv'
<1> USE ConstFacts
<1>1. TypeOK /\ CurInv
  BY DEF IInv
<1>2. /\ pc[p] \in {"user", "exit"} /\ owner[v] = p
      /\ pc' = [pc EXCEPT ![p] = "close"] /\ curVma' = [curVma EXCEPT ![p] = v]
      /\ UNCHANGED <<owner, cover, used, prepaging, exiting, curAddr, curPage>>
  BY DEF munmap, ExitClose, CloseDec, Goto
<1>3. /\ \A q \in Procs, a \in Addr : pte'[q][a] # None => pte'[q][a] = pte[q][a]
      /\ \A a \in cover[v] : pte'[p][a] = None
  <2>1. CASE munmap(p, v)
    BY <1>1, <2>1, Unmaps DEF munmap, TypeOK
  <2>2. CASE ExitClose(p, v)
    <3>1. pte' = pte /\ p \in exiting
      BY <1>1, <2>2 DEF ExitClose, CurInv
    <3> QED
      BY <1>1, <3>1 DEF MapInv, Gone, TypeOK
  <2> QED
    BY <2>1, <2>2
<1>4. \A u \in Vmas : u # v => (Closing(u)' <=> Closing(u))
  BY <1>1, <1>2 DEF Closing, TypeOK
<1>5. Backed' /\ Sole' /\ Disjoint'
  BY <1>2, <1>3 DEF MapInv, Backed, Sole, Disjoint
<1>6. Gone'
  <2>1. exiting \subseteq Procs
    BY <1>1 DEF TypeOK
  <2> QED
    BY <1>2, <1>3, <2>1 DEF MapInv, Gone
<1>7. Covered'
  BY <1>2, <1>3, <1>4 DEF MapInv, Covered
<1>8. \A q \in Procs : q # p => pc'[q] = pc[q] /\ curVma'[q] = curVma[q]
  BY <1>1, <1>2 DEF TypeOK
<1>9. pc'[p] = "close"
  BY <1>1, <1>2 DEF TypeOK
<1>10. Fresh'
  BY <1>2, <1>3, <1>8, <1>9, HeldPage DEF MapInv, Fresh
<1>11. Ahead'
  <2>1. ASSUME NEW q \in Procs, pc'[q] \in {"alloc", "remap"}
        PROVE  pte'[q][curAddr'[q]] = None
    <3>1. q # p /\ pc[q] \in InFault /\ curAddr[q] \in Addr
      BY <1>1, <1>8, <1>9, <2>1 DEF CurInv, InFault, TypeOK
    <3> QED
      BY <1>2, <1>3, <1>8, <2>1, <3>1 DEF MapInv, Ahead
  <2>2. ASSUME NEW q \in prepaging', NEW a \in cover'[curVma'[q]], curAddr'[q] < a
        PROVE  pte'[q][a] = None
    <3>1. q # p /\ q \in prepaging /\ q \in Procs /\ curVma[q] \in Vmas
      BY <1>1, <1>2 DEF CurInv, InFault, TypeOK
    <3>2. a \in Addr
      BY <1>1, <1>2, <1>8, <3>1 DEF TypeOK
    <3> QED
      BY <1>2, <1>3, <1>8, <2>2, <3>1, <3>2 DEF MapInv, Ahead
  <2> QED
    BY <2>1, <2>2 DEF Ahead
<1> QED
  BY <1>5, <1>6, <1>7, <1>10, <1>11 DEF MapInv

\* One pa_state_struct is all of them.
LEMMA OnePas ==
  ASSUME Cardinality(Pas) = 1, NEW s \in Pas, NEW t \in Pas
  PROVE  s = t
  BY FiniteAssumption, FS_Singleton

\* While the loop of the last close runs, with one pa_state_struct, there is no other
\* VMA, and so nothing is mapped in any process.
LEMMA NothingMapped ==
  ASSUME IInv, MapInv, Cardinality(Pas) = 1, NEW p \in Procs, Freeing(p)
  PROVE  \A q \in Procs, a \in Addr : pte[q][a] = None
<1> USE ConstFacts
<1> DEFINE v == curVma[p]
<1>1. v \in Vmas /\ private[v] \in Pas
  BY DEF IInv, CurInv, VmaInv, InClose, TypeOK
<1>2. Sharers(private[v]) = {v}
  BY LastHolder DEF InClose, IInv, ZeroInv
<1>3. SUFFICES ASSUME NEW q \in Procs, NEW a \in Addr, pte[q][a] # None PROVE FALSE
  OBVIOUS
<1>4. PICK w \in Vmas : owner[w] = q /\ ~Closing(w)
  BY <1>3 DEF MapInv, Covered
<1>5. private[w] \in Pas
  BY <1>4 DEF IInv, VmaInv, TypeOK
<1>6. private[w] = private[v]
  BY <1>1, <1>5, OnePas
<1>7. w = v
  BY <1>2, <1>6 DEF Sharers
<1> QED
  BY <1>4, <1>7 DEF Closing

\* A close is over: nothing of the VMA was mapped any more.
LEMMA CloseMap ==
  ASSUME IInv, MapInv, NEW p \in Procs, pc[p] \in InClose, Closed(p),
         UNCHANGED <<pte, used, prepaging, exiting>>
  PROVE  MapInv'
<1> USE ConstFacts
<1> PICK v \in Vmas : v = curVma[p] /\ owner[v] = p
  BY DEF IInv, CurInv
<1>1. TypeOK /\ CurInv
  BY DEF IInv
<1>2. PICK l \in {"user", "exit"} : pc' = [pc EXCEPT ![p] = l]
  BY DEF Closed, Goto
<1>3. /\ pc[p] \in InClose /\ ClearCur(p)
      /\ owner' = [owner EXCEPT ![v] = None] /\ cover' = [cover EXCEPT ![v] = {}]
  BY DEF Closed, FreeVma
<1>4. \A q \in Procs : q # p => pc'[q] = pc[q] /\ curVma'[q] = curVma[q]
                              /\ curAddr'[q] = curAddr[q] /\ curPage'[q] = curPage[q]
  BY <1>1, <1>3, <1>2 DEF ClearCur, TypeOK
<1>5. \A u \in Vmas : u # v => (Closing(u)' <=> Closing(u))
  BY <1>1, <1>2, <1>3, <1>4 DEF Closing, InClose, TypeOK
<1>6. Closing(v)
  BY <1>3 DEF Closing, InClose
<1>8. Backed' /\ Sole' /\ Gone'
  BY DEF MapInv, Backed, Sole, Gone
<1>9. Covered'
  BY <1>1, <1>3, <1>5, <1>6 DEF MapInv, Covered, TypeOK
<1>10. Disjoint'
  BY <1>1, <1>3 DEF MapInv, Disjoint, TypeOK
<1>11. Fresh'
  BY <1>1, <1>2, <1>3, <1>4 DEF MapInv, Fresh, TypeOK
<1>12. Ahead'
  <2>1. ASSUME NEW q \in Procs, pc'[q] \in {"alloc", "remap"}
        PROVE  pte'[q][curAddr'[q]] = None
    BY <1>1, <1>2, <1>3, <1>4, <2>1 DEF MapInv, Ahead, TypeOK
  <2>2. ASSUME NEW q \in prepaging', NEW a \in cover'[curVma'[q]], curAddr'[q] < a
        PROVE  pte'[q][a] = None
    <3>1. q # p /\ q \in prepaging /\ q \in Procs /\ curVma[q] \in Vmas /\ curVma[q] # v
      BY <1>1, <1>3 DEF CurInv, InFault, InClose, TypeOK
    <3> QED
      BY <1>1, <1>3, <1>4, <2>2, <3>1 DEF MapInv, Ahead, TypeOK
  <2> QED
    BY <2>1, <2>2 DEF Ahead
<1> QED
  BY <1>8, <1>9, <1>10, <1>11, <1>12 DEF MapInv

\* The loop: a page that it frees is not mapped.
LEMMA LoopMap ==
  ASSUME IInv, MapInv, Cardinality(Pas) = 1, NEW p \in Procs,
         \/ paging_vma_close(p) /\ Goto(p, "free") /\ UNCHANGED <<curVars, vmaVars>>
         \/ FreePage(p) \/ CountFree(p)
  PROVE  MapInv'
<1>1. TypeOK
  BY DEF IInv
<1>2. PICK l \in {"free", "freed"} : Goto(p, l)
  BY DEF FreePage, CountFree
<1>3. pc[p] \in InClose /\ UNCHANGED <<pte, owner, cover, prepaging, exiting, curVars>>
  BY DEF paging_vma_close, FreePage, CountFree, InClose
<1>4. \A w \in Vmas : Closing(w)' <=> Closing(w)
  BY <1>1, <1>2, <1>3, ClosingFrame DEF InKernel, InClose
<1>5. Backed'
  <2>1. CASE FreePage(p)
    BY <1>3, <2>1, NothingMapped DEF FreePage, Backed
  <2>2. CASE used' = used
    BY <1>3, <2>2 DEF MapInv, Backed
  <2> QED
    BY <2>1, <2>2 DEF paging_vma_close, CountFree
<1>6. Sole' /\ Covered' /\ Disjoint' /\ Gone'
  BY <1>3, <1>4 DEF MapInv, Sole, Covered, Disjoint, Gone
<1>7. \A q \in Procs : pc'[q] \in {"alloc", "remap"} => pc'[q] = pc[q]
  BY <1>1, <1>2 DEF Goto, TypeOK
<1>8. Fresh' /\ Ahead'
  BY <1>3, <1>7 DEF MapInv, Fresh, Ahead
<1> QED
  BY <1>5, <1>6, <1>8 DEF MapInv

\* The steps that change no mapping.
LEMMA OtherMap ==
  ASSUME IInv, MapInv, NEW p \in Procs,
         \/ PasFails(p) \/ reap(p) \/ exit(p)
         \/ \E v \in Vmas, a \in Addr : paging_vma_fault(p, v, a)
  PROVE  MapInv'
<1> USE ConstFacts
<1>1. TypeOK /\ CurInv
  BY DEF IInv
<1>2. CASE PasFails(p)
  BY <1>2 DEF PasFails, MapInv, Backed, Sole, Covered, Closing, Disjoint, Gone, Fresh, Ahead
<1>3. CASE reap(p)
  <2>1. /\ pc[p] = "exit" /\ pc' = [pc EXCEPT ![p] = "user"] /\ exiting' = exiting \ {p}
        /\ UNCHANGED <<pte, used, owner, cover, prepaging, curVars>>
    BY <1>3 DEF reap, Goto
  <2>2. \A w \in Vmas : Closing(w)' <=> Closing(w)
    BY <1>1, <2>1, ClosingFrame DEF Goto, InClose
  <2> QED
    BY <1>1, <2>1, <2>2
    DEF MapInv, Backed, Sole, Covered, Disjoint, Gone, Fresh, Ahead, TypeOK
<1>4. CASE exit(p)
  <2>1. p \notin prepaging
    BY <1>1, <1>4 DEF exit, CurInv, InFault
  <2> QED
    BY <1>4, <2>1, LeaveMap DEF exit
<1>5. CASE \E v \in Vmas, a \in Addr : paging_vma_fault(p, v, a)
  <2>1. PICK v \in Vmas, a \in Addr : paging_vma_fault(p, v, a)
    BY <1>5
  <2>2. /\ pc[p] = "user" /\ pte[p][a] = None /\ pc' = [pc EXCEPT ![p] = "alloc"]
        /\ curVma' = [curVma EXCEPT ![p] = v] /\ curAddr' = [curAddr EXCEPT ![p] = a]
        /\ UNCHANGED <<pte, used, owner, cover, prepaging, exiting, curPage>>
    BY <2>1 DEF paging_vma_fault, Goto
  <2>3. \A w \in Vmas : Closing(w)' <=> Closing(w)
    BY <1>1, <2>2, ClosingFrame DEF Goto, TypeOK, InKernel, InClose
  <2>4. p \notin prepaging
    BY <1>1, <2>2 DEF CurInv, InFault
  <2>5. Backed' /\ Sole' /\ Covered' /\ Disjoint' /\ Gone'
    BY <2>2, <2>3 DEF MapInv, Backed, Sole, Covered, Disjoint, Gone
  <2>6. Fresh'
    BY <1>1, <2>2 DEF MapInv, Fresh, TypeOK
  <2>7. Ahead'
    BY <1>1, <2>2, <2>4 DEF MapInv, Ahead, TypeOK
  <2> QED
    BY <2>5, <2>6, <2>7 DEF MapInv
<1> QED
  BY <1>2, <1>3, <1>4, <1>5

\* Every step keeps what the mappings rest on.
LEMMA MapStep ==
  ASSUME IInv, MapInv, Cardinality(Pas) = 1, Next
  PROVE  MapInv'
<1>1. CASE kmod_paging_init \/ RegisterFails \/ kmod_paging_exit \/ SetDemandPaging \/ Stopped
  BY <1>1 DEF kmod_paging_init, RegisterFails, kmod_paging_exit, SetDemandPaging, Stopped,
     vars, MapInv, Backed, Sole, Covered, Closing, Disjoint, Gone, Fresh, Ahead
<1>2. ASSUME NEW p \in Procs, Handler(p) PROVE MapInv'
  <2>1. CASE paging_vma_close(p) \/ LoopEnds(p)
    <3>1. pc[p] \in InClose /\ UNCHANGED <<pte, used, prepaging, exiting>>
      BY <2>1 DEF paging_vma_close, LoopEnds, InClose
    <3> QED
      BY <2>1, <3>1, CloseMap, LoopMap DEF paging_vma_close, LoopEnds
  <2>2. CASE FreePage(p) \/ CountFree(p)
    BY <2>2, LoopMap
  <2> QED
    BY <1>2, <2>1, <2>2, FaultMap, FailMap, CloseDecMap, OtherMap DEF Handler
<1>3. ASSUME NEW p \in Procs, Syscall(p) PROVE MapInv'
  BY <1>3, MmapMap, OtherMap, OpenMap, CloseDecMap DEF Syscall
<1> QED
  BY <1>1, <1>2, <1>3 DEF Next

\* Two handlers that work on a VMA are of one process then, so no list_add or loop
\* meets another.
LEMMA AloneStep ==
  ASSUME IInv, Alone, Cardinality(Pas) = 1, Next
  PROVE  Alone'
<1>1. ASSUME NEW p \in Procs, NEW q \in Procs, pc[p] \in InFault \cup InClose,
             pc[q] \in InFault \cup InClose
      PROVE  p = q
  <2>1. /\ curVma[p] \in Vmas /\ owner[curVma[p]] = p
        /\ curVma[q] \in Vmas /\ owner[curVma[q]] = q
    BY <1>1 DEF IInv, CurInv
  <2>2. private[curVma[p]] \in Pas /\ private[curVma[q]] \in Pas
    BY <2>1, ConstFacts DEF IInv, VmaInv, TypeOK
  <2> QED
    BY <2>1, <2>2, OnePas, ConstFacts DEF IInv, VmaInv
<1>2. ASSUME NEW p \in Procs, kmalloc_node(p) PROVE Alone'
  <2>1. \A q \in Procs : ~Adding(q) /\ ~Freeing(q)
    BY <1>1, <1>2 DEF kmalloc_node, InFault, InClose
  <2> QED
    BY <1>2, <2>1 DEF kmalloc_node, Alone
<1>3. ASSUME NEW p \in Procs, paging_vma_close(p) PROVE Alone'
  <2>1. \A q \in Procs : ~Adding(q) /\ ~Freeing(q)
    BY <1>1, <1>3 DEF paging_vma_close, InFault, InClose
  <2>2. addsMet' = addsMet
    BY <1>3 DEF paging_vma_close
  <2>3. CASE closeMet' = closeMet
    BY <2>2, <2>3 DEF Alone
  <2>4. CASE closeMet' = \E q \in Procs : Adding(q) \/ Freeing(q)
    <3>1. ~(\E q \in Procs : Adding(q) \/ Freeing(q))
      BY <2>1
    <3>2. ~closeMet'
      BY <2>4, <3>1
    <3> QED
      BY <2>2, <3>2 DEF Alone
  <2> QED
    BY <1>3, <2>3, <2>4 DEF paging_vma_close
<1>4. CASE UNCHANGED metVars
  BY <1>4 DEF Alone
<1>5. ASSUME NEW p \in Procs, Handler(p) PROVE Alone'
  <2>1. CASE UNCHANGED metVars
    BY <1>4, <2>1
  <2> QED
    BY <1>2, <1>3, <1>5, <2>1 DEF Handler, alloc_page, AllocFails, remap_pfn_range, RemapFails,
       list_add, NodeFails, CountAlloc, ExitClose, FreePage, CountFree, LoopEnds, reap
<1>6. ASSUME NEW p \in Procs, Syscall(p) PROVE Alone'
  <2>1. UNCHANGED metVars
    BY <1>6 DEF Syscall, paging_mmap, PasFails, paging_vma_fault, paging_vma_open, munmap, exit
  <2> QED
    BY <1>4, <2>1
<1>7. CASE kmod_paging_init \/ RegisterFails \/ kmod_paging_exit \/ SetDemandPaging \/ Stopped
  BY <1>4, <1>7 DEF kmod_paging_init, RegisterFails, kmod_paging_exit, SetDemandPaging,
     Stopped, vars
<1> QED
  BY <1>5, <1>6, <1>7 DEF Next

-----------------------------------------------------------------------------
(* The theorems *)

LEMMA SoleInvariant == Spec => []SoleInv
<1>1. Init => SoleInv
  BY ConstFacts DEF Init, SoleInv, Alone, MapInv, Backed, Sole, Covered, Disjoint, Gone, Fresh, Ahead
<1>2. IInv /\ SoleInv /\ [Next]_vars => SoleInv'
  <2> SUFFICES ASSUME IInv, SoleInv, [Next]_vars, Cardinality(Pas) = 1
                  PROVE  MapInv' /\ Alone'
    BY DEF SoleInv
  <2>1. MapInv /\ Alone
    BY DEF SoleInv
  <2>2. CASE UNCHANGED vars
    BY <2>1, <2>2 DEF vars, MapInv, Alone, Backed, Sole, Covered, Closing, Disjoint, Gone, Fresh,
       Ahead
  <2> QED
    BY <2>1, <2>2, MapStep, AloneStep
<1> QED
  BY <1>1, <1>2, Inductive, PTL DEF Spec

\* With one pa_state_struct at a time no close frees a page that a process has
\* mapped, no two processes reach one page, and no operation on the list meets another.
THEOREM SoleMappingsAreSound == Spec => []SoleMappingSound
<1>1. SoleInv => SoleMappingSound
  BY DEF SoleInv, MapInv, Alone, Backed, Sole, SoleMappingSound, MappingsSound
<1> QED
  BY <1>1, SoleInvariant, PTL

\* The pages a process has, as PageLending sees them.
Lent == [p \in Procs |-> {pte[p][a] : a \in Addr} \ {None}]

\* A step that maps nothing returns what it unmaps.
LEMMA ReturnStep ==
  ASSUME IInv, NEW p \in Procs, NEW back \in SUBSET used,
         \A q \in Procs, a \in Addr : pte[q][a] \notin back,
         used' = used \ back,
         \A q \in Procs, a \in Addr : q # p => pte'[q][a] = pte[q][a],
         \A a \in Addr : pte'[p][a] # None => pte'[p][a] = pte[p][a]
  PROVE  Lending!LendNext
<1> USE ConstFacts
<1>1. TypeOK
  BY DEF IInv
<1>2. \A q \in Procs : q # p => Lent'[q] = Lent[q]
  BY DEF Lent
<1>3. Lent'[p] \subseteq Lent[p]
  BY DEF Lent
<1>5. Lent[p] \ Lent'[p] \in SUBSET Frames
  BY <1>1 DEF Lent, TypeOK
<1> PICK S \in SUBSET Frames : S = Lent[p] \ Lent'[p]
  BY <1>5
<1>4. Lent' = [Lent EXCEPT ![p] = Lent[p] \ S]
  <2>1. Lent' = [q \in Procs |-> Lent'[q]] /\ Lent = [q \in Procs |-> Lent[q]]
    BY DEF Lent
  <2>2. Lent'[p] = Lent[p] \ S
    BY <1>3
  <2> QED
    BY <1>2, <2>1, <2>2
<1>6. back \in SUBSET Frames
  BY <1>1 DEF TypeOK
<1>7. \A f \in back : f \in used /\ \A q \in Procs : f \notin Lent[q]
  BY DEF Lent
<1>8. Lending!Return(p, S, back)
  BY <1>4, <1>7 DEF Lending!Return, Lending!Free, Lent
<1> QED
  BY <1>6, <1>8 DEF Lending!LendNext

\* Every step of the module is a step of PageLending, or none.
LEMMA LendingStep ==
  ASSUME IInv, MapInv, Cardinality(Pas) = 1, Next
  PROVE  Lending!LendNext \/ UNCHANGED Lending!lendVars
<1> USE ConstFacts
<1>1. TypeOK
  BY DEF IInv
<1>2. CASE UNCHANGED <<pte, used>>
  BY <1>2 DEF Lending!lendVars
<1>3. ASSUME NEW p \in Procs, alloc_page(p) PROVE Lending!LendNext
  <2>1. PICK f \in Frames \ used : used' = used \cup {f} /\ pte' = pte
    BY <1>3 DEF alloc_page
  <2> QED
    BY <2>1 DEF Lending!LendNext, Lending!Take
<1>4. ASSUME NEW p \in Procs, remap_pfn_range(p) PROVE Lending!LendNext
  <2>1. pc[p] = "remap" /\ curPage[p] \in Frames /\ curAddr[p] \in Addr
    BY <1>1, <1>4 DEF remap_pfn_range, IInv, HandInv, CurInv, InHand, InFault, TypeOK
  <2> PICK f \in Frames : f = curPage[p]
    BY <2>1
  <2>2. used' = used /\ pte' = [pte EXCEPT ![p][curAddr[p]] = f]
    BY <1>4 DEF remap_pfn_range
  <2>3. f \in used /\ f # None
    BY <1>1, <2>1 DEF IInv, HandInv, InHand, TypeOK
  <2>4. (\A q \in Procs, a \in Addr : pte[q][a] # f) /\ pte[p][curAddr[p]] = None
    BY <2>1 DEF MapInv, Fresh, Ahead
  <2>5. \A q \in Procs, a \in Addr :
          pte'[q][a] = IF q = p /\ a = curAddr[p] THEN f ELSE pte[q][a]
    BY <1>1, <2>1, <2>2 DEF TypeOK
  <2>6. \A q \in Procs : q # p => Lent'[q] = Lent[q]
    BY <2>5 DEF Lent
  <2>7. Lent'[p] = Lent[p] \cup {f}
    BY <2>1, <2>3, <2>4, <2>5 DEF Lent
  <2>8. Lent' = [Lent EXCEPT ![p] = Lent[p] \cup {f}]
    <3>1. Lent' = [q \in Procs |-> Lent'[q]] /\ Lent = [q \in Procs |-> Lent[q]]
      BY DEF Lent
    <3> QED
      BY <2>6, <2>7, <3>1
  <2>9. Lending!Lend(p, f)
    BY <2>2, <2>3, <2>4, <2>8 DEF Lending!Lend, Lending!Free, Lent
  <2> QED
    BY <2>9 DEF Lending!LendNext
<1>5. ASSUME NEW p \in Procs, NEW S, Unmap(p, S), used' = used PROVE Lending!LendNext
  <2>1. {} \in SUBSET used /\ used' = used \ {}
    BY <1>5
  <2>2. /\ \A q \in Procs, a \in Addr : q # p => pte'[q][a] = pte[q][a]
        /\ \A a \in Addr : pte'[p][a] # None => pte'[p][a] = pte[p][a]
    BY <1>1, <1>5, Unmaps
  <2> QED
    BY <1>1, <1>5, <2>1, <2>2, ReturnStep
<1>6. ASSUME NEW p \in Procs, RemapFails(p) PROVE Lending!LendNext
  <2>1. PICK S : Unmap(p, S)
    BY <1>6 DEF RemapFails, AbortMmap, StartExit
  <2>2. {curPage[p]} \in SUBSET used /\ used' = used \ {curPage[p]}
    BY <1>6 DEF RemapFails, IInv, HandInv, InHand
  <2>3. \A q \in Procs, a \in Addr : pte[q][a] \notin {curPage[p]}
    BY <1>6 DEF RemapFails, MapInv, Fresh
  <2>4. /\ \A q \in Procs, a \in Addr : q # p => pte'[q][a] = pte[q][a]
        /\ \A a \in Addr : pte'[p][a] # None => pte'[p][a] = pte[p][a]
    BY <1>1, <2>1, Unmaps
  <2> QED
    BY <2>2, <2>3, <2>4, ReturnStep
<1>7. ASSUME NEW p \in Procs, FreePage(p) PROVE Lending!LendNext
  <2>1. \A q \in Procs, a \in Addr : pte[q][a] = None
    BY <1>7, NothingMapped DEF FreePage
  <2>2. PICK f \in ref_page_list : used' = used \ {f} /\ pte' = pte
    BY <1>7 DEF FreePage
  <2>3. {f} \in SUBSET used /\ f \in Frames
    BY <1>1 DEF IInv, HandInv, TypeOK
  <2>4. \A q \in Procs, a \in Addr : pte[q][a] \notin {f}
    BY <2>1, <2>3
  <2> QED
    BY <1>7, <2>2, <2>3, <2>4, ReturnStep
<1>8. ASSUME NEW p \in Procs, Handler(p)
      PROVE  Lending!LendNext \/ UNCHANGED Lending!lendVars
  <2>1. CASE AllocFails(p)
    BY <1>2, <1>5, <2>1 DEF AllocFails, AbortMmap
  <2>2. CASE NodeFails(p)
    BY <1>2, <1>5, <2>2 DEF NodeFails, StartExit
  <2>3. CASE \/ kmalloc_node(p) \/ list_add(p) \/ CountAlloc(p) \/ reap(p)
             \/ (\E v \in Vmas : ExitClose(p, v)) \/ paging_vma_close(p)
             \/ CountFree(p) \/ LoopEnds(p)
    BY <1>2, <2>3 DEF kmalloc_node, list_add, CountAlloc, reap, ExitClose, paging_vma_close,
       CountFree, LoopEnds
  <2> QED
    BY <1>3, <1>4, <1>6, <1>7, <1>8, <2>1, <2>2, <2>3 DEF Handler
<1>9. ASSUME NEW p \in Procs, Syscall(p)
      PROVE  Lending!LendNext \/ UNCHANGED Lending!lendVars
  <2>1. CASE exit(p)
    BY <1>5, <2>1 DEF exit, StartExit
  <2>2. CASE \E v \in Vmas : munmap(p, v)
    BY <1>5, <2>2 DEF munmap
  <2>3. CASE UNCHANGED <<pte, used>>
    BY <1>2, <2>3
  <2> QED
    BY <1>9, <2>1, <2>2, <2>3 DEF Syscall, paging_mmap, PasFails, paging_vma_fault, paging_vma_open
<1>10. CASE kmod_paging_init \/ RegisterFails \/ kmod_paging_exit \/ SetDemandPaging \/ Stopped
  BY <1>2, <1>10 DEF kmod_paging_init, RegisterFails, kmod_paging_exit, SetDemandPaging,
     Stopped, vars
<1> QED
  BY <1>8, <1>9, <1>10 DEF Next

\* With one pa_state_struct at a time paging.c implements PageLending.
THEOREM PagingImplementsLending ==
  ASSUME Cardinality(Pas) = 1
  PROVE  Spec => ImplementsLending
<1>1. Init => Lending!LendInit
  <2>1. ASSUME Init PROVE \A p \in Procs : {pte[p][a] : a \in Addr} \ {None} = {}
    BY <2>1 DEF Init
  <2> QED
    BY <2>1 DEF Init, Lending!LendInit
<1>2. IInv /\ SoleInv /\ [Next]_vars => [Lending!LendNext]_(Lending!lendVars)
  <2> SUFFICES ASSUME IInv, SoleInv, [Next]_vars PROVE [Lending!LendNext]_(Lending!lendVars)
    OBVIOUS
  <2>1. CASE UNCHANGED vars
    BY <2>1 DEF vars, Lending!lendVars
  <2>2. CASE Next
    BY <2>2, LendingStep DEF SoleInv
  <2> QED
    BY <2>1, <2>2
<1> QED
  BY <1>1, <1>2, Inductive, SoleInvariant, PTL DEF Spec, ImplementsLending, Lending!LendSpec
=============================================================================
