------------------------------ MODULE PageSet ------------------------------
(***************************************************************************)
(* What ref_page_list of labs/lab2/mod/paging.c is meant to be: a set of       *)
(* pages, to which do_fault adds one at a time and which paging_vma_close      *)
(* gives back to the kernel all at once.                                       *)
(*                                                                         *)
(* Nothing is promised once a close has met another operation.  When two adds  *)
(* meet, pages may get lost from the set, and lost ones may come back to it;   *)
(* a close gives back exactly those that are in it.                          *)
(***************************************************************************)
CONSTANT Pages

VARIABLES
  used,      \* the pages taken from the kernel
  list,      \* those of them that are in the set
  addsMet,   \* two adds have met
  closeMet   \* a close and another operation have

setVars == <<used, list, addsMet, closeMet>>

SetInit == used = {} /\ list = {} /\ ~addsMet /\ ~closeMet

\* alloc_page, and __free_page where the page could not be mapped.
Take(f) == f \in Pages \ used /\ used' = used \cup {f} /\ UNCHANGED list
GiveUp(f) == f \in used \ list /\ used' = used \ {f} /\ UNCHANGED list

Add(f) == f \in used \ list /\ list' = list \cup {f} /\ UNCHANGED used
AddInto(f) == addsMet /\ f \in used \ list /\ f \in list' /\ list' \subseteq used /\ UNCHANGED used

FreeAll == used' = used \ list /\ list' = {}

\* Operations meet in the middle of a step or between two.
Meet == UNCHANGED <<used, list>>

SetNext ==
  \/ closeMet'
  \/ /\ ~closeMet' /\ (addsMet => addsMet')
     /\ \/ \E f \in Pages : Take(f) \/ GiveUp(f) \/ Add(f) \/ AddInto(f)
        \/ FreeAll \/ Meet

SetSpec == SetInit /\ [][SetNext]_setVars
=============================================================================
