---------------------------- MODULE PageLending ----------------------------
(***************************************************************************)
(* What the paging device promises: the module takes pages from the kernel,   *)
(* lends each to one process at most, and gives a page back to the kernel     *)
(* only when no process has it.                                             *)
(***************************************************************************)
CONSTANTS Procs, Pages

VARIABLES
  lent,   \* the pages each process can reach
  out     \* the pages the module has taken from the kernel

lendVars == <<lent, out>>

Free(f) == \A p \in Procs : f \notin lent[p]

LendInit == lent = [p \in Procs |-> {}] /\ out = {}

Take(f) == f \in Pages \ out /\ out' = out \cup {f} /\ UNCHANGED lent

Lend(p, f) ==
  /\ f \in out /\ Free(f)
  /\ lent' = [lent EXCEPT ![p] = @ \cup {f}] /\ UNCHANGED out

\* A process loses the pages of a mapping that ends; pages that nobody has go
\* back.
Return(p, S, back) ==
  /\ \A f \in back : f \in out /\ Free(f)
  /\ lent' = [lent EXCEPT ![p] = @ \ S] /\ out' = out \ back

LendNext ==
  \/ \E f \in Pages : Take(f) \/ \E p \in Procs : Lend(p, f)
  \/ \E p \in Procs, S \in SUBSET Pages, back \in SUBSET Pages : Return(p, S, back)

LendSpec == LendInit /\ [][LendNext]_lendVars
=============================================================================
