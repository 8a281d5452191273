------------------------------ MODULE MCPaging ------------------------------
(* Model-checking instances of Paging. *)
EXTENDS Paging, TLC

\* Processes, VMAs, pa_state_structs and pages are interchangeable.
Symmetry ==
  Permutations(Procs) \cup Permutations(Vmas) \cup Permutations(Pas)
    \cup Permutations(Frames)
=============================================================================
