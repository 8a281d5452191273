-------------------------- MODULE MCRecurringTimer --------------------------
(* Model-checking instances of RecurringTimer. *)
EXTENDS RecurringTimer
=============================================================================
