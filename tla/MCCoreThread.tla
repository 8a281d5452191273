---------------------------- MODULE MCCoreThread ----------------------------
(* Model-checking instances of CoreThread. *)
EXTENDS CoreThread
=============================================================================
