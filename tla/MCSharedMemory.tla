--------------------------- MODULE MCSharedMemory ---------------------------
(* Model-checking instances of SharedMemory. *)
EXTENDS SharedMemory
=============================================================================
