----------------------------- MODULE MCStudios -----------------------------
(***************************************************************************)
(* Model-checking instances of the modules for single studios.  The programs *)
(* have nothing to do with each other: a behaviour is one of one program,    *)
(* and the others stay where they begin.                                    *)
(***************************************************************************)
EXTENDS KernelMemory, Signals, Quicksort

VARIABLE program

studioVars == <<program, memVars, sigVars, sortVars>>

\* The array of Quicksort where the program is another one.
SmallArray == array_size = 0 /\ input[0] = 0 /\ ~mapped

StudiosInit ==
  /\ program \in {"kernel_memory", "signals", "sort"}
  /\ MemInit /\ SigInit /\ SortInit
  /\ program = "kernel_memory" \/ nr_structs = 0
  /\ program = "sort" \/ SmallArray

\* A step of one program.
Memory(step)  == program = "kernel_memory" /\ step /\ UNCHANGED <<program, sigVars, sortVars>>
Signals(step) == program = "signals" /\ step /\ UNCHANGED <<program, memVars, sortVars>>
Sort(step)    == program = "sort" /\ step /\ UNCHANGED <<program, memVars, sigVars>>

StudiosNext == Memory(MemNext) \/ Signals(SigNext) \/ Sort(SortNext)

\* The scheduler runs every process and thread that can go on, and rmmod; the
\* kernel delivers the pending signals when it returns to the receiver, so the
\* handler comes before the next step of main sooner or later.
StudiosSpec ==
  /\ StudiosInit
  /\ [][StudiosNext]_studioVars
  /\ WF_studioVars(Memory(thread_fn))
  /\ WF_studioVars(Memory(kernel_memory_exit))
  /\ \A s \in Senders : WF_studioVars(Signals(sender_main(s)))
  /\ WF_studioVars(Signals(receiver_main))
  /\ WF_studioVars(Signals(sig_handler))

\* Halves behind the array: a negative number, whole ones and fractions.
BehindValues == {-2, 0, 1, 2, 3, 5}
=============================================================================
