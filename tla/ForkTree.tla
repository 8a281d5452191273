------------------------------ MODULE ForkTree ------------------------------
(***************************************************************************)
(* Studio 5 (studios/studio5/tree_fork.c): a process forks a left and a right  *)
(* child, each of these does the same, down to the last generation; every     *)
(* process then waits for one child and exits.  A process is named by its     *)
(* path from the root.  Each fork copies the lines that the C library has not *)
(* yet written out: on a terminal every line is written at once, otherwise    *)
(* when the process exits.                                                   *)
(***************************************************************************)
EXTENDS Naturals, Sequences, FiniteSets

CONSTANT MaxGen   \* 10 in the code

ASSUME TreeAssumption == MaxGen \in Nat \ {0}

Paths == UNION {[1..n -> {"left", "right"}] : n \in 0..MaxGen - 1}
Root == <<>>
Child(p, side) == Append(p, side)
Below(p, q) == Len(p) <= Len(q) /\ SubSeq(q, 1, Len(p)) = p
Gen(p) == Len(p) + 1

VARIABLES
  generations,   \* the argument of the program
  tty,           \* standard output is a terminal
  treePc,        \* each process: "unborn", at a call, "zombie" or "gone"
  buffer,        \* the lines each process has not written out, by their process
  printed,       \* how often the line of each process has been written
  forkFailed     \* some fork has failed (history)

treeVars == <<generations, tty, treePc, buffer, printed, forkFailed>>

TreeGoto(p, l) == treePc' = [treePc EXCEPT ![p] = l]
Born(p)  == treePc[p] # "unborn"
HasEnded(p) == treePc[p] \in {"zombie", "gone"}
Children(p) == {q \in Paths : Len(q) = Gen(p) /\ Below(p, q)}

-----------------------------------------------------------------------------
(* Mutated forms of the operators that follow. *)
MayGoOn_NoWait(p) == TRUE
Inherited_Flushed(p) == {}

-----------------------------------------------------------------------------
\* wait(NULL) returns at once without a child.  What a child gets
\* of its parent's lines.  The test that ends the loop.
MayGoOn(p) == \A q \in Children(p) : ~Born(q)
Inherited(p) == buffer[p]
LastGen(p) == Gen(p) >= generations

TreeInit ==
  /\ generations \in 1..MaxGen /\ tty \in BOOLEAN
  /\ treePc = [p \in Paths |-> IF p = Root THEN "print" ELSE "unborn"]
  /\ buffer = [p \in Paths |-> {}] /\ printed = [p \in Paths |-> 0]
  /\ forkFailed = FALSE

\* A round of the loop begins: the generation and the number are printed.
PrintGen(p) ==
  /\ treePc[p] = "print"
  /\ \/ tty /\ printed' = [printed EXCEPT ![p] = @ + 1] /\ UNCHANGED buffer
     \/ ~tty /\ buffer' = [buffer EXCEPT ![p] = @ \cup {p}] /\ UNCHANGED printed
  /\ TreeGoto(p, IF LastGen(p) THEN "wait" ELSE "left")
  /\ UNCHANGED <<generations, tty, forkFailed>>

\* fork: the child begins the next round, the parent goes on to the right
\* child and then to wait.
fork(p, side) ==
  /\ treePc[p] = side
  /\ treePc' = [treePc EXCEPT ![p] = IF side = "left" THEN "right" ELSE "wait",
                              ![Child(p, side)] = "print"]
  /\ buffer' = [buffer EXCEPT ![Child(p, side)] = Inherited(p)]
  /\ UNCHANGED <<generations, tty, printed, forkFailed>>

\* exit writes out the lines.
Flush(p) ==
  /\ printed' = [q \in Paths |-> printed[q] + IF q \in buffer[p] THEN 1 ELSE 0]
  /\ buffer' = [buffer EXCEPT ![p] = {}]

\* The process exits at once, with the child it may have.
ForkFails(p, side) ==
  /\ treePc[p] = side /\ TreeGoto(p, "zombie") /\ Flush(p)
  /\ forkFailed' = TRUE
  /\ UNCHANGED <<generations, tty>>

\* wait(NULL) reaps one child that has ended.
Reap(p) ==
  /\ treePc[p] = "wait"
  /\ \E q \in Children(p) :
       /\ treePc[q] = "zombie"
       /\ treePc' = [treePc EXCEPT ![q] = "gone", ![p] = "exit"]
  /\ UNCHANGED <<generations, tty, buffer, printed, forkFailed>>

\* wait(NULL) finds no child.
NoChild(p) ==
  /\ treePc[p] = "wait" /\ MayGoOn(p) /\ TreeGoto(p, "exit")
  /\ UNCHANGED <<generations, tty, buffer, printed, forkFailed>>

TreeExit(p) ==
  /\ treePc[p] = "exit" /\ TreeGoto(p, "zombie") /\ Flush(p)
  /\ UNCHANGED <<generations, tty, forkFailed>>

\* The shell or init reaps a process whose parent has ended.
InitReaps(p) ==
  /\ treePc[p] = "zombie"
  /\ p = Root \/ \E q \in Paths : HasEnded(q) /\ p \in Children(q)
  /\ TreeGoto(p, "gone")
  /\ UNCHANGED <<generations, tty, buffer, printed, forkFailed>>

tree_process(p) ==
  \/ PrintGen(p) \/ Reap(p) \/ NoChild(p) \/ TreeExit(p) \/ InitReaps(p)
  \/ \E side \in {"left", "right"} : fork(p, side) \/ ForkFails(p, side)

TreeNext == \E p \in Paths : tree_process(p)

\* Each process makes finitely many steps: it is enough that some one of those
\* that can go on is scheduled.
TreeSpec == TreeInit /\ [][TreeNext]_treeVars /\ WF_treeVars(TreeNext)

-----------------------------------------------------------------------------
TreeTypeOK ==
  /\ generations \in 1..MaxGen
  /\ treePc \in [Paths -> {"unborn", "print", "left", "right", "wait", "exit",
                           "zombie", "gone"}]
  /\ buffer \in [Paths -> SUBSET Paths]
  /\ printed \in [Paths -> Nat]
  /\ {tty, forkFailed} \subseteq BOOLEAN

\* When the root has ended a whole line of processes down to the last generation
\* has: each waits for one child, and only for one.
RootAfterLeaf ==
  HasEnded(Root) /\ ~forkFailed =>
    \E leaf \in Paths : Gen(leaf) = generations /\ \A p \in Paths : Below(p, leaf) => HasEnded(p)

AllEnded == \A p \in Paths : Born(p) => HasEnded(p)
Subtree(p) == {q \in Paths : Below(p, q) /\ Born(q)}

\* One line of each process on a terminal, and elsewhere as many as the process
\* has descendants and itself; without a failed fork all the processes of all
\* generations.
LinesRight ==
  /\ \A p \in Paths :
       printed[p] = IF ~Born(p) THEN 0 ELSE IF tty THEN 1 ELSE Cardinality(Subtree(p))
  /\ ~forkFailed => \A p \in Paths : Born(p) <=> Gen(p) <= generations

\* Once the root has begun, every process of the tree ends, and the lines that
\* have then been written out are as many as the buffers copied by fork make them.
LinesMultiply == treePc[Root] # "print" ~> AllEnded /\ LinesRight
=============================================================================
