---------------------------- MODULE MCPrograms ----------------------------
(***************************************************************************)
(* Model-checking instances of the modules for single programs, in the way of *)
(* MCStudios: a behaviour is one of one program, and the others stay where     *)
(* they begin.                                                              *)
(***************************************************************************)
EXTENDS RefPageList, VfsThread, KobjectExample, FamilyReader, ForkTree, CountedFile,
        Server, DenseMM

VARIABLE program

Programs == {"list", "vfs", "kobject", "family", "fork", "file", "server", "matrix"}

programVars == <<program, listVars, vfsVars, kobVars, famVars, treeVars, fileVars,
                 srvVars, mmVars>>

\* One initial state of the programs that have several.
VfsAtRest  == target = "reaped" /\ ~heldElsewhere /\ ~hasWrite
TreeAtRest == generations = 1 /\ tty
FileAtRest == \A a \in Appenders, m \in LineLens : lineLen[a] <= m
MatAtRest  == mmProg = "serial" /\ matrix_size = 0

\* The family of a process below init, or of a chain of two below kthreadd;
\* adoption makes the other trees.
Chain == real_parent[4] = 3 /\ (real_parent[3] = 2 <=> life[4] = "alive")

ProgramsInit ==
  /\ FamInit /\ Chain /\ program \in Programs
  /\ program = "family" \/ real_parent[3] = 2
  /\ VfsInit /\ (program = "vfs" \/ VfsAtRest)
  /\ TreeInit /\ (program = "fork" \/ TreeAtRest)
  /\ FileInit /\ (program = "file" \/ FileAtRest)
  /\ MatInit /\ (program = "matrix" \/ MatAtRest)
  /\ ListInit /\ KobInit /\ SrvInit

\* A step of one program.
OfList(step) ==
  /\ program = "list" /\ step
  /\ UNCHANGED <<program, vfsVars, kobVars, famVars, treeVars, fileVars, srvVars, mmVars>>
OfVfs(step) ==
  /\ program = "vfs" /\ step
  /\ UNCHANGED <<program, listVars, kobVars, famVars, treeVars, fileVars, srvVars, mmVars>>
OfKobject(step) ==
  /\ program = "kobject" /\ step
  /\ UNCHANGED <<program, listVars, vfsVars, famVars, treeVars, fileVars, srvVars, mmVars>>
OfFamily(step) ==
  /\ program = "family" /\ step
  /\ UNCHANGED <<program, listVars, vfsVars, kobVars, treeVars, fileVars, srvVars, mmVars>>
OfFork(step) ==
  /\ program = "fork" /\ step
  /\ UNCHANGED <<program, listVars, vfsVars, kobVars, famVars, fileVars, srvVars, mmVars>>
OfFile(step) ==
  /\ program = "file" /\ step
  /\ UNCHANGED <<program, listVars, vfsVars, kobVars, famVars, treeVars, srvVars, mmVars>>
OfServer(step) ==
  /\ program = "server" /\ step
  /\ UNCHANGED <<program, listVars, vfsVars, kobVars, famVars, treeVars, fileVars, mmVars>>
OfMatrix(step) ==
  /\ program = "matrix" /\ step
  /\ UNCHANGED <<program, listVars, vfsVars, kobVars, famVars, treeVars, fileVars, srvVars>>

ProgramsNext ==
  \/ OfList(ListNext) \/ OfVfs(VfsNext) \/ OfKobject(KobNext) \/ OfFamily(FamNext)
  \/ OfFork(TreeNext) \/ OfFile(FileNext) \/ OfServer(SrvNext)
  \/ OfMatrix(MatNext)

\* Fair to the one program, as its own specification is.
ProgramsSpec ==
  /\ ProgramsInit
  /\ [][ProgramsNext]_programVars
  /\ WF_programVars(\/ OfVfs(vfs_thread_fn) \/ OfFork(TreeNext) \/ OfServer(server_main))

MCMatA == [i \in 0..63 |-> i + 1]
MCMatB == [i \in 0..63 |-> (i * i) + 2]
MCIterations == -1..2
MCRunTimes == {-1, 2, 40}
=============================================================================
