--------------------------- MODULE ProgramProofs ---------------------------
(***************************************************************************)
(* Proofs about the modules of single programs: the VFS thread, the files in   *)
(* sysfs, the reader of a family, the server, the tree of forks, the file of   *)
(* counted lines and the matrices, for any number of users, values, writers,  *)
(* processes, clients, generations, lines, rows and threads and any size of a  *)
(* buffer.  RefPageListProofs lends the induction over numbers.                *)
(***************************************************************************)
EXTENDS VfsThread, KobjectExample, FamilyReader, Server, ForkTree, CountedFile,
        DenseMM, RefPageListProofs, SequenceTheorems, TLAPS

-----------------------------------------------------------------------------
(* The VFS thread *)

\* The reference is there from the lookup on.
Pinned == vfsPc \in {"files", "fcheck", "fop", "write", "return"} => pinned

\* A file is used only if fcheck_files has found it; files is null only because
\* the process has exited.
Found ==
  /\ vfsPc \in {"fop", "write"} => file = "stdout"
  /\ vfsPc = "fcheck" => files = "table" \/ (files = "null" /\ target # "running")

VfsInv == VfsTypeOK /\ Pinned /\ Found /\ OopsExplained

\* Before the module is loaded nothing is held.
LEMMA VfsInitial == VfsInit => VfsInv
BY DEF VfsInit, VfsInv, VfsTypeOK, Pinned, Found, OopsExplained, InThread

\* Every step of the thread and of the process it writes for keeps the invariant.
LEMMA VfsStep ==
  ASSUME VfsInv, [VfsNext]_vfsVars PROVE VfsInv'
<1> USE DEF VfsInv, VfsTypeOK, Pinned, Found, OopsExplained, InThread, targetVars,
            FileFreed, TableFreed, Step
<1>1. CASE vfs_module_init
  BY <1>1 DEF vfs_module_init, Woken
<1>2. CASE vfs_module_exit
  BY <1>2 DEF vfs_module_exit
<1>3. CASE RunFreedCode
  BY <1>3 DEF RunFreedCode
<1>4. CASE PrintFs
  BY <1>4 DEF PrintFs
<1>5. CASE find_get_pid
  BY <1>5 DEF find_get_pid
<1>6. CASE vfs_get_pid_task
  BY <1>6 DEF vfs_get_pid_task, PinTask
<1>7. CASE LoadFiles
  BY <1>7 DEF LoadFiles
<1>8. CASE fcheck_files
  BY <1>8 DEF fcheck_files, IsNull
<1>9. CASE LoadFop
  BY <1>9 DEF LoadFop
<1>10. CASE CallWrite
  BY <1>10 DEF CallWrite
<1>11. CASE thread_return
  BY <1>11 DEF thread_return
<1>12. CASE TargetMoves
  <2>1. UNCHANGED <<vfsModule, vfsPc, pinned, files, file, hello, heldElsewhere, hasWrite,
                    rootGone>>
    BY <1>12 DEF TargetMoves
  <2>2. \/ target = "running" /\ target' = "zombie" /\ stdoutOpen' = FALSE
        \/ target = "zombie" /\ target' = "reaped" /\ stdoutOpen' = stdoutOpen
        \/ stdoutOpen /\ stdoutOpen' = FALSE /\ target' = target
    BY <1>12 DEF TargetMoves
  <2>3. CASE target = "running" /\ target' = "zombie" /\ stdoutOpen' = FALSE
    BY <2>1, <2>3, ZenonT(30)
  <2>4. CASE target = "zombie" /\ target' = "reaped" /\ stdoutOpen' = stdoutOpen
    BY <2>1, <2>4
  <2>5. CASE stdoutOpen /\ stdoutOpen' = FALSE /\ target' = target
    <3>1. VfsTypeOK'
      BY <2>1, <2>5, ZenonT(30)
    <3>2. Pinned' /\ Found'
      BY <2>1, <2>5
    <3>3. OopsExplained'
      BY <2>1, <2>5
    <3> QED
      BY <3>1, <3>2, <3>3
  <2> QED
    BY <2>2, <2>3, <2>4, <2>5
<1>13. CASE RootEntryFreed
  BY <1>13 DEF RootEntryFreed
<1>14. CASE UNCHANGED vfsVars
  BY <1>14 DEF vfsVars
<1> QED
  BY <1>1, <1>2, <1>3, <1>4, <1>5, <1>6, <1>7, <1>8, <1>9, <1>10, <1>11, <1>12,
     <1>13, <1>14 DEF VfsNext, vfs_thread_fn

\* The invariant of the VFS thread holds in every state.
LEMMA VfsInductive == VfsSpec => []VfsInv
BY VfsInitial, VfsStep, PTL DEF VfsSpec

\* The thread's variables keep their types, whatever happens to the process it writes for.
THEOREM VfsTypeCorrect == VfsSpec => []VfsTypeOK
<1>1. VfsInv => VfsTypeOK
  BY DEF VfsInv
<1> QED
  BY <1>1, VfsInductive, PTL

\* The task_struct that vfs_thread.c reads its files from is never freed under
\* it, whenever the process exits and is reaped.
THEOREM TaskIsHeld == VfsSpec => []TaskHeld
<1>1. VfsInv => TaskHeld
  BY DEF VfsInv, Pinned, TaskHeld, TaskFreed
<1> QED
  BY <1>1, VfsInductive, PTL

\* Nothing but the causes that OopsExplained names ends the thread of
\* vfs_thread.c.
THEOREM OopsIsExplained == VfsSpec => []OopsExplained
<1>1. VfsInv => OopsExplained
  BY DEF VfsInv
<1> QED
  BY <1>1, VfsInductive, PTL

-----------------------------------------------------------------------------
(* The files in sysfs *)

\* The steps of init and exit, and where the kobject is at each.
KobjectMatches ==
  /\ kobModule \in {"new", "removed"} <=> example_kobj = "none"
  /\ kobModule = "loading" <=> example_kobj = "created"
  /\ kobModule = "loaded" <=> example_kobj = "files"
  /\ kobModule = "unloading" <=> example_kobj = "deleted"

\* Handlers run only while the files are there or are being removed.
HandlersInFiles ==
  \A u \in KobUsers : kobPc[u] # "user" => example_kobj \in {"files", "deleted"}

\* A user whose number stands has left the handler; one that is about to assign
\* has its own number in var.
KeptHaveLeft ==
  \A u \in kobKept : kobPc[u] = "user" /\ kobBuf[u] # Invalid
VarIsOwn ==
  \A u \in KobUsers : kobPc[u] = "assign" =>
    kobFile[u] # "foo" /\ kobVar[u] = kobBuf[u] /\ kobBuf[u] # Invalid

KobInv ==
  /\ KobTypeOK /\ KobjectMatches /\ HandlersInFiles /\ KeptHaveLeft /\ VarIsOwn /\ ReadBack

\* Without the module there is no file and nobody in one.
LEMMA KobInitial == KobInit => KobInv
BY KobAssumption
DEF KobInit, KobInv, KobTypeOK, KobjectMatches, HandlersInFiles, KeptHaveLeft, VarIsOwn,
    ReadBack, KobFiles

\* Every step of the module and of the users of its files keeps the invariant.
LEMMA KobStep ==
  ASSUME KobInv, [KobNext]_kobVars PROVE KobInv'
<1> USE DEF KobInv, KobTypeOK, KobFiles
<1>1. CASE example_init
  BY <1>1 DEF example_init, kobData, GroupFailed, KobjectMatches, HandlersInFiles,
              KeptHaveLeft, VarIsOwn, ReadBack, Shown
<1>2. CASE example_exit
  BY <1>2 DEF example_exit, kobData, Drained, KobjectMatches, HandlersInFiles,
              KeptHaveLeft, VarIsOwn, ReadBack, Shown
<1>3. ASSUME NEW u \in KobUsers, NEW f \in KobFiles, NEW in \in KobValues \cup {Invalid},
             KobWrite(u, f, in)
      PROVE  KobInv'
  BY <1>3 DEF KobWrite, KobGoto, KobjectMatches, HandlersInFiles,
              KeptHaveLeft, VarIsOwn, ReadBack, Shown
<1>4. ASSUME NEW u \in KobUsers, foo_store(u) PROVE KobInv'
  BY <1>4, KobAssumption
  DEF foo_store, KobGoto, Overwrite, KobjectMatches, HandlersInFiles, KeptHaveLeft,
      VarIsOwn, ReadBack, Shown
<1>5. ASSUME NEW u \in KobUsers, b_parse(u) PROVE KobInv'
  BY <1>5 DEF b_parse, KobGoto, SetVar, KobjectMatches, HandlersInFiles, KeptHaveLeft,
              VarIsOwn, ReadBack, Shown
<1>6. ASSUME NEW u \in KobUsers, b_store(u) PROVE KobInv'
  BY <1>6, KobAssumption
  DEF b_store, KobGoto, IsBaz, Overwrite, KobjectMatches, HandlersInFiles, KeptHaveLeft,
      VarIsOwn, ReadBack, Shown
<1>7. CASE UNCHANGED kobVars
  BY <1>7 DEF kobVars, KobjectMatches, HandlersInFiles, KeptHaveLeft, VarIsOwn, ReadBack,
              Shown
<1> QED
  BY <1>1, <1>2, <1>3, <1>4, <1>5, <1>6, <1>7 DEF KobNext

\* The invariant of the files in sysfs holds in every state.
LEMMA KobInductive == KobSpec => []KobInv
BY KobInitial, KobStep, PTL DEF KobSpec

\* foo, baz and bar are numbers of sscanf at any time, and a buffer is one number or none.
THEOREM KobTypeCorrect == KobSpec => []KobTypeOK
<1>1. KobInv => KobTypeOK
  BY DEF KobInv
<1> QED
  BY <1>1, KobInductive, PTL

\* Whatever the users of kobject-example.c write at the same time, each file
\* shows the last number that was written to it.
THEOREM WhatIsWrittenIsRead == KobSpec => []ReadBack
<1>1. KobInv => ReadBack
  BY DEF KobInv
<1> QED
  BY <1>1, KobInductive, PTL

\* Whether its init fails or it is removed, no handler of kobject-example.c runs
\* and no kobject is left without the module.
THEOREM HandlersAreDrained == KobSpec => []HandlersDrained
<1>1. KobInv => HandlersDrained
  BY DEF KobInv, KobjectMatches, HandlersInFiles, HandlersDrained
<1> QED
  BY <1>1, KobInductive, PTL

-----------------------------------------------------------------------------
(* The reader of a family *)

\* Init and kthreadd never exit, and the parent of every other process is alive:
\* the children of a process that exits are adopted at once.
ParentsAlive ==
  \A t \in Tasks :
    IF t \in {1, 2} THEN life[t] = "alive" /\ real_parent[t] = Idle
    ELSE /\ real_parent[t] \in Tasks
         /\ life[t] # "reaped" => life[real_parent[t]] = "alive"

\* A pointer of a writer is stale only if a process was reaped during its store.
PidKnown(w) ==
  famPc[w] = "get" => rpid[w] \in Tasks /\ (life[rpid[w]] = "reaped" => w \in reaps)
OnTheWay(w) ==
  famPc[w] = "walk" =>
    /\ curr_task[w] \in Tasks \cup {Idle}
    /\ w \in reaps \/ curr_task[w] = Idle \/ life[curr_task[w]] # "reaped"
    /\ this_pid[w] = curr_task[w] \/ TaskGone(curr_task[w])
OopsAfterReap(w) == famPc[w] = "oops" => w \in reaps

\* The number of a writer stands in pidme until it looks the process up.
OwnNumber(w) ==
  /\ famPc[w] = "find" => pidme = famNum[w] \/ w \in overtaken
  /\ famPc[w] \in {"get", "walk"} => rpid[w] = famNum[w] \/ w \in overtaken

FamInv ==
  /\ FamTypeOK /\ ParentsAlive
  /\ \A w \in Writers : PidKnown(w) /\ OnTheWay(w) /\ OopsAfterReap(w) /\ OwnNumber(w)

\* Before the first store nobody walks and nobody has been reaped.
LEMMA FamInitial == FamInit => FamInv
BY FamAssumption
DEF FamInit, FamInv, FamTypeOK, ParentsAlive, PidKnown, OnTheWay, OopsAfterReap, OwnNumber,
    Idle

\* The steps that leave the tasks and the writers alone.
LEMMA FamStays ==
  ASSUME FamInv,
         UNCHANGED <<pidme, famPc, famNum, rpid, walkVars, taken, taskVars, reaps, overtaken>>,
         famModule' \in {"new", "loaded", "unloading", "removed"}
  PROVE  FamInv'
BY DEF FamInv, FamTypeOK, ParentsAlive, PidKnown, OnTheWay, OopsAfterReap, OwnNumber,
       walkVars, taskVars, TaskGone

\* A step of writer w that keeps its type and its own invariants.
LEMMA FamWriterStep ==
  ASSUME FamInv, NEW w \in Writers, FamTypeOK',
         UNCHANGED taskVars,
         \A s \in Tasks : life[s] = "reaped" => (s \in taken' <=> s \in taken),
         \A v \in Writers \ {w} :
           /\ v \in reaps' <=> v \in reaps
           /\ v \in overtaken => v \in overtaken'
           /\ famPc'[v] = famPc[v] /\ famNum'[v] = famNum[v] /\ rpid'[v] = rpid[v]
           /\ curr_task'[v] = curr_task[v] /\ this_pid'[v] = this_pid[v]
           /\ famPc[v] = "find" => pidme' = pidme \/ v \in overtaken',
         (PidKnown(w) /\ OnTheWay(w) /\ OopsAfterReap(w) /\ OwnNumber(w))'
  PROVE  FamInv'
<1>1. ParentsAlive'
  BY DEF FamInv, ParentsAlive, taskVars
<1>2. ASSUME NEW v \in Writers \ {w}
      PROVE  (PidKnown(v) /\ OnTheWay(v) /\ OopsAfterReap(v) /\ OwnNumber(v))'
  <2>1. (PidKnown(v) /\ OopsAfterReap(v))'
    BY <1>2 DEF FamInv, PidKnown, OopsAfterReap, taskVars
  <2>2. OnTheWay(v)'
    BY <1>2 DEF FamInv, OnTheWay, TaskGone, taskVars
  <2>3. OwnNumber(v)'
    BY <1>2 DEF FamInv, OwnNumber
  <2> QED
    BY <2>1, <2>2, <2>3
<1> QED
  BY <1>1, <1>2 DEF FamInv

\* A writer that leaves the handler is disturbed no more, or died because it was.
LEMMA FamReturnStep ==
  ASSUME FamInv, NEW w \in Writers, NEW l \in {"done", "oops"}, FamReturn(w, l),
         l = "oops" => w \in reaps,
         UNCHANGED <<famModule, pidme, taken, taskVars>>
  PROVE  FamInv'
<1>1. FamTypeOK'
  BY FamAssumption DEF FamReturn, FamGoto, FamInv, FamTypeOK, taskVars, Idle
<1>2. (PidKnown(w) /\ OnTheWay(w) /\ OopsAfterReap(w) /\ OwnNumber(w))'
  BY DEF FamReturn, FamGoto, FamInv, FamTypeOK, PidKnown, OnTheWay, OopsAfterReap, OwnNumber
<1> QED
  BY <1>1, <1>2, FamWriterStep DEF FamReturn, FamGoto, FamInv, FamTypeOK

\* Every step of a store, an exit or a reap keeps the invariant.
LEMMA FamStep ==
  ASSUME FamInv, [FamNext]_famVars PROVE FamInv'
<1> USE DEF Idle
<1>1. CASE fam_init
  BY <1>1, FamStays DEF fam_init, FamInv, FamTypeOK
<1>2. CASE fam_exit
  BY <1>2, FamStays DEF fam_exit, FamInv, FamTypeOK
<1>3. ASSUME NEW w \in Writers, NEW n \in {Refused, Idle} \cup Tasks, FamWrite(w, n) PROVE FamInv'
  <2>1. FamTypeOK'
    BY <1>3 DEF FamWrite, FamGoto, FamInv, FamTypeOK, walkVars, taskVars
  <2>2. (PidKnown(w) /\ OnTheWay(w) /\ OopsAfterReap(w) /\ OwnNumber(w))'
    BY <1>3 DEF FamWrite, FamGoto, FamInv, FamTypeOK, PidKnown, OnTheWay, OopsAfterReap,
                OwnNumber
  <2> QED
    BY <1>3, <2>1, <2>2, FamWriterStep DEF FamWrite, FamGoto, FamInv, FamTypeOK, walkVars
<1>4. ASSUME NEW w \in Writers, pidme_store(w) PROVE FamInv'
  <2>1. CASE famNum[w] = Refused /\ FamReturn(w, "done") /\ UNCHANGED pidme
    BY <1>4, <2>1, FamReturnStep DEF pidme_store
  <2>2. CASE /\ famNum[w] # Refused
             /\ SetPidme(w) /\ FamGoto(w, "find")
             /\ overtaken' = overtaken \cup {v \in Writers : famPc[v] = "find"}
             /\ UNCHANGED <<famNum, rpid, walkVars, reaps>>
    <3>1. FamTypeOK'
      BY <1>4, <2>2 DEF pidme_store, FamGoto, SetPidme, FamInv, FamTypeOK, walkVars, taskVars
    <3>2. (PidKnown(w) /\ OnTheWay(w) /\ OopsAfterReap(w) /\ OwnNumber(w))'
      BY <1>4, <2>2 DEF pidme_store, FamGoto, SetPidme, FamInv, FamTypeOK, PidKnown,
                        OnTheWay, OopsAfterReap, OwnNumber
    <3> QED
      BY <1>4, <2>2, <3>1, <3>2, FamWriterStep
      DEF pidme_store, FamGoto, FamInv, FamTypeOK, walkVars
  <2> QED
    BY <1>4, <2>1, <2>2 DEF pidme_store
<1>5. ASSUME NEW w \in Writers, find_vpid(w) PROVE FamInv'
  <2> DEFINE found == IF Exists(pidme) THEN pidme ELSE Null
  <2>1. CASE ~NotNull(found) /\ FamReturn(w, "done")
    BY <1>5, <2>1, FamReturnStep DEF find_vpid
  <2>2. CASE /\ NotNull(found) /\ FamGoto(w, "get")
             /\ rpid' = [rpid EXCEPT ![w] = found]
             /\ UNCHANGED <<famNum, walkVars, reaps, overtaken>>
    <3>1. found = pidme /\ pidme \in Tasks /\ life[pidme] # "reaped"
      BY <2>2 DEF NotNull, Exists
    <3>2. FamTypeOK'
      BY <1>5, <2>2, <3>1 DEF find_vpid, FamGoto, FamInv, FamTypeOK, walkVars, taskVars
    <3>3. (PidKnown(w) /\ OnTheWay(w) /\ OopsAfterReap(w) /\ OwnNumber(w))'
      BY <1>5, <2>2, <3>1 DEF find_vpid, FamGoto, FamInv, FamTypeOK, PidKnown, OnTheWay,
                              OopsAfterReap, OwnNumber, taskVars
    <3> QED
      BY <1>5, <2>2, <3>2, <3>3, FamWriterStep
      DEF find_vpid, FamGoto, FamInv, FamTypeOK, walkVars
  <2> QED
    BY <1>5, <2>1, <2>2 DEF find_vpid
<1>6. ASSUME NEW w \in Writers, fam_get_pid_task(w) PROVE FamInv'
  <2>1. rpid[w] \in Tasks /\ (life[rpid[w]] = "reaped" => w \in reaps) /\ rpid[w] # Null
    BY <1>6, FamAssumption DEF fam_get_pid_task, FamInv, PidKnown
  <2>2. CASE FamReturn(w, "done") /\ UNCHANGED taken
    BY <1>6, <2>2, FamReturnStep DEF fam_get_pid_task
  <2>3. CASE Null \in PidTask(rpid[w]) /\ FamReturn(w, "oops") /\ UNCHANGED taken
    <3>1. w \in reaps
      BY <2>1, <2>3 DEF PidTask
    <3> QED
      BY <1>6, <2>3, <3>1, FamReturnStep DEF fam_get_pid_task
  <2>4. CASE \E t \in PidTask(rpid[w]) \ {Null} :
               /\ taken' = taken \cup {t}
               /\ curr_task' = [curr_task EXCEPT ![w] = t]
               /\ this_pid' = [this_pid EXCEPT ![w] = t]
               /\ maxDepth' = [maxDepth EXCEPT ![w] = MaxDepth]
               /\ FamGoto(w, "walk")
               /\ UNCHANGED <<famNum, rpid, reaps, overtaken>>
    <3>1. PICK t \in PidTask(rpid[w]) \ {Null} :
               /\ taken' = taken \cup {t}
               /\ curr_task' = [curr_task EXCEPT ![w] = t]
               /\ this_pid' = [this_pid EXCEPT ![w] = t]
               /\ maxDepth' = [maxDepth EXCEPT ![w] = MaxDepth]
               /\ FamGoto(w, "walk")
               /\ UNCHANGED <<famNum, rpid, reaps, overtaken>>
      BY <2>4
    <3>2. t \in Tasks /\ ~TaskGone(t) /\ (w \in reaps \/ life[t] # "reaped")
      BY <2>1, <3>1 DEF PidTask, TaskGone
    <3>3. FamTypeOK'
      <4>1. FamTypeOK /\ famPc' = [famPc EXCEPT ![w] = "walk"]
            /\ UNCHANGED <<famModule, pidme, famNum, rpid, life, real_parent, kthreads, reaps,
                           overtaken>>
        BY <1>6, <3>1 DEF fam_get_pid_task, FamGoto, FamInv, taskVars
      <4>2. maxDepth' \in [Writers -> 0..MaxDepth]
        BY <4>1, <3>1, FamAssumption DEF FamTypeOK
      <4>3. /\ curr_task' \in [Writers -> Tasks \cup {Idle, Null}]
            /\ this_pid' \in [Writers -> Tasks \cup {Idle}]
            /\ {taken, kthreads}' \subseteq SUBSET Tasks
        BY <4>1, <3>1, <3>2 DEF FamTypeOK
      <4> QED
        BY <4>1, <4>2, <4>3 DEF FamTypeOK
    <3>4. (PidKnown(w) /\ OnTheWay(w) /\ OopsAfterReap(w) /\ OwnNumber(w))'
      BY <1>6, <3>1, <3>2
      DEF fam_get_pid_task, FamGoto, FamInv, FamTypeOK, PidKnown, OnTheWay, OopsAfterReap,
          OwnNumber, TaskGone, taskVars
    <3>5. ASSUME NEW s \in Tasks, life[s] = "reaped" PROVE s \in taken' <=> s \in taken
      BY <3>1, <3>2, <3>5, FamAssumption DEF TaskGone
    <3> QED
      BY <1>6, <3>1, <3>3, <3>4, <3>5, FamWriterStep
      DEF fam_get_pid_task, FamGoto, FamInv, FamTypeOK
  <2> QED
    BY <1>6, <2>2, <2>3, <2>4 DEF fam_get_pid_task
<1>7. ASSUME NEW w \in Writers, WalkUp(w) PROVE FamInv'
  <2> DEFINE c == curr_task[w]
  <2>1. PICK t \in IF TaskGone(c) THEN Tasks \cup {Idle} ELSE {real_parent[c]},
             n \in Tasks \cup {Idle} :
          /\ n = t \/ TaskGone(t)
          /\ curr_task' = [curr_task EXCEPT ![w] = t]
          /\ this_pid' = [this_pid EXCEPT ![w] = n]
          /\ maxDepth' = [maxDepth EXCEPT ![w] = Deeper(w)]
    BY <1>7 DEF WalkUp
  <2>2. /\ c \in Tasks \cup {Idle} /\ (w \in reaps \/ c = Idle \/ life[c] # "reaped")
        /\ this_pid[w] = c \/ TaskGone(c)
    BY <1>7 DEF WalkUp, FamInv, OnTheWay
  <2>3. this_pid[w] > 1 /\ maxDepth[w] \in 0..MaxDepth /\ maxDepth[w] > 0
    BY <1>7 DEF WalkUp, LoopOn, FamInv, FamTypeOK
  <2>4. Deeper(w) \in 0..MaxDepth
    BY <2>3, FamAssumption DEF Deeper
  <2>5. c \in Tasks
    BY <2>2, <2>3 DEF TaskGone
  <2>6. t \in Tasks \cup {Idle} /\ (w \in reaps \/ t = Idle \/ life[t] # "reaped")
    <3>1. c # Idle /\ real_parent[c] \in Tasks \cup {Idle}
      BY <2>5, FamAssumption DEF FamInv, FamTypeOK
    <3>2. ASSUME w \notin reaps, real_parent[c] # Idle PROVE life[real_parent[c]] # "reaped"
      BY <2>2, <2>5, <3>1, <3>2 DEF FamInv, ParentsAlive
    <3> QED
      BY <2>1, <2>2, <3>1, <3>2 DEF TaskGone
  <2>7. FamTypeOK'
    BY <1>7, <2>1, <2>4, <2>6 DEF WalkUp, FamInv, FamTypeOK, taskVars
  <2>8. (PidKnown(w) /\ OnTheWay(w) /\ OopsAfterReap(w) /\ OwnNumber(w))'
    BY <1>7, <2>1, <2>6
    DEF WalkUp, FamInv, FamTypeOK, PidKnown, OnTheWay, OopsAfterReap, OwnNumber, TaskGone,
        taskVars
  <2> QED
    BY <1>7, <2>1, <2>7, <2>8, FamWriterStep DEF WalkUp, FamInv, FamTypeOK
<1>8. ASSUME NEW w \in Writers, WalkOops(w) PROVE FamInv'
  <2>1. w \in reaps
    <3> SUFFICES ASSUME w \notin reaps PROVE FALSE
      OBVIOUS
    <3>1. /\ curr_task[w] \in Tasks \cup {Idle} /\ ~TaskGone(curr_task[w])
          /\ this_pid[w] = curr_task[w]
          /\ curr_task[w] = Idle \/ life[curr_task[w]] # "reaped"
      BY <1>8 DEF WalkOops, FamInv, OnTheWay, TaskGone
    <3>2. LoopOn(w) /\ TaskGone(real_parent[curr_task[w]])
      BY <1>8, <3>1 DEF WalkOops
    <3>3. curr_task[w] \in Tasks
      BY <3>1, <3>2 DEF LoopOn
    <3> QED
      BY <3>1, <3>2, <3>3, FamAssumption DEF FamInv, ParentsAlive, TaskGone
  <2> QED
    BY <1>8, <2>1, FamReturnStep DEF WalkOops
<1>9. ASSUME NEW w \in Writers, WalkDone(w) PROVE FamInv'
  BY <1>9, FamReturnStep DEF WalkDone
<1>10. ASSUME NEW t \in Tasks, TaskExits(t) PROVE FamInv'
  <2>1. FamTypeOK'
    BY <1>10, FamAssumption DEF TaskExits, Adopt, FamInv, FamTypeOK, walkVars
  <2>2. ParentsAlive'
    BY <1>10, FamAssumption DEF TaskExits, Adopt, FamInv, FamTypeOK, ParentsAlive
  <2>3. \A s \in Tasks : life'[s] = "reaped" <=> life[s] = "reaped"
    BY <1>10 DEF TaskExits, FamInv, FamTypeOK
  <2>4. ASSUME NEW w \in Writers
        PROVE  (PidKnown(w) /\ OnTheWay(w) /\ OopsAfterReap(w) /\ OwnNumber(w))'
    BY <1>10, <2>3, <2>4
    DEF TaskExits, FamInv, PidKnown, OnTheWay, OopsAfterReap, OwnNumber, TaskGone, walkVars
  <2> QED
    BY <2>1, <2>2, <2>4 DEF FamInv
<1>11. ASSUME NEW t \in Tasks, TaskReaped(t) PROVE FamInv'
  <2>1. FamTypeOK'
    BY <1>11 DEF TaskReaped, FamInv, FamTypeOK, walkVars
  <2>2. ParentsAlive'
    BY <1>11, FamAssumption DEF TaskReaped, FamInv, FamTypeOK, ParentsAlive
  <2>3. ASSUME NEW w \in Writers
        PROVE  (PidKnown(w) /\ OnTheWay(w) /\ OopsAfterReap(w) /\ OwnNumber(w))'
    <3>1. famPc[w] \in {"get", "walk"} => w \in reaps'
      BY <1>11 DEF TaskReaped, InStore
    <3>2. (TaskGone(curr_task[w]) => TaskGone(curr_task[w])') \/ famPc[w] # "walk"
      BY <1>11 DEF TaskReaped, TaskGone, FamInv, FamTypeOK, OnTheWay, walkVars
    <3> QED
      BY <1>11, <3>1, <3>2
      DEF TaskReaped, FamInv, PidKnown, OnTheWay, OopsAfterReap, OwnNumber, walkVars
  <2> QED
    BY <2>1, <2>2, <2>3 DEF FamInv
<1>12. CASE UNCHANGED famVars
  BY <1>12, FamStays DEF famVars, walkVars, taskVars, FamInv, FamTypeOK
<1> QED
  BY <1>1, <1>2, <1>3, <1>4, <1>5, <1>6, <1>7, <1>8, <1>9, <1>10, <1>11, <1>12
  DEF FamNext, fam_writer

\* The invariant of the family reader holds in every state.
LEMMA FamInductive == FamSpec => []FamInv
BY FamInitial, FamStep, PTL DEF FamSpec

\* The walk goes over tasks, and no further than the depth it is meant for.
THEOREM FamTypeCorrect == FamSpec => []FamTypeOK
<1>1. FamInv => FamTypeOK
  BY DEF FamInv
<1> QED
  BY <1>1, FamInductive, PTL

\* For any number of writers and processes, a writer of family_reader.c uses a
\* freed task only if a process was reaped during its own store.
THEOREM OopsNeedsAReap == FamSpec => []OopsNeedsReap
<1>1. FamInv => OopsNeedsReap
  BY DEF FamInv, OopsAfterReap, OopsNeedsReap
<1> QED
  BY <1>1, FamInductive, PTL

\* For any number of writers, the walk of family_reader.c starts at the number
\* that was written, unless another writer has set pidme in between.
THEOREM OwnFamilyIsFound == FamSpec => []OwnFamily
<1>1. FamInv => OwnFamily
  BY DEF FamInv, OwnNumber, OwnFamily
<1> QED
  BY <1>1, FamInductive, PTL

\* How deep a process lies below init or the idle task: a number for each that is
\* smaller for its parent.
Deepens(d) ==
  \A t \in Tasks \ {1} : life[t] # "reaped" => d[real_parent[t]] < d[t]

\* The family of the kernel's threads: outside it no process has a parent in it,
\* and inside it each parent is one, until an exit there hands children to init.
KernelExit == \E t \in kthreads : life[t] # "alive"
KernelBelow ==
  /\ 1 \notin kthreads /\ (2 \in Tasks => 2 \in kthreads)
  /\ \A t \in Tasks :
       life[t] # "reaped" =>
         IF t \in kthreads THEN real_parent[t] \in kthreads \cup {Idle} \/ KernelExit
         ELSE t = 1 \/ real_parent[t] \notin kthreads

\* A walk that no reaping has disturbed has rounds enough left for the depth of
\* the task it is at, and is in the family it began in.
RoundsLeft(d) ==
  \A w \in Writers \ reaps :
    famPc[w] = "walk" =>
      /\ d[curr_task[w]] <= maxDepth[w]
      /\ rpid[w] \in Tasks
      /\ IF rpid[w] \in kthreads
         THEN curr_task[w] \in kthreads \cup {Idle} \/ KernelExit
         ELSE curr_task[w] \in Tasks \ kthreads

\* How deep a process lies is a number.
LEMMA DepthIsNumber ==
  ASSUME NEW d \in [Tasks \cup {Idle} -> 0..MaxDepth], NEW t \in Tasks \cup {Idle}
  PROVE  d[t] \in Nat /\ d[t] <= MaxDepth /\ t \in Nat
<1>1. MaxDepth \in Nat /\ t \in Nat
  BY FamAssumption DEF Idle
<1>2. d[t] \in 0..MaxDepth
  OBVIOUS
<1> QED
  BY <1>1, <1>2

\* Only an exit changes a parent, and only an exit and a reap change a life.
LEMMA TasksStay ==
  ASSUME FamInv, [FamNext]_famVars
  PROVE  \/ UNCHANGED taskVars
         \/ \E t \in Tasks : TaskExits(t) \/ TaskReaped(t)
BY DEF FamNext, famVars, taskVars, fam_init, fam_exit, FamWrite, fam_writer,
       pidme_store, find_vpid, fam_get_pid_task, WalkUp, WalkOops, WalkDone

\* What has exited does not come to life again.
LEMMA KernelExitStays ==
  ASSUME FamInv, [FamNext]_famVars
  PROVE  kthreads' = kthreads /\ (KernelExit => KernelExit')
<1>1. CASE UNCHANGED taskVars
  BY <1>1 DEF taskVars, KernelExit
<1>2. CASE \E t \in Tasks : TaskExits(t) \/ TaskReaped(t)
  BY <1>2 DEF TaskExits, TaskReaped, KernelExit, FamInv, FamTypeOK
<1> QED
  BY <1>1, <1>2, TasksStay

\* An exit hands the children to init: nobody comes to lie deeper.
LEMMA DeepensStep ==
  ASSUME NEW d \in [Tasks \cup {Idle} -> 0..MaxDepth], d[1] = 0,
         FamInv, Deepens(d), [FamNext]_famVars
  PROVE  Deepens(d)'
<1>1. ASSUME NEW t \in Tasks, TaskExits(t) PROVE Deepens(d)'
  <2> SUFFICES ASSUME NEW c \in Tasks \ {1}, life'[c] # "reaped"
               PROVE  d[real_parent'[c]] < d[c]
    BY DEF Deepens
  <2>1. life[c] # "reaped"
    BY <1>1 DEF TaskExits, FamInv, FamTypeOK
  <2>2. real_parent'[c] = IF real_parent[c] = t THEN 1 ELSE real_parent[c]
    BY <1>1, <2>1 DEF TaskExits, Adopt
  <2>3. d[real_parent[c]] < d[c] /\ real_parent[c] \in Tasks \cup {Idle}
    BY <2>1 DEF Deepens, FamInv, ParentsAlive
  <2>4. d[real_parent[c]] \in Nat /\ d[c] \in Nat
    BY <2>3, DepthIsNumber
  <2>5. d[1] < d[c]
    BY <2>3, <2>4
  <2> QED
    BY <2>2, <2>3, <2>5
<1>2. ASSUME NEW t \in Tasks, TaskReaped(t) PROVE Deepens(d)'
  BY <1>2 DEF TaskReaped, Deepens, FamInv, FamTypeOK
<1>3. CASE UNCHANGED taskVars
  BY <1>3 DEF taskVars, Deepens
<1> QED
  BY <1>1, <1>2, <1>3, TasksStay

\* At first the family of the kernel's threads is whole.
LEMMA KernelInitial == FamInit => KernelBelow
<1> SUFFICES ASSUME FamInit PROVE KernelBelow
  OBVIOUS
<1>1. \A t \in Tasks : IF t \in {1, 2} THEN life[t] = "alive" /\ real_parent[t] = Idle
                       ELSE real_parent[t] \in 1..t - 1 /\ life[real_parent[t]] = "alive"
  BY DEF FamInit
<1>2. \A t \in Tasks :
        t \in kthreads <=> life[t] = "alive" /\ (t = 2 \/ real_parent[t] \in kthreads)
  BY DEF FamInit
<1>3. kthreads \subseteq Tasks /\ Idle \notin Tasks
  BY FamAssumption DEF FamInit, Idle
<1>4. 1 \notin kthreads /\ (2 \in Tasks => 2 \in kthreads)
  BY <1>1, <1>2, <1>3
<1>5. ASSUME NEW t \in Tasks, life[t] # "reaped"
      PROVE  IF t \in kthreads THEN real_parent[t] \in kthreads \cup {Idle}
             ELSE t = 1 \/ real_parent[t] \notin kthreads
  <2>1. life[t] = "alive"
    BY <1>5 DEF FamInit
  <2> QED
    BY <1>1, <1>2, <1>5, <2>1
<1> QED
  BY <1>4, <1>5 DEF KernelBelow

\* No process is adopted into the family of the kernel's threads.
LEMMA KernelStep ==
  ASSUME FamInv, KernelBelow, [FamNext]_famVars PROVE KernelBelow'
<1>1. kthreads' = kthreads /\ (KernelExit => KernelExit')
  BY KernelExitStays
<1>2. ASSUME NEW t \in Tasks, TaskExits(t) PROVE KernelBelow'
  <2> SUFFICES ASSUME NEW c \in Tasks, life'[c] # "reaped"
               PROVE  IF c \in kthreads
                      THEN real_parent'[c] \in kthreads \cup {Idle} \/ KernelExit'
                      ELSE c = 1 \/ real_parent'[c] \notin kthreads
    BY <1>1 DEF KernelBelow
  <2>1. life[c] # "reaped" /\ life'[t] = "zombie"
    BY <1>2 DEF TaskExits, FamInv, FamTypeOK
  <2>2. real_parent'[c] = IF real_parent[c] = t THEN 1 ELSE real_parent[c]
    BY <1>2, <2>1 DEF TaskExits, Adopt
  <2>3. t \in kthreads => KernelExit'
    BY <1>1, <2>1 DEF KernelExit
  <2>4. t # Idle /\ 1 \notin kthreads
    BY FamAssumption DEF KernelBelow, Idle
  <2> QED
    BY <1>1, <2>1, <2>2, <2>3, <2>4 DEF KernelBelow
<1>3. ASSUME NEW t \in Tasks, TaskReaped(t) PROVE KernelBelow'
  BY <1>1, <1>3 DEF TaskReaped, KernelBelow, FamInv, FamTypeOK
<1>4. CASE UNCHANGED taskVars
  BY <1>1, <1>4 DEF taskVars, KernelBelow
<1> QED
  BY <1>2, <1>3, <1>4, TasksStay

\* Before the first store every walk has all its rounds left.
LEMMA RoundsInitial ==
  ASSUME NEW d \in [Tasks \cup {Idle} -> 0..MaxDepth], FamInit PROVE RoundsLeft(d)
BY DEF FamInit, RoundsLeft

\* A walk takes a round off what it has left, and no other step adds one.
LEMMA RoundsStep ==
  ASSUME NEW d \in [Tasks \cup {Idle} -> 0..MaxDepth], d[1] = 0,
         FamInv, FamInv', Deepens(d), KernelBelow, RoundsLeft(d), [FamNext]_famVars
  PROVE  RoundsLeft(d)'
<1> USE DEF Idle
<1> SUFFICES ASSUME NEW w \in Writers \ reaps', famPc'[w] = "walk"
             PROVE  /\ d[curr_task'[w]] <= maxDepth'[w]
                    /\ rpid'[w] \in Tasks
                    /\ IF rpid'[w] \in kthreads'
                       THEN curr_task'[w] \in kthreads' \cup {Idle} \/ KernelExit'
                       ELSE curr_task'[w] \in Tasks \ kthreads'
  BY DEF RoundsLeft
<1>1. kthreads' = kthreads /\ (KernelExit => KernelExit')
  BY KernelExitStays
<1>2. FamTypeOK /\ OnTheWay(w) /\ PidKnown(w)
  BY DEF FamInv
<1>3. w \notin reaps
  <2>1. reaps \subseteq reaps' \/ \E v \in Writers : FamReturn(v, "done")
    BY DEF FamNext, famVars, fam_init, fam_exit, FamWrite, fam_writer, pidme_store, find_vpid,
           fam_get_pid_task, WalkUp, WalkOops, WalkDone, TaskExits, TaskReaped, FamReturn
  <2>2. ASSUME NEW v \in Writers, FamReturn(v, "done"), w \in reaps PROVE FALSE
    BY <1>2, <2>2 DEF FamReturn, FamGoto, FamTypeOK
  <2> QED
    BY <2>1, <2>2
<1>4. famPc[w] = "walk" =>
        /\ d[curr_task[w]] <= maxDepth[w]
        /\ rpid[w] \in Tasks
        /\ IF rpid[w] \in kthreads
           THEN curr_task[w] \in kthreads \cup {Idle} \/ KernelExit
           ELSE curr_task[w] \in Tasks \ kthreads
  BY <1>3 DEF RoundsLeft
<1>5. CASE UNCHANGED <<famPc[w], curr_task[w], maxDepth[w], rpid[w]>>
  BY <1>1, <1>4, <1>5
<1>6. CASE \E n \in {Refused, Idle} \cup Tasks : FamWrite(w, n)
  BY <1>2, <1>6 DEF FamWrite, FamGoto, FamTypeOK
<1>7. CASE pidme_store(w) \/ find_vpid(w) \/ WalkOops(w) \/ WalkDone(w)
  BY <1>2, <1>7 DEF pidme_store, find_vpid, WalkOops, WalkDone, FamReturn, FamGoto, FamTypeOK
<1>8. CASE fam_get_pid_task(w)
  <2>1. famPc[w] = "get" /\ rpid[w] \in Tasks /\ life[rpid[w]] # "reaped"
    BY <1>2, <1>3, <1>8 DEF fam_get_pid_task, PidKnown
  <2>2. rpid[w] # Null /\ PidTask(rpid[w]) = {rpid[w]}
    BY <2>1, FamAssumption DEF PidTask
  <2>3. /\ curr_task' = [curr_task EXCEPT ![w] = rpid[w]] /\ rpid' = rpid
        /\ maxDepth' = [maxDepth EXCEPT ![w] = MaxDepth]
    BY <1>8, <2>2 DEF fam_get_pid_task
  <2>4. maxDepth'[w] = MaxDepth /\ curr_task'[w] = rpid[w]
    BY <1>2, <2>3 DEF FamTypeOK
  <2> QED
    BY <1>1, <2>1, <2>3, <2>4, DepthIsNumber
<1>9. CASE WalkUp(w)
  <2> DEFINE c == curr_task[w]
  <2>1. /\ c \in Tasks /\ ~TaskGone(c) /\ this_pid[w] = c /\ c # 1
        /\ life[c] # "reaped"
    BY <1>2, <1>3, <1>9 DEF WalkUp, LoopOn, OnTheWay, TaskGone
  <2>2. /\ famPc[w] = "walk" /\ curr_task'[w] = real_parent[c]
        /\ maxDepth'[w] = maxDepth[w] - 1 /\ rpid' = rpid
    BY <1>2, <1>9, <2>1 DEF WalkUp, Deeper, FamTypeOK
  <2>3. d[real_parent[c]] < d[c] /\ d[c] <= maxDepth[w]
    BY <1>4, <2>1, <2>2 DEF Deepens
  <2>4. d[real_parent[c]] \in Nat /\ d[c] \in Nat /\ maxDepth[w] \in Nat
    BY <1>2, <2>1, DepthIsNumber DEF FamTypeOK, FamInv, ParentsAlive
  <2>5. IF c \in kthreads THEN real_parent[c] \in kthreads \cup {Idle} \/ KernelExit
        ELSE real_parent[c] \in Tasks \ kthreads
    BY <2>1 DEF KernelBelow, FamInv, ParentsAlive
  <2>6. IF rpid[w] \in kthreads
        THEN real_parent[c] \in kthreads \cup {Idle} \/ KernelExit
        ELSE real_parent[c] \in Tasks \ kthreads
    BY <1>4, <2>1, <2>2, <2>5, FamAssumption
  <2> QED
    BY <1>1, <1>4, <2>2, <2>3, <2>4, <2>6
<1>10. CASE \/ UNCHANGED famVars \/ fam_init \/ fam_exit
            \/ \E t \in Tasks : TaskExits(t) \/ TaskReaped(t)
  BY <1>5, <1>10 DEF famVars, fam_init, fam_exit, TaskExits, TaskReaped, walkVars
<1>11. CASE \E v \in Writers \ {w} :
              fam_writer(v) \/ \E n \in {Refused, Idle} \cup Tasks : FamWrite(v, n)
  <2>1. PICK v \in Writers \ {w} :
          fam_writer(v) \/ \E n \in {Refused, Idle} \cup Tasks : FamWrite(v, n)
    BY <1>11
  <2>2. UNCHANGED <<famPc[w], curr_task[w], maxDepth[w], rpid[w]>>
    <3>1. CASE \E n \in {Refused, Idle} \cup Tasks : FamWrite(v, n)
      BY <1>2, <3>1 DEF FamWrite, FamGoto, FamTypeOK, walkVars
    <3>2. CASE pidme_store(v) \/ find_vpid(v)
      BY <1>2, <3>2 DEF pidme_store, find_vpid, FamReturn, FamGoto, FamTypeOK, walkVars
    <3>3. CASE fam_get_pid_task(v)
      BY <1>2, <3>3 DEF fam_get_pid_task, FamReturn, FamGoto, FamTypeOK, walkVars
    <3>4. CASE WalkUp(v)
      BY <1>2, <3>4 DEF WalkUp, FamTypeOK
    <3>5. CASE WalkOops(v) \/ WalkDone(v)
      BY <1>2, <3>5 DEF WalkOops, WalkDone, FamReturn, FamGoto, FamTypeOK
    <3> QED
      BY <2>1, <3>1, <3>2, <3>3, <3>4, <3>5 DEF fam_writer
  <2> QED
    BY <1>5, <2>2
<1>12. \/ UNCHANGED famVars \/ fam_init \/ fam_exit
       \/ \E t \in Tasks : TaskExits(t) \/ TaskReaped(t)
       \/ \E v \in Writers :
            fam_writer(v) \/ \E n \in {Refused, Idle} \cup Tasks : FamWrite(v, n)
  BY DEF FamNext
<1> QED
  BY <1>6, <1>7, <1>8, <1>9, <1>10, <1>11, <1>12 DEF fam_writer

\* A walk that has rounds left ends only at init or the idle task.
LEMMA RoundsEnd ==
  ASSUME NEW d \in [Tasks \cup {Idle} -> 0..MaxDepth],
         FamInv, Deepens(d), KernelBelow, RoundsLeft(d)
  PROVE  EndsAtRoot
<1> USE DEF Idle
<1> SUFFICES ASSUME NEW w \in Writers \ reaps, famPc[w] = "walk", ~LoopOn(w)
             PROVE  IF rpid[w] \notin kthreads THEN this_pid[w] = 1
                    ELSE this_pid[w] = Idle \/ (this_pid[w] = 1 /\ KernelExit)
  BY DEF EndsAtRoot, KernelExit
<1> DEFINE c == curr_task[w]
<1>1. /\ c \in Tasks \cup {Idle} /\ this_pid[w] = c
      /\ c = Idle \/ life[c] # "reaped"
  BY DEF FamInv, OnTheWay, TaskGone
<1>2. d[c] <= maxDepth[w] /\ maxDepth[w] \in Nat /\ d[c] \in Nat /\ c \in Nat
  <2>1. d[c] <= maxDepth[w] /\ maxDepth[w] \in 0..MaxDepth
    BY DEF RoundsLeft, FamInv, FamTypeOK
  <2>2. d[c] \in Nat /\ c \in Nat
    BY <1>1, DepthIsNumber
  <2>3. maxDepth[w] \in Nat
    BY <2>1, FamAssumption
  <2> QED
    BY <2>1, <2>2, <2>3
<1>3. c \in {1, Idle}
  <2>1. CASE ~(this_pid[w] > 1)
    BY <1>1, <1>2, <2>1
  <2>2. CASE ~(maxDepth[w] > 0) /\ c # 1 /\ c # Idle
    <3>1. d[c] = 0 /\ c \in Tasks \ {1} /\ life[c] # "reaped"
      BY <1>1, <1>2, <2>2
    <3>2. d[real_parent[c]] < d[c] /\ real_parent[c] \in Tasks \cup {Idle}
      BY <3>1 DEF Deepens, FamInv, ParentsAlive
    <3> QED
      BY <3>1, <3>2, DepthIsNumber
  <2> QED
    BY <2>1, <2>2 DEF LoopOn
<1>4. IF rpid[w] \in kthreads THEN c \in kthreads \cup {Idle} \/ KernelExit
      ELSE c \in Tasks \ kthreads
  BY DEF RoundsLeft
<1>5. Idle \notin Tasks /\ 1 \notin kthreads
  BY FamAssumption DEF KernelBelow
<1> QED
  BY <1>1, <1>3, <1>4, <1>5

\* For any number of writers and processes of which none lies deeper than
\* MaxDepth, what a store of family_reader.c prints is the family of the number
\* written to it, up to init or, for the kernel's threads, to number 0, whoever
\* exits and is adopted meanwhile: but for another writer's number in pidme and a
\* process that was reaped during the store.
THEOREM FamilyIsShown ==
  ASSUME NEW d \in [Tasks \cup {Idle} -> 0..MaxDepth], d[1] = 0
  PROVE  FamSpec /\ Deepens(d) => []FamilyShown
<1>1. Deepens(d) /\ FamInv /\ [FamNext]_famVars => Deepens(d)'
  BY DeepensStep
<1>2. FamInit => RoundsLeft(d) /\ KernelBelow
  BY RoundsInitial, KernelInitial
<1>3. /\ FamInv /\ FamInv' /\ Deepens(d) /\ KernelBelow /\ RoundsLeft(d)
      /\ [FamNext]_famVars
      => RoundsLeft(d)' /\ KernelBelow'
  BY RoundsStep, KernelStep
<1>4. FamInv /\ Deepens(d) /\ KernelBelow /\ RoundsLeft(d) => FamilyShown
  BY RoundsEnd DEF FamInv, OwnNumber, FamilyShown, OwnFamily
<1> QED
  BY <1>1, <1>2, <1>3, <1>4, FamInductive, PTL DEF FamSpec

-----------------------------------------------------------------------------
(* The server *)

Serving == srvPc \in {"read", "scan", "close"}

\* The loop has gone over words that do not end it.
NoStopBefore ==
  srvPc \in {"scan", "close"} => \A i \in 1..cell - 1 : ~EndsLoop(data[i])
LoopOver ==
  srvPc = "close" => EndsLoop(data[cell]) \/ cell = BufLen

\* A 418 in cell j is the client's own, or one that an earlier client has sent
\* behind its newline.
OwnStop(j) ==
  /\ srvPc \in {"scan", "close", "down"} /\ j <= got
  /\ sent[cfd][j] = "418"
LeftBehind(j) ==
  \E c \in Clients :
    /\ conn[c] = "served" /\ j \in DOMAIN sent[c] /\ sent[c][j] = "418"
    /\ \E i \in DOMAIN sent[c] : i < j /\ sent[c][i] = "newline"
StopsKnown ==
  ~torn => \A j \in Cells : data[j] = "418" => OwnStop(j) \/ LeftBehind(j)

\* What a read has delivered is what the client has sent.
ReadIsSent ==
  srvPc \in {"scan", "close", "down"} =>
    /\ cfd \in Clients /\ got <= Len(sent[cfd])
    /\ ~torn => \A i \in 1..got : data[i] = sent[cfd][i]

SrvInv ==
  /\ SrvTypeOK
  /\ Serving => cfd \in Clients
  /\ \A c \in Clients : Len(sent[c]) <= BufLen
  /\ NoStopBefore /\ LoopOver /\ StopsKnown /\ ReadIsSent
  /\ srvPc = "down" => data[cell] = "418"

\* Before a client connects nothing has been read.
LEMMA SrvInitial == SrvInit => SrvInv
<1> SUFFICES ASSUME SrvInit PROVE SrvInv
  OBVIOUS
<1>1. SrvTypeOK
  <2>1. waiting \in Seq(Clients) /\ sent \in [Clients -> Seq(Words)]
    BY DEF SrvInit
  <2>2. data \in [Cells -> Words] /\ got \in 0..BufLen /\ cell \in Cells
    BY ServerAssumption DEF SrvInit, Cells, Words
  <2> QED
    BY <2>1, <2>2 DEF SrvInit, SrvTypeOK
<1>2. \A c \in Clients : Len(sent[c]) <= BufLen
  BY ServerAssumption DEF SrvInit
<1>3. StopsKnown
  BY DEF SrvInit, StopsKnown
<1> QED
  BY <1>1, <1>2, <1>3 DEF SrvInit, SrvInv, Serving, NoStopBefore, LoopOver, ReadIsSent

\* A client that was served stays so, and what was sent stays: a 418 that was
\* left behind stays explained.
LEMMA LeftStays ==
  ASSUME SrvTypeOK, NEW j \in Cells, LeftBehind(j),
         \A c \in Clients : conn[c] = "served" => conn'[c] = "served" /\ sent'[c] = sent[c]
  PROVE  LeftBehind(j)'
BY DEF LeftBehind

\* Every step of the server and of its clients keeps the invariant.
LEMMA SrvStep ==
  ASSUME SrvInv, [SrvNext]_srvVars PROVE SrvInv'
<1> USE ServerAssumption
<1>1. CASE SrvFails \/ Setup
  <2>1. /\ srvPc \in {"socket", "bind", "listen", "accept"}
        /\ srvPc' \in {"bind", "listen", "accept", "failed"}
        /\ UNCHANGED <<cfd, waiting, conn, sent, data, got, cell, torn>>
    BY <1>1 DEF SrvFails, Setup
  <2> QED
    BY <2>1 DEF SrvInv, SrvTypeOK, Serving, NoStopBefore, LoopOver, StopsKnown, ReadIsSent,
                OwnStop, LeftBehind
<1>2. CASE Accept
  <2>1. SrvTypeOK' /\ cfd' \in Clients
    BY <1>2, HeadTailProperties DEF Accept, NextClient, SrvInv, SrvTypeOK, Cells, Words
  <2>2. StopsKnown'
    BY <1>2 DEF Accept, SrvInv, SrvTypeOK, StopsKnown, OwnStop, LeftBehind, Cells
  <2> QED
    BY <1>2, <2>1, <2>2
    DEF Accept, SrvInv, Serving, NoStopBefore, LoopOver, ReadIsSent
<1>3. CASE ReadFails
  BY <1>3 DEF ReadFails, SrvInv, SrvTypeOK, Serving, NoStopBefore, LoopOver, StopsKnown,
              ReadIsSent, OwnStop, LeftBehind
<1>4. CASE read
  <2> DEFINE all == sent[cfd]
  <2>1. PICK n \in 0..Len(all), w \in Words, piece \in BOOLEAN :
          /\ got' = n /\ torn' = (torn \/ piece)
          /\ data' = [i \in Cells |-> IF i <= n THEN all[i]
                                      ELSE IF piece /\ i = n + 1 THEN w ELSE data[i]]
    BY <1>4 DEF read
  <2>2. /\ srvPc = "read" /\ srvPc' = "scan" /\ cell' = 1
        /\ UNCHANGED <<cfd, waiting, conn, sent>>
    BY <1>4 DEF read
  <2>3. cfd \in Clients /\ all \in Seq(Words) /\ Len(all) \in 0..BufLen
    BY <2>2, LenProperties DEF SrvInv, Serving, SrvTypeOK
  <2>4. data' \in [Cells -> Words]
    BY <2>1, <2>3 DEF SrvInv, SrvTypeOK, Cells
  <2>5. SrvTypeOK'
    BY <2>1, <2>2, <2>3, <2>4 DEF SrvInv, SrvTypeOK, Cells
  <2>6. ASSUME ~torn' PROVE \A i \in Cells : data'[i] = IF i <= n THEN all[i] ELSE data[i]
    BY <2>1, <2>6
  <2>7. StopsKnown'
    <3> SUFFICES ASSUME ~torn', NEW j \in Cells, data'[j] = "418"
                 PROVE  OwnStop(j)' \/ LeftBehind(j)'
      BY DEF StopsKnown
    <3>1. CASE j <= n
      BY <2>1, <2>2, <2>6, <3>1 DEF OwnStop
    <3>2. CASE ~(j <= n)
      <4>1. ~torn /\ data[j] = "418"
        BY <2>1, <2>6, <3>2
      <4>2. LeftBehind(j)
        BY <2>2, <4>1 DEF SrvInv, StopsKnown, OwnStop
      <4> QED
        BY <2>2, <4>2 DEF LeftBehind
    <3> QED
      BY <3>1, <3>2
  <2>8. ReadIsSent'
    BY <2>1, <2>2, <2>3, <2>6 DEF ReadIsSent, Cells
  <2> QED
    BY <2>2, <2>3, <2>5, <2>7, <2>8 DEF SrvInv, Serving, NoStopBefore, LoopOver
<1>5. CASE Scan
  <2>1. SrvTypeOK'
    BY <1>5 DEF Scan, SrvInv, SrvTypeOK, Cells
  <2>2. NoStopBefore' /\ LoopOver'
    BY <1>5 DEF Scan, SrvInv, SrvTypeOK, NoStopBefore, LoopOver, EndsLoop, Cells
  <2>3. StopsKnown' /\ ReadIsSent'
    BY <1>5 DEF Scan, SrvInv, StopsKnown, ReadIsSent, OwnStop, LeftBehind
  <2> QED
    BY <1>5, <2>1, <2>2, <2>3 DEF Scan, SrvInv, Serving
<1>6. CASE SrvClose
  <2>1. SrvTypeOK'
    BY <1>6 DEF SrvClose, SrvInv, SrvTypeOK, Serving, Cells
  <2>2. cfd \in Clients /\ conn'[cfd] = "served" /\ UNCHANGED <<sent, data, torn, cfd>>
    BY <1>6 DEF SrvClose, SrvInv, SrvTypeOK, Serving
  <2>3. \A c \in Clients : conn[c] = "served" => conn'[c] = "served" /\ sent'[c] = sent[c]
    BY <1>6 DEF SrvClose, SrvInv, SrvTypeOK
  <2>4. StopsKnown'
    <3> SUFFICES ASSUME ~torn, NEW j \in Cells, data[j] = "418"
                 PROVE  OwnStop(j)' \/ LeftBehind(j)'
      BY <2>2 DEF StopsKnown
    <3>1. CASE LeftBehind(j)
      BY <2>3, <3>1, LeftStays DEF SrvInv
    <3>2. CASE OwnStop(j) /\ srvPc' = "down"
      BY <1>6, <2>2, <3>2 DEF SrvClose, OwnStop
    <3>3. CASE OwnStop(j) /\ srvPc' # "down"
      <4>1. srvPc = "close" /\ data[cell] # "418" /\ cell \in Cells /\ j \in Cells /\ j <= got
        BY <1>6, <3>3 DEF SrvClose, EndsServer, SrvInv, SrvTypeOK, OwnStop
      <4>2. ~(j < cell)
        BY <4>1 DEF SrvInv, NoStopBefore, EndsLoop, IsStop, Cells
      <4>3. cell < j
        BY <4>1, <4>2 DEF Cells
      <4>4. data[cell] = "newline"
        BY <4>1, <4>3 DEF SrvInv, LoopOver, EndsLoop, IsStop, Cells
      <4>5. got \in Nat /\ got <= Len(sent[cfd]) /\ sent[cfd] \in Seq(Words)
            /\ \A i \in 1..got : data[i] = sent[cfd][i]
        BY <2>2, <4>1 DEF SrvInv, ReadIsSent, SrvTypeOK
      <4>6. /\ j \in DOMAIN sent[cfd] /\ cell \in DOMAIN sent[cfd]
            /\ sent[cfd][j] = "418" /\ sent[cfd][cell] = "newline"
        BY <4>1, <4>3, <4>4, <4>5, LenProperties DEF Cells
      <4> QED
        BY <2>2, <4>3, <4>6 DEF LeftBehind
    <3> QED
      BY <2>2, <3>1, <3>2, <3>3 DEF SrvInv, StopsKnown
  <2>5. ReadIsSent' /\ (srvPc' = "down" => data'[cell'] = "418")
    BY <1>6 DEF SrvClose, EndsServer, SrvInv, ReadIsSent
  <2> QED
    BY <1>6, <2>1, <2>4, <2>5 DEF SrvClose, SrvInv, Serving, NoStopBefore, LoopOver
<1>7. ASSUME NEW c \in Clients, Connect(c) PROVE SrvInv'
  <2>1. SrvTypeOK'
    BY <1>7, AppendProperties DEF Connect, SrvInv, SrvTypeOK
  <2>2. \A d \in Clients : conn[d] = "served" => conn'[d] = "served" /\ sent'[d] = sent[d]
    BY <1>7 DEF Connect, SrvInv, SrvTypeOK
  <2>3. \A j \in Cells : LeftBehind(j) => LeftBehind(j)'
    BY <2>2, LeftStays DEF SrvInv
  <2> QED
    BY <1>7, <2>1, <2>3
    DEF Connect, SrvInv, Serving, NoStopBefore, LoopOver, StopsKnown, ReadIsSent, OwnStop
<1>8. ASSUME NEW c \in Clients, NEW w \in Words, Send(c, w) PROVE SrvInv'
  <2>1. sent[c] \in Seq(Words) /\ Len(sent[c]) < BufLen /\ srvPc = "read"
    BY <1>8 DEF Send, Unread, SrvInv, SrvTypeOK
  <2>2. /\ Append(sent[c], w) \in Seq(Words)
        /\ Len(Append(sent[c], w)) = Len(sent[c]) + 1 /\ Len(sent[c]) \in Nat
    BY <2>1, AppendProperties, LenProperties
  <2>3. SrvTypeOK' /\ \A d \in Clients : Len(sent'[d]) <= BufLen
    BY <1>8, <2>1, <2>2 DEF Send, SrvInv, SrvTypeOK
  <2>4. \A d \in Clients : conn[d] = "served" => conn'[d] = "served" /\ sent'[d] = sent[d]
    BY <1>8 DEF Send, Unread, SrvInv, SrvTypeOK
  <2>5. \A j \in Cells : LeftBehind(j) => LeftBehind(j)'
    BY <2>4, LeftStays DEF SrvInv
  <2> QED
    BY <1>8, <2>1, <2>3, <2>5
    DEF Send, SrvInv, Serving, NoStopBefore, LoopOver, StopsKnown, ReadIsSent, OwnStop
<1>9. ASSUME NEW c \in Clients, NEW how \in {"closed", "reset"}, HangUp(c, how) PROVE SrvInv'
  <2>1. SrvTypeOK'
    BY <1>9 DEF HangUp, SrvInv, SrvTypeOK
  <2>2. \A d \in Clients : conn[d] = "served" => conn'[d] = "served" /\ sent'[d] = sent[d]
    BY <1>9 DEF HangUp, Unread, SrvInv, SrvTypeOK
  <2>3. \A j \in Cells : LeftBehind(j) => LeftBehind(j)'
    BY <2>2, LeftStays DEF SrvInv
  <2> QED
    BY <1>9, <2>1, <2>3
    DEF HangUp, SrvInv, Serving, NoStopBefore, LoopOver, StopsKnown, ReadIsSent, OwnStop
<1>10. CASE UNCHANGED srvVars
  BY <1>10 DEF srvVars, SrvInv, SrvTypeOK, Serving, NoStopBefore, LoopOver, StopsKnown,
               ReadIsSent, OwnStop, LeftBehind
<1> QED
  BY <1>1, <1>2, <1>3, <1>4, <1>5, <1>6, <1>7, <1>8, <1>9, <1>10 DEF SrvNext, server_main

\* The invariant of the server holds in every state.
LEMMA SrvInductive == SrvSpec => []SrvInv
BY SrvInitial, SrvStep, PTL DEF SrvSpec

\* serverip.c never has more words in hand than its buffer has room for.
THEOREM SrvTypeCorrect == SrvSpec => []SrvTypeOK
<1>1. SrvInv => SrvTypeOK
  BY DEF SrvInv
<1> QED
  BY <1>1, SrvInductive, PTL

\* For any number of clients and any length of the buffer, a client of
\* serverip.c that gets its end through has only words of its own printed.
THEOREM OwnWordsUntilStop == SrvSpec => []OwnUntilStop
<1>1. SrvInv => OwnUntilStop
  <2> SUFFICES ASSUME SrvInv, srvPc = "scan",
                      got = BufLen \/ \E i \in 1..got : IsStop(data[i])
               PROVE  cell <= got
    BY DEF OwnUntilStop
  <2>1. cell \in 1..BufLen /\ got \in 0..BufLen
    BY DEF SrvInv, SrvTypeOK, Cells
  <2>2. \A i \in 1..cell - 1 : ~IsStop(data[i])
    BY DEF SrvInv, NoStopBefore, EndsLoop
  <2> QED
    BY <2>1, <2>2, ServerAssumption
<1> QED
  BY <1>1, SrvInductive, PTL

\* For any number of clients and any length of the buffer, serverip.c ends only
\* at a 418 that this client or, behind its newline, an earlier one has sent.
THEOREM StopIsAsked == SrvSpec => []StopAsked
<1>1. SrvInv => StopAsked
  <2> SUFFICES ASSUME SrvInv, srvPc = "down", ~torn
               PROVE  (cell <= got /\ sent[cfd][cell] = "418") \/ LeftBehind(cell)
    BY DEF StopAsked, LeftBehind
  <2>1. data[cell] = "418" /\ cell \in Cells
    BY DEF SrvInv, SrvTypeOK
  <2> QED
    BY <2>1 DEF SrvInv, StopsKnown, OwnStop
<1> QED
  BY <1>1, SrvInductive, PTL

-----------------------------------------------------------------------------
(* The tree of forks *)

\* The two calls of fork a process makes, and the child of each.
Sides == {"left", "right"}

\* Only a process before the last generation forks.
Forking == \A p \in Paths : treePc[p] \in Sides => ~LastGen(p)

\* A child is there only after its parent's call.
BornByFork ==
  \A p \in Paths : Child(p, "left") \in Paths =>
    /\ Born(Child(p, "left")) => treePc[p] \notin {"unborn", "print", "left"}
    /\ Born(Child(p, "right")) => treePc[p] \notin {"unborn", "print", "left", "right"}

\* No process is born below the last generation.
InGenerations == \A p \in Paths : Born(p) => Gen(p) <= generations

\* After fork returned, the child is there to wait for.
ChildBorn ==
  \A p \in Paths : treePc[p] \in {"right", "wait"} /\ ~LastGen(p) => Born(Child(p, "left"))

\* Without a failed fork a process is past wait only with a child that has ended,
\* or in the last generation.
ChildEnded ==
  ~forkFailed =>
    \A p \in Paths : (treePc[p] = "exit" \/ HasEnded(p)) /\ ~LastGen(p) =>
      \E q \in Children(p) : HasEnded(q)

\* The inductive invariant of the tree.
TreeInv ==
  /\ generations \in 1..MaxGen
  /\ treePc \in [Paths -> {"unborn", "print", "left", "right", "wait", "exit",
                           "zombie", "gone"}]
  /\ forkFailed \in BOOLEAN
  /\ Forking /\ BornByFork /\ InGenerations /\ ChildBorn /\ ChildEnded

\* Two intervals from 1 are equal only if they end at the same number.
LEMMA UpToSame ==
  ASSUME NEW a \in Nat, NEW b \in Nat, 1..a = 1..b PROVE a = b
<1>1. a < b => b \in 1..b /\ b \notin 1..a
  OBVIOUS
<1>2. b < a => a \in 1..a /\ a \notin 1..b
  OBVIOUS
<1> QED
  BY <1>1, <1>2

\* A path is a sequence of sides, shorter than the highest number of generations.
LEMMA PathIs ==
  \A p : p \in Paths <=> p \in Seq(Sides) /\ Len(p) < MaxGen
<1>1. ASSUME NEW p \in Paths PROVE p \in Seq(Sides) /\ Len(p) < MaxGen
  <2>1. PICK m \in 0..MaxGen - 1 : p \in [1..m -> Sides]
    BY DEF Paths, Sides
  <2>2. m \in Nat /\ m < MaxGen
    BY TreeAssumption
  <2>3. p \in Seq(Sides)
    BY <2>1, <2>2, SeqDef
  <2>4. Len(p) \in Nat /\ DOMAIN p = 1..Len(p) /\ DOMAIN p = 1..m
    BY <2>1, <2>3, LenProperties
  <2>5. Len(p) = m
    BY <2>2, <2>4, UpToSame
  <2> QED
    BY <2>2, <2>3, <2>5
<1>2. ASSUME NEW p, p \in Seq(Sides), Len(p) < MaxGen PROVE p \in Paths
  <2>1. Len(p) \in Nat /\ p \in [1..Len(p) -> Sides]
    BY <1>2, LenProperties
  <2>2. Len(p) \in 0..MaxGen - 1
    BY <1>2, <2>1, TreeAssumption
  <2> QED
    BY <2>1, <2>2 DEF Paths, Sides
<1> QED
  BY <1>1, <1>2

\* A child is one longer than its parent, and has one parent.
LEMMA ChildFacts ==
  ASSUME NEW p \in Paths, NEW side \in Sides
  PROVE  /\ Len(p) \in Nat /\ Child(p, side) \in Seq(Sides)
         /\ Len(Child(p, side)) = Len(p) + 1 /\ Child(p, side) # Root /\ Child(p, side) # p
         /\ \A i \in 1..Len(p) : Child(p, side)[i] = p[i]
         /\ \A q \in Paths, s \in Sides : Child(q, s) = Child(p, side) => q = p /\ s = side
<1>1. p \in Seq(Sides) /\ Len(p) \in Nat
  BY PathIs, LenProperties
<1>2. /\ Child(p, side) \in Seq(Sides) /\ Len(Child(p, side)) = Len(p) + 1
      /\ \A i \in 1..Len(p) : Child(p, side)[i] = p[i]
  BY <1>1, AppendProperties DEF Child
<1>3. \A q \in Paths, s \in Sides : Child(q, s) = Child(p, side) => q = p /\ s = side
  BY <1>1, PathIs, AppendInjective DEF Child
<1>4. Len(Root) = 0
  BY EmptySeq DEF Root
<1> QED
  BY <1>1, <1>2, <1>3, <1>4

\* Above the highest number of generations every child has a path.
LEMMA ChildOfPath ==
  ASSUME NEW p \in Paths, NEW side \in Sides, Gen(p) < MaxGen
  PROVE  Child(p, side) \in Paths
BY PathIs, ChildFacts DEF Gen

\* One path lies above another if it is its beginning.
LEMMA BelowIs ==
  ASSUME NEW p \in Paths, NEW q \in Paths
  PROVE  Below(p, q) <=> Len(p) <= Len(q) /\ \A i \in 1..Len(p) : q[i] = p[i]
<1>1. p \in Seq(Sides) /\ q \in Seq(Sides) /\ Len(p) \in Nat /\ Len(q) \in Nat
  BY PathIs, LenProperties
<1>2. CASE Len(p) <= Len(q)
  <2>1. \A i \in 1..Len(p) : q[i] \in Sides
    BY <1>1, <1>2, ElementOfSeq
  <2>2. /\ SubSeq(q, 1, Len(p)) \in Seq(Sides)
        /\ Len(SubSeq(q, 1, Len(p))) = Len(p)
        /\ \A i \in 1..Len(p) : SubSeq(q, 1, Len(p))[i] = q[i]
    <3>1. /\ SubSeq(q, 1, Len(p)) \in Seq(Sides)
          /\ Len(SubSeq(q, 1, Len(p))) = IF 1 <= Len(p) THEN Len(p) - 1 + 1 ELSE 0
          /\ \A i \in 1..Len(p) - 1 + 1 : SubSeq(q, 1, Len(p))[i] = q[1 + i - 1]
      BY <1>1, <2>1, SubSeqProperties
    <3> QED
      BY <1>1, <3>1
  <2>3. CASE SubSeq(q, 1, Len(p)) = p
    BY <1>2, <2>2, <2>3 DEF Below
  <2>4. CASE \A i \in 1..Len(p) : q[i] = p[i]
    <3>1. SubSeq(q, 1, Len(p)) = p
      BY <1>1, <2>2, <2>4, SeqEqual
    <3> QED
      BY <1>2, <2>4, <3>1 DEF Below
  <2> QED
    BY <2>3, <2>4 DEF Below
<1>3. CASE ~(Len(p) <= Len(q))
  BY <1>3 DEF Below
<1> QED
  BY <1>2, <1>3

\* Child makes what Children collects.
LEMMA ChildIsChild ==
  ASSUME NEW p \in Paths, NEW side \in Sides, Child(p, side) \in Paths
  PROVE  Child(p, side) \in Children(p)
<1>1. Len(Child(p, side)) = Gen(p) /\ Len(p) <= Len(Child(p, side))
  BY ChildFacts DEF Gen
<1>2. Below(p, Child(p, side))
  BY <1>1, ChildFacts, BelowIs
<1> QED
  BY <1>1, <1>2 DEF Children

\* What is above a child is above its parent or the child itself.
LEMMA AboveChild ==
  ASSUME NEW p \in Paths, NEW c \in Children(p), NEW q \in Paths, Below(q, c), q # c
  PROVE  Below(q, p)
<1>1. /\ p \in Seq(Sides) /\ q \in Seq(Sides) /\ c \in Seq(Sides)
      /\ Len(p) \in Nat /\ Len(q) \in Nat /\ Len(c) = Len(p) + 1 /\ c \in Paths /\ Below(p, c)
  BY PathIs, LenProperties DEF Children, Gen
<1>2. /\ Len(q) <= Len(c) /\ \A i \in 1..Len(q) : c[i] = q[i]
      /\ \A i \in 1..Len(p) : c[i] = p[i]
  BY <1>1, BelowIs
<1>3. Len(q) # Len(c)
  BY <1>1, <1>2, SeqEqual
<1>4. Len(q) <= Len(p)
  BY <1>1, <1>2, <1>3
<1>5. \A i \in 1..Len(q) : p[i] = q[i]
  BY <1>1, <1>2, <1>4
<1> QED
  BY <1>4, <1>5, BelowIs

\* Where a process is and whether it has been born are what a step leaves but for
\* the processes it names.
LEMMA TreeInitial ==
  TreeInit => TreeInv
<1> SUFFICES ASSUME TreeInit PROVE TreeInv
  OBVIOUS
<1>1. Root \in Paths /\ Len(Root) = 0
  <2>1. Root \in Seq(Sides) /\ Len(Root) = 0
    BY EmptySeq DEF Root
  <2> QED
    <3>1. Len(Root) < MaxGen
      BY <2>1, TreeAssumption
    <3> QED
      BY <2>1, <3>1, PathIs
<1>2. /\ treePc = [p \in Paths |-> IF p = Root THEN "print" ELSE "unborn"]
      /\ generations \in 1..MaxGen /\ forkFailed = FALSE
      /\ \A p \in Paths : treePc[p] \in {"print", "unborn"} /\ (Born(p) => p = Root)
  BY DEF TreeInit, Born
<1>3. \A p \in Paths, side \in Sides : Child(p, side) # Root
  BY ChildFacts
<1>4. Forking /\ ChildBorn /\ ChildEnded
  BY <1>2 DEF Forking, ChildBorn, ChildEnded, HasEnded, Sides
<1>5. BornByFork
  <2>1. ASSUME NEW p \in Paths, NEW side \in Sides, Child(p, "left") \in Paths
        PROVE  ~Born(Child(p, side))
    <3>1. Len(Child(p, "left")) = Len(p) + 1 /\ Len(Child(p, side)) = Len(p) + 1
      BY ChildFacts DEF Sides
    <3>2. Child(p, side) \in Paths
      BY <2>1, <3>1, PathIs, ChildFacts
    <3> QED
      BY <1>2, <1>3, <3>2
  <2> QED
    BY <2>1 DEF BornByFork, Sides
<1>6. InGenerations
  BY <1>1, <1>2 DEF InGenerations, Gen
<1> QED
  BY <1>2, <1>4, <1>5, <1>6 DEF TreeInv

\* The step of one process that makes no child and leaves no doubt about whether
\* it has been born.
LEMMA OwnStep ==
  ASSUME TreeInv, NEW p \in Paths, NEW l \in {"left", "wait", "exit", "zombie", "gone"},
         treePc' = [treePc EXCEPT ![p] = l], generations' = generations,
         forkFailed' \in BOOLEAN, forkFailed => forkFailed',
         treePc[p] # "unborn", l = "left" => ~LastGen(p),
         l = "wait" => LastGen(p), l = "left" \/ l = "wait" => treePc[p] = "print",
         ~forkFailed' /\ l \in {"exit", "zombie", "gone"} /\ ~LastGen(p) =>
           \E q \in Children(p) : HasEnded(q),
         HasEnded(p) => l = "gone"
  PROVE  TreeInv'
<1>1. /\ treePc' \in [Paths -> {"unborn", "print", "left", "right", "wait", "exit",
                                "zombie", "gone"}]
      /\ \A q \in Paths : treePc'[q] = IF q = p THEN l ELSE treePc[q]
      /\ \A q \in Paths : (LastGen(q)' <=> LastGen(q)) /\ (Born(q)' <=> Born(q))
      /\ \A q \in Paths : HasEnded(q) => HasEnded(q)'
  BY DEF TreeInv, LastGen, Born, HasEnded
<1>2. Forking' /\ InGenerations'
  BY <1>1 DEF TreeInv, Forking, InGenerations, Sides
<1>3. \A q \in Paths, side \in Sides : Child(q, "left") \in Paths => Child(q, side) \in Paths
  BY PathIs, ChildFacts DEF Sides
<1>4. BornByFork'
  BY <1>1, <1>3 DEF TreeInv, BornByFork, Sides
<1>5. ChildBorn'
  <2> SUFFICES ASSUME NEW q \in Paths, treePc'[q] \in {"right", "wait"}, ~LastGen(q)'
               PROVE  Born(Child(q, "left"))'
    BY DEF ChildBorn
  <2>1. q # p /\ treePc[q] \in {"right", "wait"} /\ ~LastGen(q)
    BY <1>1
  <2>2. Born(Child(q, "left"))
    BY <2>1 DEF TreeInv, ChildBorn
  <2>3. Child(q, "left") \in Paths
    <3>1. Gen(q) < MaxGen
      BY <2>1, TreeAssumption, PathIs, LenProperties DEF TreeInv, LastGen, Gen
    <3> QED
      BY <3>1, ChildOfPath DEF Sides
  <2> QED
    BY <1>1, <2>2, <2>3
<1>6. ChildEnded'
  BY <1>1 DEF TreeInv, ChildEnded, HasEnded
<1> QED
  BY <1>1, <1>2, <1>4, <1>5, <1>6 DEF TreeInv

\* fork makes a child that is new.
LEMMA ForkStep ==
  ASSUME TreeInv, NEW p \in Paths, NEW side \in Sides, fork(p, side)
  PROVE  TreeInv'
<1>c. PICK c : c = Child(p, side)
  OBVIOUS
<1>l. PICK l : l = IF side = "left" THEN "right" ELSE "wait"
  OBVIOUS
<1>1. /\ treePc[p] = side /\ treePc' = [treePc EXCEPT ![p] = l, ![c] = "print"]
      /\ generations' = generations /\ forkFailed' = forkFailed
  BY <1>c, <1>l DEF fork
<1>2. ~LastGen(p) /\ Len(p) \in Nat /\ Gen(p) < generations /\ Gen(p) < MaxGen
  <2>1. ~LastGen(p) /\ Len(p) \in Nat
    BY <1>1, ChildFacts DEF TreeInv, Forking
  <2> QED
    BY <2>1, TreeAssumption DEF TreeInv, LastGen, Gen
<1>3. c \in Paths /\ c # p /\ Gen(c) = Gen(p) + 1
  BY <1>c, <1>2, ChildOfPath, ChildFacts DEF Gen
<1>4. \A q \in Paths, s \in Sides : Child(q, "left") \in Paths => Child(q, s) \in Paths
  BY PathIs, ChildFacts DEF Sides
<1>5. ~Born(c) /\ treePc[c] = "unborn" /\ treePc[p] \in {"left", "right"}
  BY <1>c, <1>1, <1>2, ChildOfPath DEF TreeInv, BornByFork, Born, Sides
<1>6. /\ treePc' \in [Paths -> {"unborn", "print", "left", "right", "wait", "exit",
                                "zombie", "gone"}]
      /\ \A q \in Paths : treePc'[q] = IF q = c THEN "print" ELSE IF q = p THEN l ELSE treePc[q]
  BY <1>l, <1>1, <1>3 DEF TreeInv
<1>7. /\ \A q \in Paths : LastGen(q)' <=> LastGen(q)
      /\ \A q \in Paths : Born(q)' <=> Born(q) \/ q = c
      /\ \A q \in Paths : HasEnded(q)' <=> HasEnded(q)
  BY <1>l, <1>1, <1>5, <1>6 DEF LastGen, Born, HasEnded, Sides
<1>8. Forking' /\ InGenerations'
  <2>1. Forking'
    BY <1>l, <1>2, <1>6, <1>7 DEF TreeInv, Forking, Sides
  <2>2. Gen(c) <= generations
    BY <1>2, <1>3 DEF TreeInv, Gen
  <2> QED
    BY <1>1, <1>7, <2>1, <2>2 DEF TreeInv, InGenerations
<1>9. BornByFork'
  <2> SUFFICES ASSUME NEW q \in Paths, Child(q, "left") \in Paths
               PROVE  /\ Born(Child(q, "left"))' => treePc'[q] \notin {"unborn", "print", "left"}
                      /\ Born(Child(q, "right"))' =>
                           treePc'[q] \notin {"unborn", "print", "left", "right"}
    BY DEF BornByFork
  <2>1. /\ Child(q, "right") \in Paths
        /\ Born(Child(q, "left")) => treePc[q] \notin {"unborn", "print", "left"}
        /\ Born(Child(q, "right")) => treePc[q] \notin {"unborn", "print", "left", "right"}
    BY <1>4 DEF TreeInv, BornByFork, Sides
  <2>2. CASE q = p
    <3>1. c = Child(p, "left") \/ c = Child(p, "right")
      BY <1>c DEF Sides
    <3>2. Child(p, "left") # Child(p, "right")
      BY ChildFacts DEF Sides
    <3>3. CASE side = "left"
      <4>1. treePc'[p] = "right" /\ c = Child(p, "left") /\ ~Born(Child(p, "right"))
        BY <1>c, <1>l, <1>1, <1>3, <1>6, <2>1, <2>2, <3>3
      <4>2. ~Born(Child(p, "right"))'
        BY <1>7, <2>1, <2>2, <3>2, <4>1
      <4> QED
        BY <2>2, <4>1, <4>2
    <3>4. CASE side = "right"
      <4>1. treePc'[p] = "wait"
        BY <1>l, <1>3, <1>6, <3>4
      <4> QED
        BY <2>2, <4>1
    <3> QED
      BY <3>3, <3>4 DEF Sides
  <2>3. CASE q # p
    <3>1. Child(q, "left") # c /\ Child(q, "right") # c
      BY <1>c, <2>3, ChildFacts DEF Sides
    <3>2. /\ Born(Child(q, "left"))' <=> Born(Child(q, "left"))
          /\ Born(Child(q, "right"))' <=> Born(Child(q, "right"))
      BY <1>7, <2>1, <3>1
    <3>3. CASE q = c
      BY <1>5, <2>1, <3>2, <3>3
    <3>4. CASE q # c
      <4>1. treePc'[q] = treePc[q]
        BY <1>6, <2>3, <3>4
      <4> QED
        BY <2>1, <3>2, <4>1
    <3> QED
      BY <3>3, <3>4
  <2> QED
    BY <2>2, <2>3
<1>10. ChildBorn'
  <2> SUFFICES ASSUME NEW q \in Paths, treePc'[q] \in {"right", "wait"}, ~LastGen(q)'
               PROVE  Born(Child(q, "left"))'
    BY DEF ChildBorn
  <2>1. Child(q, "left") \in Paths
    <3>1. ~LastGen(q)
      BY <1>7
    <3>2. Gen(q) < MaxGen
      BY <3>1, TreeAssumption, PathIs, LenProperties DEF TreeInv, LastGen, Gen
    <3> QED
      BY <3>2, ChildOfPath DEF Sides
  <2>2. CASE Child(q, "left") = c
    BY <1>7, <2>1, <2>2
  <2>3. CASE Child(q, "left") # c
    <3>1. q # c
      BY <1>6
    <3>2. treePc[q] \in {"right", "wait"}
      <4>1. CASE q = p
        BY <1>c, <1>1, <1>5, <2>3, <4>1 DEF Sides
      <4>2. CASE q # p
        BY <1>6, <3>1, <4>2
      <4> QED
        BY <4>1, <4>2
    <3>3. Born(Child(q, "left"))
      BY <1>7, <3>2 DEF TreeInv, ChildBorn
    <3> QED
      BY <1>7, <2>1, <3>3
  <2> QED
    BY <2>2, <2>3
<1>11. ChildEnded'
  <2> SUFFICES ASSUME ~forkFailed, NEW q \in Paths,
                      treePc'[q] = "exit" \/ HasEnded(q)', ~LastGen(q)'
               PROVE  \E k \in Children(q) : HasEnded(k)'
    BY <1>1 DEF ChildEnded
  <2>1. (treePc[q] = "exit" \/ HasEnded(q)) /\ ~LastGen(q)
    BY <1>l, <1>6, <1>7
  <2>2. PICK k \in Children(q) : HasEnded(k)
    BY <2>1 DEF TreeInv, ChildEnded
  <2> QED
    BY <1>7, <2>2 DEF Children
<1> QED
  BY <1>1, <1>6, <1>8, <1>9, <1>10, <1>11 DEF TreeInv

\* Every step of the tree keeps the invariant.
LEMMA TreeStep ==
  TreeInv /\ [TreeNext]_treeVars => TreeInv'
<1> SUFFICES ASSUME TreeInv, [TreeNext]_treeVars PROVE TreeInv'
  OBVIOUS
<1>1. CASE UNCHANGED treeVars
  BY <1>1 DEF treeVars, TreeInv, Forking, LastGen, BornByFork, Born, InGenerations, ChildBorn,
     ChildEnded, HasEnded
<1>2. ASSUME NEW p \in Paths, PrintGen(p) PROVE TreeInv'
  <2>1. /\ treePc[p] = "print" /\ generations' = generations /\ forkFailed' = forkFailed
        /\ treePc' = [treePc EXCEPT ![p] = IF LastGen(p) THEN "wait" ELSE "left"]
    BY <1>2 DEF PrintGen, TreeGoto
  <2>2. PICK l : l = IF LastGen(p) THEN "wait" ELSE "left"
    OBVIOUS
  <2>3. l \in {"left", "wait"} /\ ~HasEnded(p) /\ (l = "left" => ~LastGen(p))
        /\ (l = "wait" => LastGen(p)) /\ forkFailed' \in BOOLEAN
    BY <2>1, <2>2 DEF HasEnded, TreeInv
  <2> QED
    BY <2>1, <2>2, <2>3, OwnStep
<1>3. ASSUME NEW p \in Paths, NEW side \in Sides, fork(p, side) PROVE TreeInv'
  BY <1>3, ForkStep
<1>4. ASSUME NEW p \in Paths, NEW side \in Sides, ForkFails(p, side) PROVE TreeInv'
  <2>1. /\ treePc[p] = side /\ generations' = generations /\ forkFailed' = TRUE
        /\ treePc' = [treePc EXCEPT ![p] = "zombie"]
    BY <1>4 DEF ForkFails, TreeGoto
  <2>2. ~HasEnded(p) /\ treePc[p] # "unborn"
    BY <2>1 DEF HasEnded, Sides
  <2> QED
    BY <2>1, <2>2, OwnStep
<1>5. ASSUME NEW p \in Paths, NoChild(p) PROVE TreeInv'
  <2>1. /\ treePc[p] = "wait" /\ generations' = generations /\ forkFailed' = forkFailed
        /\ treePc' = [treePc EXCEPT ![p] = "exit"] /\ \A q \in Children(p) : ~Born(q)
    BY <1>5 DEF NoChild, MayGoOn, TreeGoto
  <2>2. LastGen(p)
    <3> SUFFICES ASSUME ~LastGen(p) PROVE FALSE
      OBVIOUS
    <3>1. Gen(p) < MaxGen
      BY TreeAssumption, PathIs, LenProperties DEF TreeInv, LastGen, Gen
    <3>2. Child(p, "left") \in Children(p)
      BY <3>1, ChildOfPath, ChildIsChild DEF Sides
    <3>3. Born(Child(p, "left"))
      BY <2>1 DEF TreeInv, ChildBorn
    <3> QED
      BY <2>1, <3>2, <3>3
  <2>3. ~HasEnded(p) /\ forkFailed' \in BOOLEAN
    BY <2>1 DEF HasEnded, TreeInv
  <2> QED
    BY <2>1, <2>2, <2>3, OwnStep
<1>6. ASSUME NEW p \in Paths, TreeExit(p) PROVE TreeInv'
  <2>1. /\ treePc[p] = "exit" /\ generations' = generations /\ forkFailed' = forkFailed
        /\ treePc' = [treePc EXCEPT ![p] = "zombie"]
    BY <1>6 DEF TreeExit, TreeGoto
  <2>2. ~HasEnded(p) /\ forkFailed' \in BOOLEAN
    BY <2>1 DEF HasEnded, TreeInv
  <2>3. ~forkFailed' /\ ~LastGen(p) => \E q \in Children(p) : HasEnded(q)
    BY <2>1 DEF TreeInv, ChildEnded
  <2> QED
    BY <2>1, <2>2, <2>3, OwnStep
<1>7. ASSUME NEW p \in Paths, InitReaps(p) PROVE TreeInv'
  <2>1. /\ treePc[p] = "zombie" /\ generations' = generations /\ forkFailed' = forkFailed
        /\ treePc' = [treePc EXCEPT ![p] = "gone"]
    BY <1>7 DEF InitReaps, TreeGoto
  <2>2. HasEnded(p) /\ forkFailed' \in BOOLEAN
    BY <2>1 DEF HasEnded, TreeInv
  <2>3. ~forkFailed' /\ ~LastGen(p) => \E q \in Children(p) : HasEnded(q)
    BY <2>1, <2>2 DEF TreeInv, ChildEnded
  <2> QED
    BY <2>1, <2>2, <2>3, OwnStep
<1>8. ASSUME NEW p \in Paths, Reap(p) PROVE TreeInv'
  <2>1. PICK q \in Children(p) :
          treePc[q] = "zombie" /\ treePc' = [treePc EXCEPT ![q] = "gone", ![p] = "exit"]
    BY <1>8 DEF Reap
  <2>2. /\ treePc[p] = "wait" /\ generations' = generations /\ forkFailed' = forkFailed
        /\ q \in Paths /\ q # p
    BY <1>8, <2>1 DEF Reap, Children
  <2>3. /\ treePc' \in [Paths -> {"unborn", "print", "left", "right", "wait", "exit",
                                  "zombie", "gone"}]
        /\ \A k \in Paths : treePc'[k] = IF k = p THEN "exit" ELSE IF k = q THEN "gone"
                                        ELSE treePc[k]
    BY <2>1, <2>2 DEF TreeInv
  <2>4. /\ \A k \in Paths : LastGen(k)' <=> LastGen(k)
        /\ \A k \in Paths : Born(k)' <=> Born(k)
        /\ \A k \in Paths : HasEnded(k)' <=> HasEnded(k)
    BY <2>1, <2>2, <2>3 DEF LastGen, Born, HasEnded
  <2>5. Forking' /\ InGenerations'
    BY <2>2, <2>3, <2>4 DEF TreeInv, Forking, InGenerations, Sides
  <2>6. BornByFork'
    <3>1. \A k \in Paths, s \in Sides : Child(k, "left") \in Paths => Child(k, s) \in Paths
      BY PathIs, ChildFacts DEF Sides
    <3> QED
      BY <2>1, <2>2, <2>3, <2>4, <3>1 DEF TreeInv, BornByFork, Sides
  <2>7. ChildBorn'
    <3> SUFFICES ASSUME NEW k \in Paths, treePc'[k] \in {"right", "wait"}, ~LastGen(k)'
                 PROVE  Born(Child(k, "left"))'
      BY DEF ChildBorn
    <3>1. Child(k, "left") \in Paths
      <4>1. ~LastGen(k)
        BY <2>4
      <4>2. Gen(k) < MaxGen
        BY <4>1, TreeAssumption, PathIs, LenProperties DEF TreeInv, LastGen, Gen
      <4> QED
        BY <4>2, ChildOfPath DEF Sides
    <3>2. Born(Child(k, "left"))
      BY <2>3, <2>4 DEF TreeInv, ChildBorn
    <3> QED
      BY <2>4, <3>1, <3>2
  <2>8. ChildEnded'
    <3> SUFFICES ASSUME ~forkFailed, NEW k \in Paths,
                        treePc'[k] = "exit" \/ HasEnded(k)', ~LastGen(k)'
                 PROVE  \E j \in Children(k) : HasEnded(j)'
      BY <2>2 DEF ChildEnded
    <3>1. \E j \in Children(k) : HasEnded(j)
      <4>1. CASE k = p
        BY <2>1, <4>1 DEF HasEnded
      <4>2. CASE k # p
        BY <2>3, <2>4, <4>2 DEF TreeInv, ChildEnded
      <4> QED
        BY <4>1, <4>2
    <3> QED
      BY <2>4, <3>1 DEF Children
  <2> QED
    BY <2>2, <2>3, <2>5, <2>6, <2>7, <2>8 DEF TreeInv
<1> QED
  BY <1>1, <1>2, <1>3, <1>4, <1>5, <1>6, <1>7, <1>8 DEF TreeNext, tree_process, Sides

\* Of the paths along which all have ended a longest one reaches the last
\* generation.
LEMMA TreeIsSafe ==
  ASSUME TreeInv PROVE RootAfterLeaf
<1> SUFFICES ASSUME HasEnded(Root), ~forkFailed
             PROVE  \E leaf \in Paths : /\ Gen(leaf) = generations
                                       /\ \A p \in Paths : Below(p, leaf) => HasEnded(p)
  BY DEF RootAfterLeaf
<1> DEFINE AllAbove(q) == \A p \in Paths : Below(p, q) => HasEnded(p)
           S == {k \in 0..MaxGen - 1 : \E q \in Paths : Len(q) = k /\ AllAbove(q)}
<1>1. S # {}
  <2>1. Root \in Seq(Sides) /\ Len(Root) = 0
    BY EmptySeq DEF Root
  <2>2. Root \in Paths /\ 0 \in 0..MaxGen - 1
    <3>1. Len(Root) < MaxGen /\ 0 \in 0..MaxGen - 1
      BY <2>1, TreeAssumption
    <3> QED
      BY <2>1, <3>1, PathIs
  <2>3. ASSUME NEW p \in Paths, Below(p, Root) PROVE HasEnded(p)
    <3>1. Len(p) \in Nat /\ Len(p) <= 0 /\ p \in Seq(Sides)
      BY <2>1, <2>3, PathIs, LenProperties DEF Below
    <3>2. p = Root
      BY <3>1, EmptySeq DEF Root
    <3> QED
      BY <3>2
  <2>4. 0 \in S
    BY <2>1, <2>2, <2>3
  <2> QED
    BY <2>4
<1>2. IsFiniteSet(S)
  <2>1. IsFiniteSet(0..MaxGen - 1) /\ S \in SUBSET (0..MaxGen - 1)
    BY TreeAssumption, FS_Interval
  <2> QED
    BY <2>1, FS_Subset
<1>3. PICK k \in S : \A i \in S : i <= k
  <2>1. PICK r : r = [i \in S |-> i]
    OBVIOUS
  <2>2. \A i \in S : r[i] = i /\ r[i] \in Nat
    BY <2>1, TreeAssumption
  <2>3. \E k \in S : \A i \in S : r[i] <= r[k]
    BY <1>1, <1>2, <2>2, HighestRank
  <2> QED
    BY <2>2, <2>3
<1>4. PICK q \in Paths : Len(q) = k /\ AllAbove(q)
  BY <1>3
<1>5. Below(q, q) /\ HasEnded(q) /\ Len(q) \in Nat
  <2>1. Below(q, q) /\ Len(q) \in Nat
    BY PathIs, LenProperties, BelowIs
  <2> QED
    BY <1>4, <2>1
<1>6. Gen(q) <= generations
  BY <1>5 DEF TreeInv, InGenerations, Born, HasEnded
<1>7. LastGen(q)
  <2> SUFFICES ASSUME ~LastGen(q) PROVE FALSE
    OBVIOUS
  <2>1. PICK c \in Children(q) : HasEnded(c)
    BY <1>5 DEF TreeInv, ChildEnded
  <2>2. c \in Paths /\ Len(c) = k + 1 /\ Len(c) < MaxGen
    BY <1>4, PathIs DEF Children, Gen
  <2>3. AllAbove(c)
    BY <1>4, <2>1, AboveChild
  <2>4. k + 1 \in S
    BY <1>4, <1>5, <2>2, <2>3, TreeAssumption
  <2> QED
    BY <1>3, <1>4, <1>5, <2>4
<1>8. Gen(q) = generations
  BY <1>5, <1>6, <1>7 DEF TreeInv, LastGen, Gen
<1> QED
  BY <1>4, <1>8

\* The invariant of the tree holds in every state.
LEMMA TreeInductive ==
  TreeSpec => []TreeInv
BY TreeInitial, TreeStep, PTL DEF TreeSpec

\* tree_fork.c: when the root has ended, and no fork has failed, a process of the
\* last generation and all above it have ended, whatever the number of generations.
THEOREM RootIsAfterLeaf ==
  TreeSpec => []RootAfterLeaf
BY TreeInductive, TreeIsSafe, PTL

\* What the processes have printed.
TreePrinted ==
  buffer \in [Paths -> SUBSET Paths] /\ printed \in [Paths -> Nat] /\ tty \in BOOLEAN

\* Every step of the tree keeps these types.
LEMMA TreePrintedStep ==
  ASSUME TreePrinted, [TreeNext]_treeVars PROVE TreePrinted'
<1> USE DEF TreePrinted
<1>1. CASE UNCHANGED treeVars
  BY <1>1 DEF treeVars
<1>2. CASE TreeNext
  <2>1. PICK p \in Paths : tree_process(p)
    BY <1>2 DEF TreeNext
  <2>2. CASE Flush(p) /\ tty' = tty
    BY <2>2 DEF Flush
  <2>3. CASE PrintGen(p)
    BY <2>3 DEF PrintGen
  <2>4. CASE UNCHANGED <<tty, buffer, printed>>
    BY <2>4
  <2>5. ASSUME NEW side \in {"left", "right"}, fork(p, side) PROVE TreePrinted'
    <3>1. Inherited(p) \in SUBSET Paths
      BY DEF Inherited
    <3> QED
      BY <2>5, <3>1 DEF fork
  <2> QED
    BY <2>1, <2>2, <2>3, <2>4, <2>5 DEF tree_process, Reap, NoChild, TreeExit, InitReaps, ForkFails
<1> QED
  BY <1>1, <1>2

\* Every variable of the tree keeps its type: a buffer has lines of processes.
THEOREM TreeTypeCorrect == TreeSpec => []TreeTypeOK
<1>1. TreeInit => TreePrinted
  BY DEF TreeInit, TreePrinted
<1>2. TreeInv /\ TreePrinted => TreeTypeOK
  BY DEF TreeInv, TreePrinted, TreeTypeOK
<1> QED
  BY <1>1, <1>2, TreePrintedStep, TreeInductive, PTL DEF TreeSpec

\* Before a process is born the one above it is.
BornDown == \A p, q \in Paths : Below(p, q) /\ Born(q) => Born(p)
\* Without a failed fork both children are there once their parent waits.
BothBorn ==
  /\ Born(Root)
  /\ ~forkFailed => \A p \in Paths : ~LastGen(p) =>
       /\ treePc[p] \notin {"unborn", "print", "left"} => Born(Child(p, "left"))
       /\ treePc[p] \notin {"unborn", "print", "left", "right"} => Born(Child(p, "right"))

\* A process that has printed its own line has those of all processes above it,
\* and on a terminal none.
Ancestors(p) == {q \in Paths : Below(q, p)}
Buffers ==
  \A p \in Paths :
    buffer[p] = IF tty \/ ~Born(p) \/ HasEnded(p) THEN {}
                ELSE IF treePc[p] = "print" THEN Ancestors(p) \ {p} ELSE Ancestors(p)

\* A line is written by every process below it that has ended.
AllThatEnded == {q \in Paths : HasEnded(q)}
EndedBelow(l) == {q \in AllThatEnded : Below(l, q)}
Written ==
  \A l \in Paths :
    printed[l] = IF tty THEN (IF treePc[l] \in {"unborn", "print"} THEN 0 ELSE 1)
                 ELSE Cardinality(EndedBelow(l))

LinesInv == IsFiniteSet(AllThatEnded) /\ Buffers /\ Written

\* The root is a path, and alone above itself.
LEMMA RootIs ==
  Root \in Paths /\ Len(Root) = 0 /\ \A p \in Paths : Below(p, Root) => p = Root
<1>1. Root \in Seq(Sides) /\ Len(Root) = 0
  BY EmptySeq DEF Root
<1>2. Root \in Paths
  <2>1. Len(Root) < MaxGen
    BY <1>1, TreeAssumption
  <2> QED
    BY <1>1, <2>1, PathIs
<1>3. ASSUME NEW p \in Paths, Below(p, Root) PROVE p = Root
  <2>1. Len(p) \in Nat /\ Len(p) <= 0 /\ p \in Seq(Sides)
    BY <1>1, <1>3, PathIs, LenProperties DEF Below
  <2> QED
    BY <2>1, EmptySeq DEF Root
<1> QED
  BY <1>1, <1>2, <1>3

\* A path lies above itself.
LEMMA BelowSelf ==
  ASSUME NEW p \in Paths PROVE Below(p, p) /\ p \in Ancestors(p)
<1>1. p \in Seq(Sides) /\ Len(p) \in Nat
  BY PathIs, LenProperties
<1> QED
  BY <1>1, BelowIs DEF Ancestors

\* In the beginning there is the root, and nothing has been printed.
LEMMA LinesInitial ==
  TreeInit => BornDown /\ BothBorn /\ LinesInv
<1> SUFFICES ASSUME TreeInit PROVE BornDown /\ BothBorn /\ LinesInv
  OBVIOUS
<1>1. \A p \in Paths : treePc[p] = IF p = Root THEN "print" ELSE "unborn"
  BY DEF TreeInit
<1>2. BornDown /\ BothBorn
  BY <1>1, RootIs DEF BornDown, BothBorn, Born
<1>3. AllThatEnded = {} /\ \A l \in Paths : EndedBelow(l) = {}
  BY <1>1 DEF AllThatEnded, EndedBelow, HasEnded
<1>4. Ancestors(Root) \ {Root} = {}
  BY RootIs DEF Ancestors
<1>5. Buffers
  BY <1>1, <1>4 DEF TreeInit, Buffers, Born
<1>6. Written
  BY <1>1, <1>3, FS_EmptySet DEF TreeInit, Written
<1> QED
  BY <1>2, <1>3, <1>5, <1>6, FS_EmptySet DEF LinesInv

\* A step that bears no process.
LEMMA NoneIsBorn ==
  ASSUME TreeInv, BornDown, BothBorn, generations' = generations, forkFailed => forkFailed',
         forkFailed' \in BOOLEAN,
         \A q \in Paths : Born(q)' <=> Born(q),
         \A q \in Paths : ~forkFailed' /\ ~LastGen(q) /\ treePc'[q] # treePc[q] =>
           \/ treePc'[q] = "left"
           \/ treePc[q] \notin {"unborn", "print", "left", "right"}
  PROVE  BornDown' /\ BothBorn'
<1>1. BornDown'
  BY DEF BornDown
<1>2. Born(Root)'
  BY RootIs DEF BothBorn
<1>3. ASSUME ~forkFailed', NEW p \in Paths, ~LastGen(p)'
      PROVE  /\ treePc'[p] \notin {"unborn", "print", "left"} => Born(Child(p, "left"))'
             /\ treePc'[p] \notin {"unborn", "print", "left", "right"} => Born(Child(p, "right"))'
  <2>1. ~LastGen(p) /\ ~forkFailed
    BY <1>3 DEF LastGen, TreeInv
  <2>2. Gen(p) < MaxGen
    BY <2>1, TreeAssumption, PathIs, LenProperties DEF TreeInv, LastGen, Gen
  <2>3. Child(p, "left") \in Paths /\ Child(p, "right") \in Paths
    BY <2>2, ChildOfPath DEF Sides
  <2>4. /\ treePc[p] \notin {"unborn", "print", "left"} => Born(Child(p, "left"))
        /\ treePc[p] \notin {"unborn", "print", "left", "right"} => Born(Child(p, "right"))
    BY <2>1 DEF BothBorn
  <2> QED
    BY <1>3, <2>1, <2>3, <2>4
<1> QED
  BY <1>1, <1>2, <1>3 DEF BothBorn

\* A step that prints nothing and in which no process is born or ends.
LEMMA NothingPrinted ==
  ASSUME LinesInv, UNCHANGED <<tty, buffer, printed>>,
         \A q \in Paths : Born(q)' <=> Born(q),
         \A q \in Paths : HasEnded(q)' <=> HasEnded(q),
         \A q \in Paths : treePc'[q] = "print" <=> treePc[q] = "print"
  PROVE  LinesInv'
<1>1. AllThatEnded' = AllThatEnded
  <2>1. AllThatEnded' = {q \in Paths : HasEnded(q)'}
    BY DEF AllThatEnded
  <2> QED
    BY <2>1 DEF AllThatEnded
<1>2. \A l \in Paths : EndedBelow(l)' = EndedBelow(l)
  BY <1>1 DEF EndedBelow
<1>3. Buffers'
  BY DEF LinesInv, Buffers, Ancestors
<1>4. Written'
  BY <1>2 DEF LinesInv, Written, Born
<1> QED
  BY <1>1, <1>3, <1>4 DEF LinesInv

\* A process prints its line, and then has those of all above it and its own.
LEMMA PrintKeeps ==
  ASSUME TreeInv, TreePrinted, LinesInv, NEW p \in Paths, PrintGen(p)
  PROVE  LinesInv'
<1>1. PICK l \in {"left", "wait"} : treePc' = [treePc EXCEPT ![p] = l]
  BY DEF PrintGen, TreeGoto
<1>2. treePc[p] = "print" /\ tty' = tty /\ tty \in BOOLEAN
  BY DEF PrintGen, TreePrinted
<1>3. /\ \A q \in Paths : treePc'[q] = IF q = p THEN l ELSE treePc[q]
      /\ \A q \in Paths : Born(q)' <=> Born(q)
      /\ \A q \in Paths : HasEnded(q)' <=> HasEnded(q)
  BY <1>1, <1>2 DEF TreeInv, Born, HasEnded
<1>4. AllThatEnded' = AllThatEnded /\ \A k \in Paths : EndedBelow(k)' = EndedBelow(k)
  BY <1>3 DEF AllThatEnded, EndedBelow
<1>5. CASE tty
  <2>1. printed' = [printed EXCEPT ![p] = @ + 1] /\ buffer' = buffer
    BY <1>5 DEF PrintGen
  <2>2. Buffers'
    BY <1>2, <1>5, <2>1 DEF LinesInv, Buffers
  <2>3. Written'
    BY <1>2, <1>3, <1>5, <2>1 DEF LinesInv, Written, TreePrinted
  <2> QED
    BY <1>4, <2>2, <2>3 DEF LinesInv
<1>6. CASE ~tty
  <2>1. buffer' = [buffer EXCEPT ![p] = @ \cup {p}] /\ printed' = printed
    BY <1>6 DEF PrintGen
  <2>2. ASSUME NEW q \in Paths
        PROVE  buffer'[q] = IF ~Born(q)' \/ HasEnded(q)' THEN {}
                            ELSE IF treePc'[q] = "print" THEN Ancestors(q) \ {q} ELSE Ancestors(q)
    <3>1. CASE q = p
      <4>1. buffer[p] = Ancestors(p) \ {p} /\ Born(p) /\ ~HasEnded(p)
        BY <1>2, <1>6 DEF LinesInv, Buffers, Born, HasEnded
      <4>2. buffer'[p] = Ancestors(p)
        BY <2>1, <4>1, BelowSelf DEF TreePrinted
      <4> QED
        BY <1>3, <3>1, <4>1, <4>2
    <3>2. CASE q # p
      BY <1>3, <1>6, <2>1, <3>2 DEF LinesInv, Buffers, TreePrinted
    <3> QED
      BY <3>1, <3>2
  <2>3. Buffers'
    BY <1>2, <1>6, <2>2 DEF Buffers, Ancestors
  <2>4. Written'
    BY <1>2, <1>4, <1>6, <2>1 DEF LinesInv, Written
  <2> QED
    BY <1>4, <2>3, <2>4 DEF LinesInv
<1> QED
  BY <1>2, <1>5, <1>6

\* What a process has in its buffer when it ends is written once more.
LEMMA FlushKeeps ==
  ASSUME TreeInv, TreePrinted, LinesInv, NEW p \in Paths, Flush(p), tty' = tty,
         treePc[p] \in {"left", "right", "exit"}, treePc' = [treePc EXCEPT ![p] = "zombie"]
  PROVE  LinesInv'
<1>1. /\ \A q \in Paths : treePc'[q] = IF q = p THEN "zombie" ELSE treePc[q]
      /\ \A q \in Paths : Born(q)' <=> Born(q)
      /\ \A q \in Paths : HasEnded(q)' <=> HasEnded(q) \/ q = p
      /\ Born(p) /\ ~HasEnded(p) /\ tty \in BOOLEAN
  BY DEF TreeInv, TreePrinted, Born, HasEnded
<1>2. AllThatEnded' = AllThatEnded \cup {p} /\ p \notin AllThatEnded
  BY <1>1 DEF AllThatEnded
<1>3. IsFiniteSet(AllThatEnded')
  BY <1>2, FS_AddElement DEF LinesInv
<1>4. buffer[p] = IF tty THEN {} ELSE Ancestors(p)
  BY <1>1 DEF LinesInv, Buffers
<1>5. \A q \in Paths : /\ buffer'[q] = IF q = p THEN {} ELSE buffer[q]
                       /\ printed'[q] = printed[q] + IF q \in buffer[p] THEN 1 ELSE 0
  BY DEF Flush, TreePrinted
<1>6. Buffers'
  BY <1>1, <1>5 DEF LinesInv, Buffers, Ancestors
<1>7. Written'
  <2> SUFFICES ASSUME NEW l \in Paths
               PROVE  printed'[l] = IF tty THEN (IF treePc'[l] \in {"unborn", "print"} THEN 0 ELSE 1)
                                    ELSE Cardinality(EndedBelow(l)')
    BY DEF Written
  <2>1. printed[l] \in Nat
    BY DEF TreePrinted
  <2>2. CASE tty
    <3>1. printed'[l] = printed[l]
      BY <1>4, <1>5, <2>1, <2>2
    <3> QED
      BY <1>1, <2>2, <3>1 DEF LinesInv, Written
  <2>3. CASE ~tty /\ Below(l, p)
    <3>1. printed'[l] = printed[l] + 1
      BY <1>4, <1>5, <2>3 DEF Ancestors
    <3>2. EndedBelow(l)' = EndedBelow(l) \cup {p} /\ p \notin EndedBelow(l)
      BY <1>2, <2>3 DEF EndedBelow
    <3>3. IsFiniteSet(EndedBelow(l))
      <4>1. EndedBelow(l) \in SUBSET AllThatEnded
        BY DEF EndedBelow
      <4> QED
        BY <4>1, FS_Subset DEF LinesInv
    <3>4. Cardinality(EndedBelow(l)') = Cardinality(EndedBelow(l)) + 1
      BY <3>2, <3>3, FS_AddElement
    <3> QED
      BY <2>3, <3>1, <3>4 DEF LinesInv, Written
  <2>4. CASE ~tty /\ ~Below(l, p)
    <3>1. printed'[l] = printed[l]
      BY <1>4, <1>5, <2>1, <2>4 DEF Ancestors
    <3>2. EndedBelow(l)' = EndedBelow(l)
      BY <1>2, <2>4 DEF EndedBelow
    <3> QED
      BY <2>4, <3>1, <3>2 DEF LinesInv, Written
  <2> QED
    BY <1>1, <2>2, <2>3, <2>4
<1> QED
  BY <1>3, <1>6, <1>7 DEF LinesInv

\* What fork changes: the parent goes on, and its child, which is new, begins.
LEMMA ForkFacts ==
  ASSUME TreeInv, NEW p \in Paths, NEW side \in Sides, fork(p, side), NEW c, c = Child(p, side)
  PROVE  /\ c \in Paths /\ c # p /\ c \in Children(p) /\ treePc[c] = "unborn"
         /\ treePc[p] = side /\ ~LastGen(p)
         /\ \A q \in Paths : treePc'[q] = IF q = c THEN "print" ELSE
                               IF q = p THEN (IF side = "left" THEN "right" ELSE "wait")
                               ELSE treePc[q]
         /\ \A q \in Paths : Born(q)' <=> Born(q) \/ q = c
         /\ \A q \in Paths : HasEnded(q)' <=> HasEnded(q)
<1>1. /\ treePc[p] = side
      /\ treePc' = [treePc EXCEPT ![p] = IF side = "left" THEN "right" ELSE "wait",
                                  ![c] = "print"]
  BY DEF fork
<1>2. ~LastGen(p) /\ Len(p) \in Nat /\ Gen(p) < MaxGen
  <2>1. ~LastGen(p) /\ Len(p) \in Nat
    BY <1>1, ChildFacts DEF TreeInv, Forking
  <2> QED
    BY <2>1, TreeAssumption DEF TreeInv, LastGen, Gen
<1>3. c \in Paths /\ c # p /\ c \in Children(p)
  BY <1>2, ChildOfPath, ChildFacts, ChildIsChild
<1>4. treePc[c] = "unborn"
  BY <1>1, <1>2, ChildOfPath DEF TreeInv, BornByFork, Born, Sides
<1>5. \A q \in Paths : treePc'[q] = IF q = c THEN "print" ELSE
                         IF q = p THEN (IF side = "left" THEN "right" ELSE "wait") ELSE treePc[q]
  BY <1>1, <1>3 DEF TreeInv
<1>6. treePc[p] \in {"left", "right"} /\ treePc'[p] \in {"right", "wait"}
  BY <1>1, <1>3, <1>5 DEF Sides
<1>7. /\ \A q \in Paths : Born(q)' <=> Born(q) \/ q = c
      /\ \A q \in Paths : HasEnded(q)' <=> HasEnded(q)
  BY <1>3, <1>4, <1>5, <1>6 DEF Born, HasEnded
<1> QED
  BY <1>1, <1>2, <1>3, <1>4, <1>5, <1>7

\* The child gets the lines of all above it.
LEMMA ForkKeepsLines ==
  ASSUME TreeInv, TreePrinted, LinesInv, NEW p \in Paths, NEW side \in Sides, fork(p, side)
  PROVE  LinesInv'
<1>c. PICK c : c = Child(p, side)
  OBVIOUS
<1>1. /\ c \in Paths /\ c # p /\ c \in Children(p) /\ treePc[c] = "unborn"
      /\ treePc[p] = side
      /\ \A q \in Paths : treePc'[q] = IF q = c THEN "print" ELSE
                            IF q = p THEN (IF side = "left" THEN "right" ELSE "wait")
                            ELSE treePc[q]
      /\ \A q \in Paths : Born(q)' <=> Born(q) \/ q = c
      /\ \A q \in Paths : HasEnded(q)' <=> HasEnded(q)
  BY <1>c, ForkFacts
<1>2. /\ tty' = tty /\ printed' = printed /\ tty \in BOOLEAN
      /\ \A q \in Paths : buffer'[q] = IF q = c THEN buffer[p] ELSE buffer[q]
  BY <1>c, <1>1 DEF fork, Inherited, TreePrinted
<1>3. AllThatEnded' = AllThatEnded /\ \A k \in Paths : EndedBelow(k)' = EndedBelow(k)
  BY <1>1 DEF AllThatEnded, EndedBelow
<1>4. Ancestors(c) \ {c} = Ancestors(p)
  <2>1. \A q \in Paths : Below(q, c) /\ q # c => Below(q, p)
    BY <1>1, AboveChild
  <2>2. ASSUME NEW q \in Paths, Below(q, p) PROVE Below(q, c) /\ q # c
    <3>1. /\ Len(q) \in Nat /\ Len(p) \in Nat /\ Len(c) = Len(p) + 1
          /\ \A i \in 1..Len(p) : c[i] = p[i]
      BY <1>c, PathIs, LenProperties, ChildFacts
    <3>2. Len(q) <= Len(p) /\ \A i \in 1..Len(q) : p[i] = q[i]
      BY <2>2, BelowIs
    <3>3. Len(q) <= Len(c) /\ Len(q) # Len(c) /\ \A i \in 1..Len(q) : c[i] = q[i]
      BY <3>1, <3>2
    <3> QED
      BY <1>1, <3>3, BelowIs
  <2> QED
    BY <2>1, <2>2 DEF Ancestors
<1>5. buffer[p] = IF tty THEN {} ELSE Ancestors(p)
  BY <1>1 DEF LinesInv, Buffers, Born, HasEnded, Sides
<1>6. ASSUME NEW q \in Paths
      PROVE  buffer'[q] = IF tty \/ ~Born(q)' \/ HasEnded(q)' THEN {}
                          ELSE IF treePc'[q] = "print" THEN Ancestors(q) \ {q} ELSE Ancestors(q)
  <2>1. CASE q = c
    <3>1. Born(q)' /\ ~HasEnded(q)' /\ treePc'[q] = "print"
      BY <1>1, <2>1 DEF HasEnded
    <3> QED
      BY <1>2, <1>4, <1>5, <2>1, <3>1
  <2>2. CASE q # c
    <3>1. /\ Born(q)' <=> Born(q)
          /\ HasEnded(q)' <=> HasEnded(q)
          /\ treePc'[q] = "print" <=> treePc[q] = "print"
      BY <1>1, <2>2 DEF Sides
    <3> QED
      BY <1>2, <2>2, <3>1 DEF LinesInv, Buffers
  <2> QED
    BY <2>1, <2>2
<1>7. Buffers'
  BY <1>2, <1>6 DEF Buffers, Ancestors
<1>8. Written'
  <2>1. \A l \in Paths : treePc'[l] \in {"unborn", "print"} <=> treePc[l] \in {"unborn", "print"}
    BY <1>1 DEF Sides
  <2> QED
    BY <1>2, <1>3, <2>1 DEF LinesInv, Written
<1> QED
  BY <1>3, <1>7, <1>8 DEF LinesInv

\* The parent of the new process has been born, and so has what is above it.
LEMMA ForkKeepsBirths ==
  ASSUME TreeInv, BornDown, BothBorn, NEW p \in Paths, NEW side \in Sides, fork(p, side)
  PROVE  BornDown' /\ BothBorn'
<1>c. PICK c : c = Child(p, side)
  OBVIOUS
<1>1. /\ c \in Paths /\ c # p /\ c \in Children(p) /\ treePc[c] = "unborn"
      /\ treePc[p] = side
      /\ \A q \in Paths : treePc'[q] = IF q = c THEN "print" ELSE
                            IF q = p THEN (IF side = "left" THEN "right" ELSE "wait")
                            ELSE treePc[q]
      /\ \A q \in Paths : Born(q)' <=> Born(q) \/ q = c
  BY <1>c, ForkFacts
<1>2. BornDown'
  <2> SUFFICES ASSUME NEW q \in Paths, NEW k \in Paths, Below(q, k), Born(k)' PROVE Born(q)'
    BY DEF BornDown
  <2>1. CASE k # c
    BY <1>1, <2>1 DEF BornDown
  <2>2. CASE k = c
    <3>1. CASE q # c
      <4>1. Below(q, p) /\ Born(p)
        BY <1>1, <2>2, <3>1, AboveChild DEF Born, Sides
      <4> QED
        BY <1>1, <4>1 DEF BornDown
    <3> QED
      BY <1>1, <3>1
  <2> QED
    BY <2>1, <2>2
<1>3. Born(Root)' /\ generations' = generations /\ forkFailed' = forkFailed
  BY <1>1, RootIs DEF BothBorn, fork
<1>4. ASSUME ~forkFailed, NEW q \in Paths, ~LastGen(q)
      PROVE  /\ treePc'[q] \notin {"unborn", "print", "left"} => Born(Child(q, "left"))'
             /\ treePc'[q] \notin {"unborn", "print", "left", "right"} => Born(Child(q, "right"))'
  <2>1. Gen(q) < MaxGen
    BY <1>4, TreeAssumption, PathIs, LenProperties DEF TreeInv, LastGen, Gen
  <2>2. Child(q, "left") \in Paths /\ Child(q, "right") \in Paths
    BY <2>1, ChildOfPath DEF Sides
  <2>3. /\ treePc[q] \notin {"unborn", "print", "left"} => Born(Child(q, "left"))
        /\ treePc[q] \notin {"unborn", "print", "left", "right"} => Born(Child(q, "right"))
    BY <1>4 DEF BothBorn
  <2>4. CASE q # p
    BY <1>1, <2>2, <2>3, <2>4
  <2>5. CASE q = p /\ side = "left"
    BY <1>c, <1>1, <2>2, <2>5
  <2>6. CASE q = p /\ side = "right"
    <3>1. Born(Child(p, "left")) /\ c = Child(p, "right")
      BY <1>c, <1>1, <2>3, <2>6
    <3> QED
      BY <1>1, <2>2, <2>6, <3>1
  <2> QED
    BY <2>4, <2>5, <2>6 DEF Sides
<1> QED
  BY <1>2, <1>3, <1>4 DEF BothBorn, LastGen

\* Every step of the tree keeps what it says of births and of lines.
LEMMA LinesStep ==
  ASSUME TreeInv, TreePrinted, BornDown, BothBorn, LinesInv, [TreeNext]_treeVars
  PROVE  BornDown' /\ BothBorn' /\ LinesInv'
<1>1. CASE UNCHANGED treeVars
  <2>1. BornDown' /\ BothBorn'
    BY <1>1 DEF treeVars, BornDown, BothBorn, Born, LastGen
  <2>2. /\ \A q \in Paths : Born(q)' <=> Born(q)
        /\ \A q \in Paths : HasEnded(q)' <=> HasEnded(q)
        /\ \A q \in Paths : treePc'[q] = "print" <=> treePc[q] = "print"
        /\ UNCHANGED <<tty, buffer, printed>>
    BY <1>1 DEF treeVars, Born, HasEnded
  <2>3. LinesInv'
    BY <2>2, NothingPrinted
  <2> QED
    BY <2>1, <2>3
<1>2. CASE TreeNext
  <2>1. PICK p \in Paths : tree_process(p)
    BY <1>2 DEF TreeNext
  <2>2. CASE PrintGen(p)
    <3>1. PICK l \in {"left", "wait"} : /\ treePc' = [treePc EXCEPT ![p] = l]
                                        /\ l = "wait" => LastGen(p)
      BY <2>2 DEF PrintGen, TreeGoto
    <3>2. treePc[p] = "print" /\ generations' = generations /\ forkFailed' = forkFailed
      BY <2>2 DEF PrintGen
    <3>3. \A q \in Paths : treePc'[q] = IF q = p THEN l ELSE treePc[q]
      BY <3>1 DEF TreeInv
    <3>4. BornDown' /\ BothBorn'
      BY <3>1, <3>2, <3>3, NoneIsBorn DEF Born, TreeInv
    <3> QED
      BY <2>2, <3>4, PrintKeeps
  <2>3. ASSUME Flush(p), treePc' = [treePc EXCEPT ![p] = "zombie"],
               treePc[p] \in {"left", "right", "exit"}, generations' = generations, tty' = tty,
               forkFailed' = TRUE \/ (forkFailed' = forkFailed /\ treePc[p] = "exit")
        PROVE  BornDown' /\ BothBorn' /\ LinesInv'
    <3>1. \A q \in Paths : treePc'[q] = IF q = p THEN "zombie" ELSE treePc[q]
      BY <2>3 DEF TreeInv
    <3>2. \A q \in Paths : Born(q)' <=> Born(q)
      BY <2>3, <3>1 DEF Born
    <3>3. (forkFailed => forkFailed') /\ forkFailed' \in BOOLEAN
      <4>1. forkFailed \in BOOLEAN
        BY DEF TreeInv
      <4>2. CASE forkFailed' = TRUE
        BY <4>2
      <4>3. CASE forkFailed' = forkFailed
        BY <4>1, <4>3
      <4> QED
        BY <2>3, <4>2, <4>3
    <3>4. \A q \in Paths : ~forkFailed' /\ treePc'[q] # treePc[q] =>
            treePc[q] \notin {"unborn", "print", "left", "right"}
      BY <2>3, <3>1
    <3>5. BornDown' /\ BothBorn'
      BY <2>3, <3>2, <3>3, <3>4, NoneIsBorn
    <3> QED
      BY <2>3, <3>5, FlushKeeps
  <2>4. CASE TreeExit(p)
    BY <2>3, <2>4 DEF TreeExit, TreeGoto
  <2>5. ASSUME NEW side \in Sides, ForkFails(p, side) PROVE BornDown' /\ BothBorn' /\ LinesInv'
    BY <2>3, <2>5 DEF ForkFails, TreeGoto, Sides
  <2>6. ASSUME NEW side \in Sides, fork(p, side) PROVE BornDown' /\ BothBorn' /\ LinesInv'
    BY <2>6, ForkKeepsLines, ForkKeepsBirths
  <2>7. CASE Reap(p) \/ NoChild(p) \/ InitReaps(p)
    <3>1. UNCHANGED <<generations, tty, buffer, printed, forkFailed>>
      BY <2>7 DEF Reap, NoChild, InitReaps
    <3>2. \A q \in Paths : treePc'[q] # treePc[q] =>
            \/ treePc[q] = "wait" /\ treePc'[q] = "exit"
            \/ treePc[q] = "zombie" /\ treePc'[q] = "gone"
      <4>1. CASE Reap(p)
        <5>1. PICK k \in Children(p) :
                treePc[k] = "zombie" /\ treePc' = [treePc EXCEPT ![k] = "gone", ![p] = "exit"]
          BY <4>1 DEF Reap
        <5>2. treePc[p] = "wait" /\ k \in Paths
          BY <4>1 DEF Reap, Children
        <5> QED
          BY <5>1, <5>2 DEF TreeInv
      <4>2. CASE NoChild(p) \/ InitReaps(p)
        BY <4>2 DEF NoChild, InitReaps, TreeGoto, TreeInv
      <4> QED
        BY <2>7, <4>1, <4>2
    <3>3. /\ \A q \in Paths : Born(q)' <=> Born(q)
          /\ \A q \in Paths : HasEnded(q)' <=> HasEnded(q)
          /\ \A q \in Paths : treePc'[q] = "print" <=> treePc[q] = "print"
      BY <3>2 DEF Born, HasEnded
    <3>4. BornDown' /\ BothBorn'
      BY <3>1, <3>2, <3>3, NoneIsBorn DEF TreeInv
    <3> QED
      BY <3>1, <3>3, <3>4, NothingPrinted
  <2> QED
    BY <2>1, <2>2, <2>4, <2>5, <2>6, <2>7 DEF tree_process, Sides
<1> QED
  BY <1>1, <1>2

\* When all have ended and no fork has failed, all processes of all generations
\* have been there.
LEMMA AllAreBorn ==
  ASSUME TreeInv, BothBorn, AllEnded, ~forkFailed, NEW p \in Paths, Gen(p) <= generations
  PROVE  Born(p)
<1> DEFINE S == {n \in Nat : \A q \in Paths : Len(q) = n /\ Gen(q) <= generations => Born(q)}
<1>1. 0 \in S
  <2> SUFFICES ASSUME NEW q \in Paths, Len(q) = 0 PROVE Born(q)
    OBVIOUS
  <2>1. q = Root
    BY PathIs, EmptySeq DEF Root
  <2> QED
    BY <2>1 DEF BothBorn
<1>2. ASSUME NEW n \in S PROVE n + 1 \in S
  <2> SUFFICES ASSUME NEW q \in Paths, Len(q) = n + 1, Gen(q) <= generations PROVE Born(q)
    OBVIOUS
  <2>1. q \in Seq(Sides) /\ q # << >> /\ n \in Nat
    BY PathIs, EmptySeq
  <2>2. PICK k \in Seq(Sides), side \in Sides : q = Append(k, side)
    BY <2>1, SequenceEmptyOrAppend
  <2>3. Len(k) = n /\ k \in Paths
    <3>1. Len(q) = Len(k) + 1 /\ Len(k) \in Nat /\ Len(q) < MaxGen
      BY <2>2, AppendProperties, LenProperties, PathIs
    <3>2. Len(k) = n /\ Len(k) < MaxGen
      BY <2>1, <3>1, TreeAssumption
    <3> QED
      BY <3>2, PathIs
  <2>4. Gen(k) <= generations /\ ~LastGen(k)
    <3>1. generations \in Nat /\ n + 2 <= generations
      BY <2>1, TreeAssumption DEF Gen, TreeInv
    <3> QED
      BY <2>1, <2>3, <3>1 DEF Gen, LastGen
  <2>5. Born(k)
    BY <2>3, <2>4
  <2>6. HasEnded(k)
    BY <2>3, <2>5 DEF AllEnded
  <2>7. Born(Child(k, side))
    BY <2>3, <2>4, <2>6 DEF BothBorn, HasEnded, Sides
  <2> QED
    BY <2>2, <2>7 DEF Child
<1>3. S = Nat
  BY <1>1, <1>2, SetInd
<1>4. Len(p) \in S
  BY <1>3, PathIs, LenProperties
<1> QED
  BY <1>4

\* When all have ended, each has written the lines above it and its own once.
LEMMA LinesAreCounted ==
  ASSUME TreeInv, BornDown, BothBorn, LinesInv, AllEnded
  PROVE  LinesRight
<1>1. ASSUME NEW p \in Paths
      PROVE  printed[p] = IF ~Born(p) THEN 0 ELSE IF tty THEN 1 ELSE Cardinality(Subtree(p))
  <2>1. CASE tty
    <3>1. Born(p) => HasEnded(p)
      BY DEF AllEnded
    <3> QED
      BY <2>1, <3>1 DEF LinesInv, Written, Born, HasEnded
  <2>2. CASE ~tty
    <3>1. printed[p] = Cardinality(EndedBelow(p))
      BY <2>2 DEF LinesInv, Written
    <3>2. CASE Born(p)
      <4>1. EndedBelow(p) = Subtree(p)
        BY DEF EndedBelow, AllThatEnded, Subtree, AllEnded, Born, HasEnded
      <4> QED
        BY <2>2, <3>1, <3>2, <4>1
    <3>3. CASE ~Born(p)
      <4>1. EndedBelow(p) = {}
        BY <3>3 DEF EndedBelow, AllThatEnded, BornDown, Born, HasEnded
      <4> QED
        BY <3>1, <3>3, <4>1, FS_EmptySet
    <3> QED
      BY <3>2, <3>3
  <2> QED
    BY <2>1, <2>2
<1>2. ASSUME ~forkFailed, NEW p \in Paths PROVE Born(p) <=> Gen(p) <= generations
  BY <1>2, AllAreBorn DEF TreeInv, InGenerations
<1> QED
  BY <1>1, <1>2 DEF LinesRight

\* tree_fork.c: when all processes have ended, the lines of one have been written
\* once on a terminal, and elsewhere by each of its descendants and itself, for
\* any number of generations and whichever forks fail.
THEOREM LinesAreRight ==
  TreeSpec => [](AllEnded => LinesRight)
<1>1. TreeInv /\ BornDown /\ BothBorn /\ LinesInv => (AllEnded => LinesRight)
  BY LinesAreCounted
<1>2. TreeInit => TreePrinted
  BY DEF TreeInit, TreePrinted
<1> QED
  BY <1>1, <1>2, LinesInitial, LinesStep, TreePrintedStep, TreeInductive, PTL DEF TreeSpec

-----------------------------------------------------------------------------
(* The file of counted lines *)

\* Nothing of a's line is in the file, or all of it in one piece.
NotIn(a) == \A i \in DOMAIN text : text[i][1] # a
WholeIn(a) ==
  \E i \in 0..Len(text) - lineLen[a] :
    SubSeq(text, i + 1, i + lineLen[a]) = Piece(a, 0, lineLen[a])

\* A line that fits the library's buffer is handed over in one go, at the end.
AppendInv ==
  /\ lineLen \in [Appenders -> LineLens] /\ flushed \in [Appenders -> Nat]
  /\ appPc \in [Appenders -> {"run", "closed", "dead"}]
  /\ text \in Seq(Appenders \X Nat)
  /\ \A a \in Appenders : flushed[a] <= lineLen[a]
  /\ \A a \in Appenders : Fits(a) =>
       /\ appPc[a] = "run" => flushed[a] = 0 /\ NotIn(a)
       /\ NotIn(a) \/ WholeIn(a)

\* What one call of write hands over: characters from + 1 up to to of a's line.
LEMMA PieceFacts ==
  ASSUME NEW a \in Appenders, NEW from \in Nat, NEW to \in Nat, from <= to
  PROVE  /\ Piece(a, from, to) \in Seq(Appenders \X Nat)
         /\ Len(Piece(a, from, to)) = to - from
         /\ \A i \in 1..to - from : Piece(a, from, to)[i] = <<a, from + i>>
<1>1. to - from \in Nat
  OBVIOUS
<1>2. Piece(a, from, to) \in [1..to - from -> Appenders \X Nat]
  BY <1>1 DEF Piece
<1>3. Piece(a, from, to) \in Seq(Appenders \X Nat)
  BY <1>1, <1>2, SeqDef
<1> QED
  BY <1>1, <1>2, <1>3 DEF Piece

\* A step of an appender or of the reader keeps the lines that fit whole.
LEMMA AppendStep ==
  AppendInv /\ [FileNext]_fileVars => AppendInv'
<1> SUFFICES ASSUME AppendInv, [FileNext]_fileVars PROVE AppendInv'
  OBVIOUS
<1>1. CASE UNCHANGED fileVars \/ readfile
  <2>1. UNCHANGED appVars
    BY <1>1 DEF fileVars, readfile, OpenText, getLineLen, GrowData, getline
  <2> QED
    BY <2>1 DEF appVars, AppendInv, Fits, NotIn, WholeIn
<1>2. ASSUME NEW a \in Appenders, AppenderDies(a) PROVE AppendInv'
  BY <1>2 DEF AppenderDies, AppendInv, Fits, NotIn, WholeIn
<1>3. ASSUME NEW a \in Appenders, appendfile_count(a) PROVE AppendInv'
  <2>n. PICK m : m = NextPiece(a)
    OBVIOUS
  <2>p. PICK piece : piece = Piece(a, flushed[a], m)
    OBVIOUS
  <2>1. /\ appPc[a] = "run" /\ text' = text \o piece
        /\ flushed' = [flushed EXCEPT ![a] = m]
        /\ appPc' = [appPc EXCEPT ![a] = IF m = lineLen[a] THEN "closed" ELSE "run"]
        /\ lineLen' = lineLen
    BY <1>3, <2>n, <2>p DEF appendfile_count
  <2>2. /\ \A b \in Appenders : lineLen[b] \in Nat \ {0, 1} /\ flushed[b] \in Nat
        /\ BufSize \in Nat \ {0} /\ flushed[a] <= lineLen[a]
    BY FileAssumption DEF AppendInv
  <2>3. m \in Nat /\ flushed[a] <= m /\ m <= lineLen[a]
    BY <2>n, <2>2 DEF NextPiece
  <2>4. /\ piece \in Seq(Appenders \X Nat) /\ Len(piece) = m - flushed[a]
        /\ \A i \in 1..m - flushed[a] : piece[i] = <<a, flushed[a] + i>>
    <3>1. flushed[a] \in Nat /\ m \in Nat /\ flushed[a] <= m
      BY <2>2, <2>3
    <3> QED
      BY ONLY <2>p, <3>1, PieceFacts
  <2>5. /\ text \in Seq(Appenders \X Nat) /\ Len(text) \in Nat /\ text' \in Seq(Appenders \X Nat)
        /\ Len(text') = Len(text) + Len(piece)
        /\ \A i \in 1..Len(text) + Len(piece) :
             text'[i] = IF i <= Len(text) THEN text[i] ELSE piece[i - Len(text)]
        /\ DOMAIN text = 1..Len(text) /\ DOMAIN text' = 1..Len(text')
    BY <2>1, <2>4, ConcatProperties, LenProperties DEF AppendInv
  <2>6. \A b \in Appenders : Fits(b)' <=> Fits(b)
    BY <2>1 DEF Fits
  <2>7. ASSUME NEW b \in Appenders, Fits(b), b # a
        PROVE  /\ appPc'[b] = "run" => flushed'[b] = 0 /\ NotIn(b)'
               /\ NotIn(b)' \/ WholeIn(b)'
    <3>1. /\ appPc[b] = "run" => flushed[b] = 0 /\ NotIn(b)
          /\ NotIn(b) \/ WholeIn(b)
      BY <2>7 DEF AppendInv
    <3>2. NotIn(b) => NotIn(b)'
      <4> SUFFICES ASSUME NotIn(b), NEW i \in 1..Len(text) + Len(piece) PROVE text'[i][1] # b
        BY <2>5 DEF NotIn
      <4>1. CASE i <= Len(text)
        <5>1. text'[i] = text[i] /\ i \in DOMAIN text
          BY <2>5, <4>1
        <5> QED
          BY <5>1 DEF NotIn
      <4>2. CASE ~(i <= Len(text))
        <5>1. i - Len(text) \in 1..m - flushed[a] /\ text'[i] = piece[i - Len(text)]
          BY <2>2, <2>3, <2>4, <2>5, <4>2, SMTT(30)
        <5>2. text'[i] = <<a, flushed[a] + (i - Len(text))>>
          BY <2>4, <5>1
        <5> QED
          BY <2>7, <5>2
      <4> QED
        BY <4>1, <4>2
    <3>3. WholeIn(b) => WholeIn(b)'
      <4> SUFFICES ASSUME NEW i \in 0..Len(text) - lineLen[b],
                          SubSeq(text, i + 1, i + lineLen[b]) = Piece(b, 0, lineLen[b])
                   PROVE  WholeIn(b)'
        BY DEF WholeIn
      <4>1. SubSeq(text', i + 1, i + lineLen[b]) = SubSeq(text, i + 1, i + lineLen[b])
        <5>0. lineLen[b] \in Nat /\ lineLen[b] > 1 /\ Len(text) \in Nat
          <6>1. lineLen[b] \in Nat \ {0, 1}
            BY <2>2, Zenon
          <6>2. Len(text) \in Nat
            BY <2>5, Zenon
          <6> QED
            BY ONLY <6>1, <6>2
        <5>1. i + 1 \in 1..Len(text) /\ i + lineLen[b] \in 1..Len(text)
          BY ONLY <5>0, i \in 0..Len(text) - lineLen[b]
        <5>2. SubSeq(text \o piece, i + 1, i + lineLen[b]) = SubSeq(text, i + 1, i + lineLen[b])
          BY <2>4, <2>5, <5>1, SubSeqOfConcat1
        <5> QED
          BY <2>1, <5>2
      <4>2. i \in 0..Len(text') - lineLen[b]
        <5>1. Len(piece) \in Nat /\ lineLen[b] \in Nat /\ Len(text') = Len(text) + Len(piece)
          BY <2>2, <2>3, <2>4, <2>5
        <5> QED
          BY <2>5, <5>1
      <4> QED
        BY <2>1, <4>1, <4>2 DEF WholeIn, Piece
    <3>4. appPc'[b] = appPc[b] /\ flushed'[b] = flushed[b]
      BY <2>1, <2>7 DEF AppendInv
    <3> QED
      BY <3>1, <3>2, <3>3, <3>4
  <2>8. ASSUME Fits(a)
        PROVE  /\ appPc'[a] = "run" => flushed'[a] = 0 /\ NotIn(a)'
               /\ NotIn(a)' \/ WholeIn(a)'
    <3>1. flushed[a] = 0 /\ m = lineLen[a]
      BY <2>1, <2>2, <2>8, <2>n DEF AppendInv, Fits, NextPiece
    <3>2. appPc'[a] = "closed"
      BY <2>1, <3>1 DEF AppendInv
    <3>3. Len(piece) = lineLen[a] /\ piece = Piece(a, 0, lineLen[a])
      BY <2>2, <2>4, <2>p, <3>1
    <3>4. SubSeq(text', Len(text) + 1, Len(text) + lineLen[a]) = piece
      <4>x. PICK x : x = Len(text) + 1
        OBVIOUS
      <4>y. PICK y : y = Len(text) + lineLen[a]
        OBVIOUS
      <4>1. /\ x \in Len(text) + 1..Len(text) + Len(piece) /\ x - Len(text) = 1
            /\ y \in Len(text) + 1..Len(text) + Len(piece) /\ y - Len(text) = Len(piece)
        BY <2>2, <2>5, <3>3, <4>x, <4>y
      <4>2. SubSeq(text \o piece, x, y) = SubSeq(piece, x - Len(text), y - Len(text))
        <5>1. text \in Seq(Appenders \X Nat) /\ piece \in Seq(Appenders \X Nat)
          BY <2>4, <2>5
        <5> QED
          BY ONLY <4>1, <5>1, SubSeqOfConcat2
      <4> QED
        BY <2>1, <2>4, <4>x, <4>y, <4>1, <4>2, SubSeqFull
    <3>5. Len(text) \in 0..Len(text') - lineLen[a]
      BY <2>2, <2>5, <3>3
    <3>6. WholeIn(a)'
      BY <2>1, <3>3, <3>4, <3>5 DEF WholeIn, Piece
    <3> QED
      BY <3>2, <3>6
  <2>9. /\ flushed' \in [Appenders -> Nat]
        /\ appPc' \in [Appenders -> {"run", "closed", "dead"}]
        /\ \A b \in Appenders : flushed'[b] <= lineLen'[b]
    BY <2>1, <2>2, <2>3 DEF AppendInv
  <2>10. \A b \in Appenders : Fits(b)' =>
           /\ appPc'[b] = "run" => flushed'[b] = 0 /\ NotIn(b)'
           /\ NotIn(b)' \/ WholeIn(b)'
    BY <2>6, <2>7, <2>8, Zenon
  <2> QED
    BY <2>1, <2>5, <2>9, <2>10 DEF AppendInv
<1> QED
  BY <1>1, <1>2, <1>3 DEF FileNext

\* Before the first write the file is empty.
LEMMA AppendInitial == FileInit => AppendInv
<1> SUFFICES ASSUME FileInit PROVE AppendInv
  OBVIOUS
<1>1. text = <<>> /\ text \in Seq(Appenders \X Nat) /\ Len(text) = 0
  BY EmptySeq DEF FileInit
<1>2. DOMAIN text = {}
  BY <1>1, LenProperties
<1> QED
  <2>1. \A a \in Appenders : NotIn(a)
    BY <1>2 DEF NotIn
  <2>2. /\ lineLen \in [Appenders -> LineLens] /\ flushed = [a \in Appenders |-> 0]
        /\ appPc = [a \in Appenders |-> "run"]
    BY DEF FileInit
  <2>3. \A a \in Appenders : flushed[a] = 0 /\ lineLen[a] \in Nat
    BY <2>2, FileAssumption
  <2> QED
    BY <1>1, <2>1, <2>2, <2>3 DEF AppendInv

\* The lines of appendfile_count.c that fit the C library's buffer are in the file
\* as a whole or not at all, for any number of appenders, kills and line lengths.
THEOREM AppendIsWhole ==
  FileSpec => []AppendWhole
<1>1. AppendInv => AppendWhole
  BY DEF AppendInv, AppendWhole, NotIn, WholeIn
<1> QED
  BY <1>1, AppendInitial, AppendStep, PTL DEF FileSpec

-----------------------------------------------------------------------------
\* w[i] is the lines that begin in the first i characters of t, up to k.
LinesRec(t, w, k) ==
  /\ w \in [0..k -> Seq(Appenders)] /\ w[0] = <<>>
  /\ \A i \in 1..k : w[i] = IF t[i][2] = 1 THEN Append(w[i - 1], t[i][1]) ELSE w[i - 1]

\* There is such a sequence for every k, by induction on k.
LEMMA LinesExist ==
  ASSUME NEW t \in Seq(Appenders \X Nat), NEW k \in Nat, k <= Len(t)
  PROVE  \E w : LinesRec(t, w, k)
<1> DEFINE S == {n \in Nat : n <= Len(t) => \E w : LinesRec(t, w, n)}
<1>1. 0 \in S
  <2>1. PICK w : w = [i \in 0..0 |-> <<>>]
    OBVIOUS
  <2>2. w \in [0..0 -> Seq(Appenders)] /\ w[0] = <<>>
    BY <2>1, EmptySeq
  <2>3. LinesRec(t, w, 0)
    BY <2>2 DEF LinesRec
  <2> QED
    BY <2>3
<1>2. ASSUME NEW n \in S PROVE n + 1 \in S
  <2> SUFFICES ASSUME n + 1 <= Len(t) PROVE \E w : LinesRec(t, w, n + 1)
    OBVIOUS
  <2>0. n \in Nat /\ n <= Len(t) /\ n + 1 \in 1..Len(t) /\ n \in 0..n
    BY LenProperties
  <2>1. PICK w : LinesRec(t, w, n)
    BY <2>0
  <2>2. PICK l : l = IF t[n + 1][2] = 1 THEN Append(w[n], t[n + 1][1]) ELSE w[n]
    OBVIOUS
  <2>3. PICK v : v = [i \in 0..n + 1 |-> IF i <= n THEN w[i] ELSE l]
    OBVIOUS
  <2>4. w \in [0..n -> Seq(Appenders)] /\ w[n] \in Seq(Appenders)
    BY <2>0, <2>1 DEF LinesRec
  <2>5. t[n + 1] \in Appenders \X Nat
    BY <2>0, ElementOfSeq
  <2>6. l \in Seq(Appenders)
    <3>1. t[n + 1][1] \in Appenders
      BY <2>5
    <3> QED
      BY <2>2, <2>4, <3>1, AppendProperties
  <2>7. v \in [0..n + 1 -> Seq(Appenders)] /\ v[0] = <<>>
    BY <2>0, <2>1, <2>3, <2>4, <2>6 DEF LinesRec
  <2>8. ASSUME NEW i \in 1..n + 1
        PROVE  v[i] = IF t[i][2] = 1 THEN Append(v[i - 1], t[i][1]) ELSE v[i - 1]
    <3>1. v[i - 1] = w[i - 1]
      BY <2>0, <2>3
    <3>2. CASE i <= n
      <4>1. i \in 1..n /\ v[i] = w[i]
        BY <2>0, <2>3, <3>2
      <4> QED
        BY <2>1, <3>1, <4>1 DEF LinesRec
    <3>3. CASE i = n + 1
      <4>1. v[i] = l /\ i - 1 = n
        BY <2>0, <2>3, <3>3
      <4> QED
        BY <2>2, <3>1, <3>3, <4>1
    <3> QED
      BY <2>0, <3>2, <3>3
  <2>9. LinesRec(t, v, n + 1)
    BY <2>7, <2>8 DEF LinesRec
  <2> QED
    BY <2>9
<1>3. S = Nat
  BY <1>1, <1>2, SetInd
<1> QED
  BY <1>3

\* The recursive function LinesIn is such a sequence.
LEMMA LinesRecursion ==
  ASSUME NEW t \in Seq(Appenders \X Nat)
  PROVE  LinesRec(t, LinesIn(t), Len(t))
<1>0. Len(t) \in Nat
  BY LenProperties
<1>1. PICK w : LinesRec(t, w, Len(t))
  BY <1>0, LinesExist
<1>2. w = [m \in 0..Len(t) |-> IF m = 0 THEN <<>> ELSE
            IF t[m][2] = 1 THEN Append(w[m - 1], t[m][1]) ELSE w[m - 1]]
  <2>1. w = [m \in 0..Len(t) |-> w[m]]
    BY <1>1 DEF LinesRec
  <2>2. ASSUME NEW m \in 0..Len(t)
        PROVE  w[m] = IF m = 0 THEN <<>> ELSE
                        IF t[m][2] = 1 THEN Append(w[m - 1], t[m][1]) ELSE w[m - 1]
    <3>1. CASE m = 0
      BY <1>1, <3>1 DEF LinesRec
    <3>2. CASE m # 0
      <4>1. m \in 1..Len(t)
        BY <1>0, <3>2
      <4> QED
        BY <1>1, <3>2, <4>1, Zenon DEF LinesRec
    <3> QED
      BY <3>1, <3>2
  <2> QED
    BY <2>1, <2>2, Zenon
<1>3. LinesIn(t) = [m \in 0..Len(t) |-> IF m = 0 THEN <<>> ELSE
            IF t[m][2] = 1 THEN Append(LinesIn(t)[m - 1], t[m][1]) ELSE LinesIn(t)[m - 1]]
  BY <1>2, Zenon DEF LinesIn
<1>f. PICK f : f = LinesIn(t)
  OBVIOUS
<1>4. /\ f[0] = <<>>
      /\ \A i \in 1..Len(t) : f[i] = IF t[i][2] = 1 THEN Append(f[i - 1], t[i][1]) ELSE f[i - 1]
  <2>1. \A m \in 0..Len(t) : f[m] = IF m = 0 THEN <<>> ELSE
            IF t[m][2] = 1 THEN Append(f[m - 1], t[m][1]) ELSE f[m - 1]
    BY <1>3, <1>f, Zenon
  <2>2. 0 \in 0..Len(t) /\ \A i \in 1..Len(t) : i \in 0..Len(t) /\ i # 0
    BY <1>0
  <2> QED
    BY <2>1, <2>2, Zenon
<1> DEFINE S == {n \in Nat : n <= Len(t) => f[n] \in Seq(Appenders)}
<1>5. 0 \in S
  BY <1>4, EmptySeq
<1>6. ASSUME NEW n \in S PROVE n + 1 \in S
  <2> SUFFICES ASSUME n + 1 <= Len(t) PROVE f[n + 1] \in Seq(Appenders)
    OBVIOUS
  <2>1. n + 1 \in 1..Len(t) /\ (n + 1) - 1 = n /\ n <= Len(t)
    BY <1>0
  <2>2. f[n + 1] = IF t[n + 1][2] = 1 THEN Append(f[n], t[n + 1][1]) ELSE f[n]
    BY <1>4, <2>1
  <2>3. f[n] \in Seq(Appenders)
    BY <2>1
  <2>4. t[n + 1][1] \in Appenders
    BY <2>1, ElementOfSeq
  <2> QED
    BY <2>2, <2>3, <2>4, AppendProperties
<1>7. S = Nat
  BY <1>5, <1>6, SetInd
<1>8. \A m \in 0..Len(t) : f[m] \in Seq(Appenders)
  BY <1>0, <1>7
<1>9. f \in [0..Len(t) -> Seq(Appenders)]
  BY <1>3, <1>8, <1>f, Zenon
<1> QED
  BY <1>4, <1>9, <1>f DEF LinesRec

\* What is appended does not change the lines before it.
LEMMA LinesStay ==
  ASSUME NEW t \in Seq(Appenders \X Nat), NEW u \in Seq(Appenders \X Nat),
         Len(t) <= Len(u), \A i \in 1..Len(t) : u[i] = t[i]
  PROVE  \A n \in 0..Len(t) : LinesIn(u)[n] = LinesIn(t)[n]
<1>f. PICK f : f = LinesIn(t)
  OBVIOUS
<1>g. PICK g : g = LinesIn(u)
  OBVIOUS
<1>0. Len(t) \in Nat /\ Len(u) \in Nat /\ LinesRec(t, f, Len(t)) /\ LinesRec(u, g, Len(u))
  BY <1>f, <1>g, LenProperties, LinesRecursion
<1> DEFINE S == {n \in Nat : n <= Len(t) => f[n] = g[n]}
<1>1. 0 \in S
  BY <1>0 DEF LinesRec
<1>2. ASSUME NEW n \in S PROVE n + 1 \in S
  <2> SUFFICES ASSUME n + 1 <= Len(t) PROVE f[n + 1] = g[n + 1]
    OBVIOUS
  <2>1. n + 1 \in 1..Len(t) /\ n + 1 \in 1..Len(u) /\ (n + 1) - 1 = n /\ n <= Len(t)
    BY <1>0
  <2>2. /\ f[n + 1] = IF t[n + 1][2] = 1 THEN Append(f[n], t[n + 1][1]) ELSE f[n]
        /\ g[n + 1] = IF u[n + 1][2] = 1 THEN Append(g[n], u[n + 1][1]) ELSE g[n]
    BY <1>0, <2>1 DEF LinesRec
  <2>3. f[n] = g[n] /\ u[n + 1] = t[n + 1]
    BY <2>1
  <2> QED
    BY <2>2, <2>3
<1>3. S = Nat
  BY <1>1, <1>2, SetInd
<1> QED
  BY <1>0, <1>3, <1>f, <1>g

\* Where a line begins it is there as a whole, and behind it another begins.
LineFrom(t, i) ==
  t[i][2] = 1 =>
    /\ i + lineLen[t[i][1]] <= Len(t) + 1
    /\ \A k \in i..i + lineLen[t[i][1]] - 1 : t[k] = <<t[i][1], k - i + 1>>
StartsAt(t, i) == i <= Len(t) => t[i][2] = 1
WholeLines(t) ==
  /\ StartsAt(t, 1)
  /\ \A i \in 1..Len(t) :
       LineFrom(t, i) /\ (t[i][2] = 1 => StartsAt(t, i + lineLen[t[i][1]]))

\* The last line printed made the buffer as large as it is.
LastMade ==
  output # <<>> /\ capacity = 2 * (lineLen[output[Len(output)]] - 1)

\* In the middle of a line, and between two lines.
InLine ==
  rdPc \in {"alloc", "getline"} /\ ~eof =>
    /\ pos \in 1..Len(text) /\ text[pos][2] = 1 /\ len = lineLen[text[pos][1]] - 1
    /\ output = LinesIn(text)[pos - 1]
BetweenLines ==
  (rdPc = "count" /\ ~eof) \/ (rdPc \in {"alloc", "getline"} /\ eof) =>
    StartsAt(text, pos + 1) /\ output = LinesIn(text)[pos]
AtEnd ==
  /\ (rdPc = "count" /\ eof) \/ rdPc = "ended" => eof /\ output = Append(LinesIn(text)[pos], Old)
  /\ rdPc \in {"alloc", "getline"} /\ eof => len = 0
Buffer ==
  /\ rdPc \in {"open", "count", "alloc"} /\ ~eof => (output = <<>> /\ maxlen = 0) \/ LastMade
  /\ rdPc = "getline" /\ ~eof => capacity = len \/ LastMade

\* The inductive invariant of the reader, beside the one of the appenders.
ReadInv ==
  /\ rdPc \in {"open", "count", "alloc", "getline", "ended", "dead"}
  /\ pos \in 0..Len(text) /\ {eof, overrun} \subseteq BOOLEAN
  /\ {len, maxlen, capacity} \subseteq Nat /\ output \in Seq(Appenders \cup {Old})
  /\ rdPc \in {"open", "dead"} => pos = 0 /\ ~eof /\ output = <<>> /\ ~overrun /\ maxlen = 0
  /\ rdPc \notin {"open", "dead"} => \A a \in Appenders : Fits(a)
  /\ (\A a \in Appenders : Fits(a)) => WholeLines(text)
  /\ InLine /\ BetweenLines /\ AtEnd /\ Buffer /\ BufferFits

\* An interval that does not reach the end of a larger one ends within it.
LEMMA EndsWithin ==
  ASSUME NEW x \in Nat, NEW y \in Nat, NEW z \in Nat, x + y <= z + 1, x + y # z + 1, y > 1
  PROVE  x + y <= z /\ x + y \in 1..z
OBVIOUS

\* A line appended to whole lines is one more.
LEMMA WholeGrows ==
  ASSUME NEW t \in Seq(Appenders \X Nat), NEW u \in Seq(Appenders \X Nat), NEW a \in Appenders,
         \A b \in Appenders : lineLen[b] \in Nat \ {0, 1},
         WholeLines(t), Len(u) = Len(t) + lineLen[a], \A i \in 1..Len(t) : u[i] = t[i],
         \A k \in Len(t) + 1..Len(u) : u[k] = <<a, k - Len(t)>>
  PROVE  WholeLines(u) /\ StartsAt(u, Len(t) + 1)
<1>a. PICK n : n = lineLen[a]
  OBVIOUS
<1>b. Len(t) \in Nat /\ Len(u) \in Nat /\ n \in Nat /\ n > 1 /\ Len(u) = Len(t) + n
  BY <1>a, LenProperties, SMTT(30)
<1>0. /\ Len(t) \in Nat /\ Len(u) \in Nat /\ lineLen[a] \in Nat /\ lineLen[a] > 1
      /\ \A i \in 1..Len(t) : t[i][1] \in Appenders
  BY LenProperties, ElementOfSeq
<1>1. StartsAt(u, Len(t) + 1)
  <2>1. Len(t) + 1 \in Len(t) + 1..Len(u) /\ (Len(t) + 1) - Len(t) = 1
    BY <1>0
  <2>2. u[Len(t) + 1] = <<a, 1>>
    BY <2>1
  <2> QED
    BY <2>2 DEF StartsAt
<1>2. StartsAt(u, 1)
  <2>1. CASE Len(t) = 0
    BY <1>0, <1>1, <2>1
  <2>2. CASE Len(t) # 0
    <3>1. 1 \in 1..Len(t) /\ 1 <= Len(t)
      BY <1>0, <2>2
    <3> QED
      BY <3>1 DEF WholeLines, StartsAt
  <2> QED
    BY <2>1, <2>2
<1>3. ASSUME NEW i \in 1..Len(u), u[i][2] = 1
      PROVE  LineFrom(u, i) /\ StartsAt(u, i + lineLen[u[i][1]])
  <2>1. CASE i \in 1..Len(t)
    <3>1. u[i] = t[i] /\ t[i][2] = 1 /\ t[i][1] \in Appenders
      BY <1>0, <1>3, <2>1
    <3>2. LineFrom(t, i) /\ StartsAt(t, i + lineLen[t[i][1]])
      BY <2>1, <3>1 DEF WholeLines
    <3>l. PICK l : l = lineLen[t[i][1]]
      OBVIOUS
    <3>3. l \in Nat /\ l > 1 /\ i + l <= Len(t) + 1 /\ i \in Nat /\ i > 0
      <4>1. l \in Nat \ {0, 1} /\ i \in Nat /\ i > 0
        BY <2>1, <3>1, <3>l
      <4>2. i + l <= Len(t) + 1
        BY <3>1, <3>2, <3>l DEF LineFrom
      <4> QED
        BY <4>1, <4>2
    <3>4. \A k \in i..i + l - 1 : t[k] = <<t[i][1], k - i + 1>>
      BY <3>1, <3>2, <3>l DEF LineFrom
    <3>5. \A k \in i..i + l - 1 : k \in 1..Len(t)
      BY <1>0, <3>3
    <3>6. \A k \in i..i + l - 1 : u[k] = <<u[i][1], k - i + 1>>
      BY <3>1, <3>4, <3>5
    <3>7. LineFrom(u, i)
      <4>1. i + l <= Len(u) + 1
        BY <1>0, <3>3
      <4> QED
        BY <3>1, <3>l, <3>6, <4>1 DEF LineFrom
    <3>8. StartsAt(u, i + l)
      <4>1. CASE i + l = Len(t) + 1
        BY <1>1, <4>1
      <4>2. CASE i + l # Len(t) + 1
        <5>1. i + l <= Len(t) /\ i + l \in 1..Len(t)
          BY <1>b, <3>3, <4>2, EndsWithin
        <5>2. t[i + l][2] = 1
          BY <3>2, <3>l, <5>1 DEF StartsAt
        <5> QED
          BY <5>1, <5>2 DEF StartsAt
      <4> QED
        BY <4>1, <4>2
    <3> QED
      BY <3>1, <3>l, <3>7, <3>8
  <2>2. CASE i \notin 1..Len(t)
    <3>1. i \in Len(t) + 1..Len(u)
      BY <1>0, <2>2
    <3>2. u[i] = <<a, i - Len(t)>>
      BY <3>1
    <3>3. i = Len(t) + 1 /\ u[i][1] = a
      BY <1>0, <1>3, <3>1, <3>2
    <3>4. \A k \in i..i + n - 1 : k \in Len(t) + 1..Len(u) /\ k - Len(t) = k - i + 1
      BY ONLY <1>b, <3>3
    <3>5. \A k \in i..i + n - 1 : u[k] = <<a, k - i + 1>>
      BY <3>4
    <3>6. i + n = Len(u) + 1
      BY ONLY <1>b, <3>3
    <3>7. LineFrom(u, i)
      <4>1. i + n <= Len(u) + 1
        BY ONLY <1>b, <3>6
      <4> QED
        BY <1>a, <3>3, <3>5, <4>1 DEF LineFrom
    <3>8. StartsAt(u, i + n)
      BY ONLY <1>b, <3>6 DEF StartsAt
    <3> QED
      BY <1>a, <3>3, <3>7, <3>8
  <2> QED
    BY <2>1, <2>2
<1> QED
  BY <1>1, <1>2, <1>3 DEF WholeLines, LineFrom

\* One appender's step leaves what the reader has read.
LEMMA AppendRead ==
  ASSUME AppendInv, ReadInv, NEW a \in Appenders, appendfile_count(a)
  PROVE  ReadInv'
<1>n. PICK m : m = NextPiece(a)
  OBVIOUS
<1>p. PICK piece : piece = Piece(a, flushed[a], m)
  OBVIOUS
<1>1. appPc[a] = "run" /\ text' = text \o piece /\ lineLen' = lineLen /\ UNCHANGED readVars
  BY <1>n, <1>p DEF appendfile_count
<1>2. /\ \A b \in Appenders : lineLen[b] \in Nat \ {0, 1} /\ flushed[b] \in Nat
      /\ BufSize \in Nat \ {0} /\ flushed[a] <= lineLen[a]
  BY FileAssumption DEF AppendInv
<1>3. m \in Nat /\ flushed[a] <= m /\ m <= lineLen[a] /\ flushed[a] \in Nat
  BY <1>n, <1>2 DEF NextPiece
<1>4. /\ piece \in Seq(Appenders \X Nat) /\ Len(piece) = m - flushed[a]
      /\ \A i \in 1..m - flushed[a] : piece[i] = <<a, flushed[a] + i>>
  BY ONLY <1>p, <1>3, PieceFacts
<1>5. /\ text \in Seq(Appenders \X Nat) /\ Len(text) \in Nat /\ text' \in Seq(Appenders \X Nat)
      /\ Len(text') = Len(text) + Len(piece)
      /\ \A i \in 1..Len(text) + Len(piece) :
           text'[i] = IF i <= Len(text) THEN text[i] ELSE piece[i - Len(text)]
  BY <1>1, <1>4, ConcatProperties, LenProperties DEF AppendInv
<1>6. Len(text) <= Len(text') /\ Len(text') \in Nat /\ \A i \in 1..Len(text) : text'[i] = text[i]
  <2>1. Len(piece) \in Nat
    BY <1>3, <1>4
  <2> QED
    BY <1>5, <2>1
<1>7. \A k \in 0..Len(text) : LinesIn(text')[k] = LinesIn(text)[k]
  BY <1>5, <1>6, LinesStay
<1>8. ASSUME \A b \in Appenders : Fits(b) PROVE WholeLines(text') /\ StartsAt(text', Len(text) + 1)
  <2>1. Fits(a) /\ flushed[a] = 0 /\ m = lineLen[a]
    BY <1>n, <1>1, <1>2, <1>8 DEF AppendInv, Fits, NextPiece
  <2>2. Len(text') = Len(text) + lineLen[a]
    BY <1>2, <1>4, <1>5, <2>1
  <2>3. ASSUME NEW k \in Len(text) + 1..Len(text') PROVE text'[k] = <<a, k - Len(text)>>
    <3>1. /\ k - Len(text) \in 1..m - flushed[a] /\ ~(k <= Len(text))
          /\ k \in 1..Len(text) + Len(piece)
      <4>1. m - flushed[a] = lineLen[a] /\ lineLen[a] \in Nat /\ Len(text) \in Nat
        BY <1>2, <1>5, <2>1
      <4>2. Len(piece) = lineLen[a]
        BY <1>2, <1>4, <2>1, <4>1
      <4>3. k \in Len(text) + 1..Len(text) + lineLen[a]
        BY <2>2
      <4>4. k - Len(text) \in 1..lineLen[a] /\ ~(k <= Len(text)) /\ k \in 1..Len(text) + lineLen[a]
        BY ONLY <4>1, <4>3
      <4> QED
        BY <4>1, <4>2, <4>4
    <3>2. /\ text'[k] = piece[k - Len(text)]
          /\ piece[k - Len(text)] = <<a, flushed[a] + (k - Len(text))>>
      BY <1>4, <1>5, <3>1
    <3>3. flushed[a] + (k - Len(text)) = k - Len(text)
      BY <2>1, <1>5
    <3> QED
      BY <3>2, <3>3
  <2>4. WholeLines(text)
    BY <1>8 DEF ReadInv
  <2> QED
    BY <1>2, <1>5, <1>6, <2>2, <2>3, <2>4, WholeGrows
<1>9. WholeLines(text')  => WholeLines(text)'
  BY <1>1 DEF WholeLines, LineFrom, StartsAt
<1>10. \A b \in Appenders : Fits(b)' <=> Fits(b)
  BY <1>1 DEF Fits
<1>11. pos \in 0..Len(text) /\ pos \in 0..Len(text')
  BY <1>5, <1>6 DEF ReadInv
<1>12. InLine'
  <2> SUFFICES ASSUME rdPc \in {"alloc", "getline"}, ~eof
               PROVE  /\ pos \in 1..Len(text') /\ text'[pos][2] = 1
                      /\ len = lineLen[text'[pos][1]] - 1 /\ output = LinesIn(text')[pos - 1]
    BY <1>1 DEF InLine, readVars
  <2>1. /\ pos \in 1..Len(text) /\ text[pos][2] = 1 /\ len = lineLen[text[pos][1]] - 1
        /\ output = LinesIn(text)[pos - 1]
    BY DEF ReadInv, InLine
  <2>2. pos - 1 \in 0..Len(text) /\ pos \in 1..Len(text')
    BY <1>5, <1>6, <2>1
  <2> QED
    BY <1>6, <1>7, <2>1, <2>2
<1>13. BetweenLines'
  <2> SUFFICES ASSUME (rdPc = "count" /\ ~eof) \/ (rdPc \in {"alloc", "getline"} /\ eof)
               PROVE  StartsAt(text', pos + 1) /\ output = LinesIn(text')[pos]
    BY <1>1 DEF BetweenLines, readVars, StartsAt
  <2>1. StartsAt(text, pos + 1) /\ output = LinesIn(text)[pos]
    BY DEF ReadInv, BetweenLines
  <2>2. \A b \in Appenders : Fits(b)
    BY DEF ReadInv
  <2>3. StartsAt(text', pos + 1)
    <3>1. CASE pos = Len(text)
      BY <1>8, <2>2, <3>1
    <3>2. CASE pos # Len(text)
      <4>1. pos + 1 \in 1..Len(text) /\ pos + 1 <= Len(text)
        BY <1>5, <1>11, <3>2
      <4> QED
        BY <1>6, <2>1, <4>1 DEF StartsAt
    <3> QED
      BY <3>1, <3>2
  <2> QED
    BY <1>7, <1>11, <2>1, <2>3
<1>14. AtEnd'
  BY <1>1, <1>7, <1>11 DEF ReadInv, AtEnd, readVars
<1>15. Buffer' /\ BufferFits'
  BY <1>1 DEF ReadInv, Buffer, LastMade, BufferFits, readVars
<1> QED
  BY <1>1, <1>8, <1>9, <1>10, <1>11, <1>12, <1>13, <1>14, <1>15 DEF ReadInv, readVars

\* No line begins from one place to another: the same lines up to both.
LEMMA LinesSame ==
  ASSUME NEW t \in Seq(Appenders \X Nat), NEW i \in Nat, NEW j \in Nat, i <= j, j <= Len(t),
         \A k \in i + 1..j : t[k][2] # 1
  PROVE  LinesIn(t)[j] = LinesIn(t)[i]
<1>f. PICK f : f = LinesIn(t)
  OBVIOUS
<1>0. Len(t) \in Nat /\ LinesRec(t, f, Len(t))
  BY <1>f, LenProperties, LinesRecursion
<1> DEFINE S == {n \in Nat : i <= n /\ n <= j => f[n] = f[i]}
<1>1. 0 \in S
  OBVIOUS
<1>2. ASSUME NEW n \in S PROVE n + 1 \in S
  <2> SUFFICES ASSUME i <= n + 1, n + 1 <= j PROVE f[n + 1] = f[i]
    OBVIOUS
  <2>1. CASE i = n + 1
    BY <2>1
  <2>2. CASE i # n + 1
    <3>1. n + 1 \in 1..Len(t) /\ n + 1 \in i + 1..j /\ (n + 1) - 1 = n /\ i <= n /\ n <= j
      BY <1>0, <2>2
    <3>2. f[n + 1] = f[n]
      BY <1>0, <3>1 DEF LinesRec
    <3> QED
      BY <3>1, <3>2
  <2> QED
    BY <2>1, <2>2
<1>3. S = Nat
  BY <1>1, <1>2, SetInd
<1> QED
  BY <1>3, <1>f

\* The variables and their types, and the lines there are.
LEMMA ReadTypes ==
  ASSUME AppendInv, ReadInv
  PROVE  /\ \A b \in Appenders : lineLen[b] \in Nat \ {0, 1}
         /\ text \in Seq(Appenders \X Nat) /\ Len(text) \in Nat
         /\ \A i \in 1..Len(text) : text[i][1] \in Appenders
         /\ pos \in Nat /\ pos <= Len(text)
         /\ LinesIn(text)[0] = <<>> /\ \A i \in 0..Len(text) : LinesIn(text)[i] \in Seq(Appenders)
<1>1. text \in Seq(Appenders \X Nat) /\ Len(text) \in Nat
  BY LenProperties DEF AppendInv
<1>2. LinesRec(text, LinesIn(text), Len(text))
  BY <1>1, LinesRecursion
<1>3. \A i \in 1..Len(text) : text[i][1] \in Appenders
  BY <1>1, ElementOfSeq
<1>4. pos \in Nat /\ pos <= Len(text)
  BY <1>1 DEF ReadInv
<1>5. \A b \in Appenders : lineLen[b] \in Nat \ {0, 1}
  BY FileAssumption DEF AppendInv
<1> QED
  BY <1>1, <1>2, <1>3, <1>4, <1>5 DEF LinesRec

\* read_file.c opens the file: nothing has been read.
LEMMA OpenReads ==
  ASSUME AppendInv, ReadInv, OpenText PROVE ReadInv'
<1>1. /\ rdPc = "open" /\ rdPc' \in {"count", "dead"} /\ \A a \in Appenders : Fits(a)
      /\ UNCHANGED <<lineLen, text, pos, eof, len, maxlen, capacity, output, overrun>>
      /\ pos = 0 /\ ~eof /\ output = <<>> /\ ~overrun /\ maxlen = 0
  BY DEF OpenText, appVars, ReadInv
<1>2. WholeLines(text) /\ LinesIn(text)[0] = <<>>
  BY <1>1, ReadTypes DEF ReadInv
<1>3. BetweenLines'
  BY <1>1, <1>2 DEF BetweenLines, WholeLines, StartsAt
<1>4. InLine' /\ AtEnd' /\ Buffer' /\ BufferFits'
  BY <1>1 DEF InLine, AtEnd, Buffer, BufferFits
<1> QED
  BY <1>1, <1>2, <1>3, <1>4 DEF ReadInv, Fits, WholeLines, LineFrom, StartsAt

\* The scan for a newline finds the line that begins here, or the end of the file.
LEMMA CountReads ==
  ASSUME AppendInv, ReadInv, getLineLen PROVE ReadInv'
<1>1. /\ rdPc = "count" /\ UNCHANGED <<lineLen, text, maxlen, capacity, output, overrun>>
      /\ \/ eof /\ rdPc' = "ended" /\ UNCHANGED <<pos, eof, len>>
         \/ /\ ~eof /\ pos < Len(text) /\ rdPc' = "alloc" /\ pos' = pos + 1
            /\ len' = lineLen[text[pos + 1][1]] - 1 /\ eof' = eof
         \/ ~eof /\ pos = Len(text) /\ rdPc' = "alloc" /\ eof' = TRUE /\ len' = 0 /\ pos' = pos
  BY DEF getLineLen, Feof, appVars
<1>2. /\ \A a \in Appenders : Fits(a) /\ Fits(a)'
      /\ WholeLines(text) /\ WholeLines(text)'
  BY <1>1 DEF ReadInv, Fits, WholeLines, LineFrom, StartsAt
<1>3. BufferFits'
  BY <1>1 DEF ReadInv, BufferFits
<1>4. CASE eof /\ rdPc' = "ended" /\ UNCHANGED <<pos, eof, len>>
  <2>1. InLine' /\ BetweenLines' /\ AtEnd' /\ Buffer'
    BY <1>1, <1>4 DEF ReadInv, InLine, BetweenLines, AtEnd, Buffer
  <2> QED
    BY <1>1, <1>2, <1>3, <1>4, <2>1 DEF ReadInv
<1>5. CASE /\ ~eof /\ pos < Len(text) /\ rdPc' = "alloc" /\ pos' = pos + 1
           /\ len' = lineLen[text[pos + 1][1]] - 1 /\ eof' = eof
  <2>1. /\ pos + 1 \in 1..Len(text) /\ pos + 1 \in 0..Len(text)
        /\ (pos + 1) - 1 = pos /\ pos + 1 <= Len(text)
    <3>1. ASSUME NEW x \in Nat, NEW y \in Nat, x < y
          PROVE  x + 1 \in 1..y /\ x + 1 \in 0..y /\ (x + 1) - 1 = x /\ x + 1 <= y
      BY <3>1
    <3>2. pos \in Nat /\ Len(text) \in Nat
      BY ReadTypes
    <3> QED
      BY <1>5, <3>1, <3>2
  <2>2. text[pos + 1][2] = 1 /\ output = LinesIn(text)[pos]
    BY <1>1, <1>5, <2>1 DEF ReadInv, BetweenLines, StartsAt
  <2>3. len' \in Nat
    BY <1>5, <2>1, ReadTypes, SMTT(30)
  <2>4. InLine'
    BY <1>1, <1>5, <2>1, <2>2 DEF InLine
  <2>5. BetweenLines' /\ AtEnd'
    BY <1>5 DEF BetweenLines, AtEnd
  <2>6. Buffer'
    BY <1>1, <1>5 DEF ReadInv, Buffer, LastMade
  <2> QED
    BY <1>1, <1>2, <1>3, <1>5, <2>1, <2>3, <2>4, <2>5, <2>6 DEF ReadInv
<1>6. CASE ~eof /\ pos = Len(text) /\ rdPc' = "alloc" /\ eof' = TRUE /\ len' = 0 /\ pos' = pos
  <2>1. InLine' /\ BetweenLines' /\ AtEnd' /\ Buffer'
    BY <1>1, <1>6 DEF ReadInv, InLine, BetweenLines, AtEnd, Buffer, StartsAt
  <2> QED
    BY <1>1, <1>2, <1>3, <1>6, <2>1 DEF ReadInv
<1> QED
  BY <1>1, <1>4, <1>5, <1>6

\* The buffer is made as large as the longest line found so far.
LEMMA GrowReads ==
  ASSUME AppendInv, ReadInv, GrowData PROVE ReadInv'
<1>1. /\ rdPc = "alloc" /\ rdPc' = "getline"
      /\ UNCHANGED <<lineLen, text, pos, eof, len, output, overrun>>
      /\ \/ len > maxlen /\ maxlen' = len /\ capacity' = len
         \/ len <= maxlen /\ maxlen' = maxlen /\ capacity' = capacity
  BY DEF GrowData, Grown, appVars
<1>2. /\ \A a \in Appenders : Fits(a) /\ Fits(a)'
      /\ WholeLines(text) /\ WholeLines(text)'
  BY <1>1 DEF ReadInv, Fits, WholeLines, LineFrom, StartsAt
<1>3. BufferFits'
  BY <1>1 DEF ReadInv, BufferFits
<1>4. InLine' /\ BetweenLines' /\ AtEnd'
  BY <1>1 DEF ReadInv, InLine, BetweenLines, AtEnd, StartsAt
<1>5. Buffer'
  <2> SUFFICES ASSUME ~eof PROVE capacity' = len \/ LastMade'
    BY <1>1 DEF Buffer
  <2>1. CASE capacity' = len
    BY <2>1
  <2>2. CASE len <= maxlen /\ capacity' = capacity
    <3>1. len = lineLen[text[pos][1]] - 1 /\ pos \in 1..Len(text)
      BY <1>1 DEF ReadInv, InLine
    <3>2. lineLen[text[pos][1]] \in Nat \ {0, 1}
      BY <3>1, ReadTypes
    <3>3. maxlen # 0
      BY <2>2, <3>1, <3>2
    <3> QED
      BY <1>1, <2>2, <3>3 DEF ReadInv, Buffer, LastMade
  <2> QED
    BY <1>1, <2>1, <2>2
<1>6. maxlen' \in Nat /\ capacity' \in Nat
  BY <1>1 DEF ReadInv
<1> QED
  BY <1>1, <1>2, <1>3, <1>4, <1>5, <1>6 DEF ReadInv

\* The line is read into the buffer and printed.
LEMMA GetlineReads ==
  ASSUME AppendInv, ReadInv, getline PROVE ReadInv'
<1>1. /\ rdPc = "getline" /\ rdPc' = "count" /\ UNCHANGED <<lineLen, text, eof, len, maxlen>>
      /\ \/ /\ ~eof /\ \E first \in 0..len - 1 : overrun' = (overrun \/ first > capacity)
            /\ pos' = pos + len /\ capacity' = 2 * len /\ output' = Append(output, text[pos][1])
         \/ /\ eof /\ capacity' = FirstAlloc /\ output' = Append(output, Old)
            /\ UNCHANGED <<pos, overrun>>
  BY DEF getline, appVars
<1>2. /\ \A a \in Appenders : Fits(a) /\ Fits(a)'
      /\ WholeLines(text) /\ WholeLines(text)'
  BY <1>1 DEF ReadInv, Fits, WholeLines, LineFrom, StartsAt
<1>3. output \in Seq(Appenders \cup {Old}) /\ Len(output) \in Nat
  BY LenProperties DEF ReadInv
<1>4. ASSUME NEW x \in Appenders \cup {Old}, output' = Append(output, x)
      PROVE  /\ output' \in Seq(Appenders \cup {Old}) /\ Len(output') = Len(output) + 1
             /\ output' # <<>> /\ output'[Len(output) + 1] = x
             /\ \A k \in 1..Len(output) : output'[k] = output[k]
             /\ overrun => BufferFits'
  <2>1. /\ output' \in Seq(Appenders \cup {Old}) /\ Len(output') = Len(output) + 1
        /\ output' # <<>> /\ output'[Len(output) + 1] = x
        /\ \A k \in 1..Len(output) : output'[k] = output[k]
    BY <1>3, <1>4, AppendProperties
  <2>2. ASSUME overrun PROVE BufferFits'
    <3>1. PICK k \in 2..Len(output) :
            output[k] # Old /\ 2 * lineLen[output[k - 1]] < lineLen[output[k]]
      BY <2>2 DEF ReadInv, BufferFits
    <3>2. k \in 1..Len(output) /\ k - 1 \in 1..Len(output) /\ k \in 2..Len(output')
      BY <1>3, <2>1
    <3>3. output'[k] = output[k] /\ output'[k - 1] = output[k - 1]
      BY <2>1, <3>2
    <3> QED
      BY <1>1, <3>1, <3>2, <3>3 DEF BufferFits
  <2> QED
    BY <2>1, <2>2
<1>5. CASE /\ ~eof /\ \E first \in 0..len - 1 : overrun' = (overrun \/ first > capacity)
           /\ pos' = pos + len /\ capacity' = 2 * len /\ output' = Append(output, text[pos][1])
  <2>a. PICK a : a = text[pos][1]
    OBVIOUS
  <2>l. PICK l : l = lineLen[a]
    OBVIOUS
  <2>1. /\ pos \in 1..Len(text) /\ text[pos][2] = 1 /\ len = l - 1
        /\ output = LinesIn(text)[pos - 1]
    BY <1>1, <1>5, <2>a, <2>l DEF ReadInv, InLine
  <2>2. a \in Appenders /\ l \in Nat \ {0, 1} /\ Len(text) \in Nat
    BY <2>1, <2>a, <2>l, ReadTypes
  <2>3. len \in Nat /\ len > 0 /\ pos' = pos + len /\ pos \in Nat /\ pos > 0
    BY <1>5, <2>1, <2>2
  <2>4. LineFrom(text, pos) /\ StartsAt(text, pos + l)
    BY <1>2, <2>1, <2>a, <2>l DEF WholeLines
  <2>5. pos + l <= Len(text) + 1 /\ \A k \in pos..pos + l - 1 : text[k] = <<a, k - pos + 1>>
    BY <2>1, <2>4, <2>a, <2>l DEF LineFrom
  <2>6. pos' \in 0..Len(text) /\ pos' + 1 = pos + l
    BY <2>1, <2>2, <2>3, <2>5
  <2>7. LinesIn(text)[pos'] = Append(LinesIn(text)[pos - 1], a)
    <3>1. LinesIn(text)[pos] = Append(LinesIn(text)[pos - 1], a)
      <4>1. LinesRec(text, LinesIn(text), Len(text))
        BY ReadTypes, LinesRecursion
      <4> QED
        BY <2>1, <2>a, <4>1 DEF LinesRec
    <3>p. PICK p : p = pos'
      OBVIOUS
    <3>2. ASSUME NEW k \in pos + 1..p PROVE text[k][2] # 1
      <4>1. k \in pos..pos + l - 1 /\ k - pos + 1 # 1
        BY <2>1, <2>2, <2>3, <3>p
      <4> QED
        BY <2>5, <4>1
    <3>3. LinesIn(text)[p] = LinesIn(text)[pos]
      <4>1. text \in Seq(Appenders \X Nat) /\ pos \in Nat /\ p \in Nat /\ pos <= p /\ p <= Len(text)
        BY <2>2, <2>3, <2>6, <3>p, ReadTypes
      <4> QED
        BY ONLY <3>2, <4>1, LinesSame
    <3> QED
      BY <3>1, <3>3, <3>p
  <2>8. BetweenLines'
    BY <1>1, <1>5, <2>1, <2>4, <2>6, <2>7, <2>a DEF BetweenLines, StartsAt
  <2>9. InLine' /\ AtEnd'
    BY <1>1, <1>5 DEF InLine, AtEnd
  <2>10. /\ output' \in Seq(Appenders \cup {Old}) /\ Len(output') = Len(output) + 1
         /\ output' # <<>> /\ output'[Len(output) + 1] = a
         /\ \A k \in 1..Len(output) : output'[k] = output[k]
         /\ overrun => BufferFits'
    BY <1>4, <1>5, <2>2, <2>a
  <2>11. capacity' = 2 * (l - 1) /\ output'[Len(output')] = a /\ lineLen'[a] = l
    BY <1>1, <1>5, <2>1, <2>10, <2>l
  <2>12. LastMade' /\ Buffer'
    BY <1>1, <2>10, <2>11 DEF LastMade, Buffer
  <2>13. ASSUME overrun', ~overrun PROVE BufferFits'
    <3>1. PICK first \in 0..len - 1 : first > capacity
      BY <1>5, <2>13
    <3>2. LastMade
      <4>1. capacity # len
        BY <2>3, <3>1 DEF ReadInv
      <4> QED
        BY <1>1, <1>5, <4>1 DEF ReadInv, Buffer
    <3>b. PICK b : b = output[Len(output)]
      OBVIOUS
    <3>3. Len(output) \in 1..Len(output) /\ output \in Seq(Appenders) /\ Len(output) > 0
      <4>1. pos - 1 \in 0..Len(text)
        BY <2>1, <2>2
      <4>2. output \in Seq(Appenders) /\ output # <<>>
        BY <2>1, <3>2, <4>1, ReadTypes DEF LastMade
      <4>3. Len(output) \in Nat \ {0}
        BY <4>2, EmptySeq
      <4> QED
        BY <4>2, <4>3
    <3>4. b \in Appenders /\ lineLen[b] \in Nat
      BY <3>3, <3>b, ElementOfSeq, ReadTypes
    <3>5. 2 * lineLen[b] < l
      <4>1. capacity = 2 * (lineLen[b] - 1)
        BY <3>2, <3>b DEF LastMade
      <4> QED
        BY <2>1, <2>2, <3>1, <3>4, <4>1
    <3>k. PICK k : k = Len(output) + 1
      OBVIOUS
    <3>6. k \in 2..Len(output') /\ k - 1 = Len(output)
      BY <1>3, <2>10, <3>3, <3>k
    <3>7. output'[k] = a /\ output'[k - 1] = b /\ a # Old
      BY <2>2, <2>10, <3>3, <3>6, <3>b, <3>k, FileAssumption
    <3>8. 2 * lineLen'[output'[k - 1]] < lineLen'[output'[k]]
      BY <1>1, <2>l, <3>5, <3>7
    <3> QED
      BY <3>6, <3>7, <3>8 DEF BufferFits
  <2>14. BufferFits'
    BY <2>10, <2>13 DEF BufferFits
  <2>15. overrun' \in BOOLEAN /\ capacity' \in Nat
    BY <1>5, <2>3 DEF ReadInv
  <2> QED
    BY <1>1, <1>2, <1>5, <2>6, <2>8, <2>9, <2>10, <2>12, <2>14, <2>15 DEF ReadInv
<1>6. CASE /\ eof /\ capacity' = FirstAlloc /\ output' = Append(output, Old)
           /\ UNCHANGED <<pos, overrun>>
  <2>1. InLine' /\ BetweenLines' /\ Buffer'
    BY <1>1, <1>6 DEF InLine, BetweenLines, Buffer
  <2>2. AtEnd'
    BY <1>1, <1>6 DEF ReadInv, BetweenLines, AtEnd
  <2>3. output' \in Seq(Appenders \cup {Old}) /\ (overrun => BufferFits')
    BY <1>4, <1>6
  <2>4. BufferFits'
    BY <1>6, <2>3 DEF BufferFits
  <2> QED
    BY <1>1, <1>2, <1>6, <2>1, <2>2, <2>3, <2>4, FileAssumption DEF ReadInv
<1> QED
  BY <1>1, <1>5, <1>6

\* Every step keeps the invariant of the reader.
LEMMA ReadStep ==
  AppendInv /\ ReadInv /\ [FileNext]_fileVars => ReadInv'
<1> SUFFICES ASSUME AppendInv, ReadInv, [FileNext]_fileVars PROVE ReadInv'
  OBVIOUS
<1>1. CASE UNCHANGED fileVars \/ \E a \in Appenders : AppenderDies(a)
  <2>1. UNCHANGED <<lineLen, text, readVars>>
    BY <1>1 DEF fileVars, appVars, AppenderDies
  <2> QED
    BY <2>1 DEF readVars, ReadInv, Fits, WholeLines, LineFrom, StartsAt, InLine, BetweenLines,
       AtEnd, Buffer, LastMade, BufferFits
<1>2. ASSUME NEW a \in Appenders, appendfile_count(a) PROVE ReadInv'
  BY <1>2, AppendRead
<1>3. CASE readfile
  BY <1>3, OpenReads, CountReads, GrowReads, GetlineReads DEF readfile
<1> QED
  BY <1>1, <1>2, <1>3 DEF FileNext

\* Before read_file.c starts nothing has been read.
LEMMA ReadInitial == FileInit => ReadInv
<1> SUFFICES ASSUME FileInit PROVE ReadInv
  OBVIOUS
<1>1. /\ text = <<>> /\ Len(text) = 0 /\ output = <<>> /\ output \in Seq(Appenders \cup {Old})
      /\ rdPc = "open" /\ pos = 0 /\ eof = FALSE /\ overrun = FALSE
      /\ len = 0 /\ maxlen = 0 /\ capacity = 0
  BY EmptySeq DEF FileInit
<1>2. WholeLines(text)
  BY <1>1 DEF WholeLines, StartsAt
<1>3. InLine /\ BetweenLines /\ AtEnd /\ Buffer /\ BufferFits
  BY <1>1 DEF InLine, BetweenLines, AtEnd, Buffer, BufferFits
<1>4. /\ pos \in 0..Len(text) /\ {eof, overrun} \subseteq BOOLEAN
      /\ {len, maxlen, capacity} \subseteq Nat
  <2>1. 0 \in 0..0
    OBVIOUS
  <2>2. pos \in 0..Len(text)
    BY <1>1, <2>1, Zenon
  <2>3. eof = FALSE /\ overrun = FALSE /\ len = 0 /\ maxlen = 0 /\ capacity = 0
    BY DEF FileInit
  <2>4. {eof, overrun} \subseteq BOOLEAN /\ {len, maxlen, capacity} \subseteq Nat
    <3>1. eof = FALSE /\ overrun = FALSE
      BY <2>3
    <3>2. {eof, overrun} \subseteq BOOLEAN
      BY ONLY <3>1
    <3>3. len = 0 /\ maxlen = 0 /\ capacity = 0
      BY <2>3
    <3>4. {len, maxlen, capacity} \subseteq Nat
      BY ONLY <3>3
    <3> QED
      BY <3>2, <3>4
  <2> QED
    BY <2>2, <2>4
<1> QED
  BY <1>1, <1>2, <1>3, <1>4 DEF ReadInv

\* The invariants of the appenders and of the reader hold in every state.
LEMMA FileInductive == FileSpec => [](AppendInv /\ ReadInv)
BY AppendInitial, AppendStep, ReadInitial, ReadStep, PTL DEF FileSpec

\* No line is written beyond its end, and the reader stays within the file.
THEOREM FileTypeCorrect == FileSpec => []FileTypeOK
<1>1. ASSUME AppendInv, ReadInv PROVE FileTypeOK
  <2>1. \A a \in Appenders : flushed[a] \in 0..lineLen[a]
    <3> SUFFICES ASSUME NEW a \in Appenders PROVE flushed[a] \in 0..lineLen[a]
      OBVIOUS
    <3>1. flushed[a] \in Nat /\ lineLen[a] \in Nat /\ flushed[a] <= lineLen[a]
      BY <1>1, FileAssumption DEF AppendInv
    <3> QED
      BY <3>1
  <2>2. \A i \in DOMAIN text : text[i] \in Appenders \X Nat
    <3>1. text \in Seq(Appenders \X Nat)
      BY <1>1 DEF AppendInv
    <3>2. text \in [1..Len(text) -> Appenders \X Nat]
      BY <3>1, LenProperties
    <3> QED
      BY <3>2
  <2> QED
    BY <1>1, <2>1, <2>2 DEF FileTypeOK, AppendInv, ReadInv
<1> QED
  BY <1>1, FileInductive, PTL

\* readfile.c's getline writes behind the buffer only after a line less than half
\* as long, for any lines and any number of them.
THEOREM BufferIsFit == FileSpec => []BufferFits
<1>1. AppendInv /\ ReadInv => BufferFits
  BY DEF ReadInv
<1> QED
  BY <1>1, FileInductive, PTL

\* readfile.c prints every line that was there when it saw the end, once and in
\* order, and once more what its buffer held.
THEOREM RoundTripIsRight == FileSpec => []RoundTrip
<1>1. AppendInv /\ ReadInv => RoundTrip
  BY DEF ReadInv, AtEnd, RoundTrip
<1> QED
  BY <1>1, FileInductive, PTL

-----------------------------------------------------------------------------
(* The matrix programs *)

Indices == 0..rows - 1

\* The element of a row and a column belongs to the thread whose outermost loop
\* reaches it; outer and inner are its variables there.
OuterOf(row, col) == IF ColumnsFirst THEN col ELSE row
InnerOf(row, col) == IF ColumnsFirst THEN row ELSE col
Owns(t, row, col) == First(t) <= OuterOf(row, col) /\ OuterOf(row, col) < EndOf(t)

\* The thread is behind the element, or at it.
Behind(t, row, col) ==
  \/ OuterOf(row, col) < round[t].outer
  \/ OuterOf(row, col) = round[t].outer /\ InnerOf(row, col) < round[t].inner
At(t, row, col) ==
  OuterOf(row, col) = round[t].outer /\ InnerOf(row, col) = round[t].inner

\* What the thread has added to the element.
Added(t, row, col) ==
  IF Behind(t, row, col) THEN Product(row, col)
  ELSE IF At(t, row, col) THEN Sums(rows, row, col)[round[t].index] ELSE 0

MatTypes ==
  /\ mmProg \in {"serial", "parallel", "timed", "device"}
  /\ matrix_size \in Nat /\ iterations \in Int /\ C0 \in Nat /\ room \in Nat
  /\ mmProg # "timed" => iterations = 1
  /\ mmPc \in {"start", "fill", "mult", "stats", "verify", "done", "refused", "oops",
               "assert"}
  /\ pass \in Nat /\ {maxns, minns} \subseteq Int /\ sumns \in Nat /\ runs \subseteq Int

Rooms ==
  mmPc \in {"fill", "mult", "stats", "verify", "done", "assert"} =>
    rows <= sqrt_of_UINT32_MAX /\ room = AllocSize \div DoubleSize
Filled ==
  mmPc \in {"mult", "stats", "verify", "done", "assert"} => C \in [0..room - 1 -> Nat]

\* Where the loops are, and the numbers of the matrices a thread has in hand.
Rounds ==
  mmPc \in {"start", "fill", "mult"} =>
    /\ round \in [AllThreads -> [outer : Nat, inner : Nat, index : Nat]]
    /\ loaded \in [AllThreads -> Nat \cup {Unloaded}]
    /\ \A t \in AllThreads :
         /\ First(t) <= round[t].outer /\ round[t].outer <= EndOf(t)
         /\ IF Finished(t) THEN round[t].inner = 0 /\ round[t].index = 0
                           ELSE round[t].inner < rows /\ round[t].index < rows
         /\ loaded[t] # Unloaded =>
              mmPc = "mult" /\ ~Finished(t) /\ Inside(t) /\ loaded[t] = C[Cell(t)]
AtBegin == mmPc \in {"start", "fill"} => round = [t \in AllThreads |-> Begin(t)]

\* What the threads have passed lies in the matrix, and their own elements have
\* the terms added so far.
Summing ==
  mmPc = "mult" =>
    \A t \in AllThreads, row, col \in Indices : Owns(t, row, col) =>
      /\ Behind(t, row, col) => row * rows + col < room
      /\ row * rows + col < room =>
           C[row * rows + col] = C0 + pass * Product(row, col) + Added(t, row, col)
AddedUp ==
  mmPc \in {"stats", "verify", "done"} /\ iterations > 0 =>
    \A row, col \in Indices :
      /\ row * rows + col < room
      /\ C[row * rows + col] = C0 + iterations * Product(row, col)

\* The iterations done, and their times.
Passes ==
  /\ mmPc \in {"start", "fill"} => pass = 0
  /\ mmPc = "mult" => pass < iterations
  /\ mmPc = "stats" => mmProg = "timed" /\ (iterations > 0 => pass = iterations)
Times ==
  /\ pass = 0 => runs = {} /\ sumns = 0
  /\ pass > 0 =>
    /\ {maxns, minns} \subseteq runs /\ \A ns \in runs : minns <= ns /\ ns <= maxns
    /\ runs \subseteq Nat /\ pass * maxns < UintValues =>
         pass * minns <= sumns /\ sumns <= pass * maxns

MatInv ==
  /\ MatTypes /\ Rooms /\ Filled /\ Rounds /\ AtBegin /\ Summing /\ AddedUp /\ Passes /\ Times
  /\ OopsMeansOverflow

-----------------------------------------------------------------------------
(* Numbers *)

\* Products distribute over sums.
LEMMA Distribute ==
  ASSUME NEW a \in Int, NEW b \in Int, NEW k \in Int
  PROVE  (a + b) * k = a * k + b * k /\ (a + 1) * k = a * k + k /\ a * k \in Int
OBVIOUS

\* A product of natural numbers is one.
LEMMA TimesNat ==
  ASSUME NEW a \in Nat, NEW k \in Nat
  PROVE  a * k \in Nat
OBVIOUS

\* Products grow with their factors.
LEMMA TimesMonotone ==
  ASSUME NEW a \in Int, NEW b \in Int, NEW k \in Nat, a <= b
  PROVE  a * k <= b * k
<1>1. PICK d \in Nat : b = a + d
  OBVIOUS
<1>2. b * k = a * k + d * k /\ a * k \in Int
  BY <1>1, Distribute
<1>3. d * k \in Nat
  BY TimesNat
<1> QED
  BY <1>2, <1>3

\* An address of a matrix of k rows is less than the square of k.
LEMMA InSquare ==
  ASSUME NEW r \in Nat, NEW c \in Nat, NEW k \in Nat, r < k, c < k
  PROVE  r * k + c \in Nat /\ r * k + c < k * k
<1>1. (r + 1) * k <= k * k
  BY TimesMonotone
<1>2. (r + 1) * k = r * k + k /\ r * k \in Nat
  BY Distribute, TimesNat
<1>3. k * k \in Nat
  BY TimesNat
<1> QED
  BY <1>1, <1>2, <1>3

\* Different elements have different addresses.
LEMMA OneCell ==
  ASSUME NEW r \in Nat, NEW c \in Nat, NEW s \in Nat, NEW d \in Nat, NEW k \in Nat,
         c < k, d < k, r * k + c = s * k + d
  PROVE  r = s /\ c = d
<1>1. ASSUME NEW x \in Nat, NEW y \in Nat, x < y PROVE x * k + k <= y * k
  <2>1. (x + 1) * k <= y * k
    BY <1>1, TimesMonotone
  <2>2. (x + 1) * k = x * k + k
    BY Distribute
  <2> QED
    BY <2>1, <2>2
<1>2. r * k \in Nat /\ s * k \in Nat
  BY TimesNat
<1>3. ~(r < s)
  BY <1>1, <1>2
<1>4. ~(s < r)
  BY <1>1, <1>2
<1>5. r = s
  BY <1>3, <1>4
<1> QED
  BY <1>2, <1>5

\* What an unsigned number keeps of i.
LEMMA ModIs ==
  ASSUME NEW i \in Nat, NEW m \in Nat \ {0}
  PROVE  /\ i % m \in Nat /\ i % m <= i /\ i % m < m
         /\ i < m => i % m = i
         /\ i = m => i % m = 0
OBVIOUS

\* A quotient is the largest number of times the divisor goes into i.
LEMMA DivIs ==
  ASSUME NEW i \in Nat, NEW d \in Nat \ {0}
  PROVE  /\ i \div d \in Nat
         /\ \A q \in Nat : q * d <= i => q <= i \div d
         /\ \A q \in Nat : i <= q * d => i \div d <= q
<1>1. i \div d \in Nat
  OBVIOUS
<1>2. ASSUME NEW q \in Nat, q * d <= i PROVE q <= i \div d
  BY <1>2
<1>3. ASSUME NEW q \in Nat, i <= q * d PROVE i \div d <= q
  BY <1>3
<1> QED
  BY <1>1, <1>2, <1>3

\* Quotient and rest.
LEMMA DivMod ==
  ASSUME NEW i \in Nat, NEW d \in Nat \ {0}
  PROVE  i \div d \in Nat /\ i % d \in 0..d - 1 /\ i = d * (i \div d) + (i % d)
OBVIOUS

-----------------------------------------------------------------------------
(* The allocation and the threads *)

\* The matrices are never larger than the square, and as large unless the number of
\* bytes wraps; when the square itself does, they are empty.
LEMMA RoomIs ==
  ASSUME rows \in Nat, rows <= sqrt_of_UINT32_MAX
  PROVE  /\ UintValues \in Nat \ {0} /\ rows * rows \in Nat
         /\ squared_size \in Nat /\ AllocSize \div DoubleSize \in Nat
         /\ AllocSize \div DoubleSize <= rows * rows
         /\ AllocSize \div DoubleSize > 0 => rows * rows < UintValues
         /\ DoubleSize * rows * rows < UintValues =>
              squared_size = rows * rows /\ AllocSize \div DoubleSize = rows * rows
<1> DEFINE k == rows
           d == DoubleSize
           u == UintValues
           s == sqrt_of_UINT32_MAX
<1>1. k \in Nat /\ s \in Nat \ {0} /\ d \in Nat \ {0} /\ k <= s /\ u = s * s
  BY MatrixAssumption
<1>2. u \in Nat /\ k * k \in Nat /\ k * s \in Nat
  BY <1>1, TimesNat
<1>3. k * k <= k * s /\ k * s <= u
  <2>1. k * k <= s * k /\ k * s <= s * s
    BY <1>1, TimesMonotone
  <2> QED
    BY <1>1, <2>1
<1>4. u # 0
  <2>1. 1 * s <= s * s
    BY <1>1, TimesMonotone
  <2> QED
    BY <1>1, <2>1
<1>5. /\ squared_size \in Nat /\ squared_size <= k * k
      /\ k * k < u => squared_size = k * k
      /\ k * k = u => squared_size = 0
  BY <1>2, <1>4, ModIs DEF squared_size, Mod
<1>6. d * squared_size \in Nat
  BY <1>1, <1>5, TimesNat
<1>7. /\ AllocSize \in Nat /\ AllocSize <= d * squared_size
      /\ d * squared_size < u => AllocSize = d * squared_size
  BY <1>2, <1>4, <1>6, ModIs DEF AllocSize, Mod
<1>8. AllocSize \div d \in Nat
  BY <1>1, <1>7, DivIs
<1>9. AllocSize \div d <= squared_size
  BY <1>1, <1>5, <1>7, DivIs
<1>10. ASSUME AllocSize \div d > 0 PROVE k * k < u
  BY <1>2, <1>3, <1>5, <1>8, <1>9, <1>10
<1>11. ASSUME d * k * k < u PROVE squared_size = k * k /\ AllocSize \div d = k * k
  <2>1. d * k * k = d * (k * k)
    BY <1>1
  <2>2. 1 * (k * k) <= d * (k * k)
    BY <1>1, <1>2, TimesMonotone
  <2>3. squared_size = k * k
    <3>1. d * (k * k) < u /\ d * (k * k) \in Nat
      BY <1>1, <1>2, <1>11, <2>1, TimesNat
    <3>2. k * k < u
      BY ONLY <1>2, <2>2, <3>1
    <3> QED
      BY <1>5, <3>2
  <2>4. AllocSize = d * squared_size
    BY <1>7, <1>11, <2>1, <2>3
  <2>5. squared_size <= AllocSize \div d
    BY <1>1, <1>5, <1>7, <2>4, DivIs
  <2> QED
    BY <1>5, <1>8, <1>9, <2>3, <2>5
<1> QED
  BY <1>2, <1>4, <1>5, <1>8, <1>9, <1>10, <1>11

\* The parts of the threads follow one another, from the first column or row to the
\* last.
LEMMA PartsFollow ==
  ASSUME rows \in Nat
  PROVE  /\ \A t \in 0..NThreads : First(t) \in Nat /\ First(t) <= rows
         /\ \A t, v \in 0..NThreads : t <= v => First(t) <= First(v)
         /\ First(0) = 0 /\ First(NThreads) = rows
<1>1. PICK m \in Nat \ {0} : m = NThreads
  BY MatrixAssumption
<1>2. PICK q \in Nat : q = rows \div NThreads
  BY <1>1, DivIs
<1>3. PICK r \in Nat : r = rows % NThreads
  BY <1>1, ModIs
<1>4. r < m /\ rows = m * q + r
  BY <1>1, <1>2, <1>3, ModIs, DivMod
<1>5. CASE mmProg = "parallel"
  <2>1. \A t : First(t) = t * q + IF t < r THEN t ELSE r
    BY <1>2, <1>3, <1>5 DEF First
  <2>2. First(0) = 0
    BY <2>1
  <2>3. First(NThreads) = rows
    BY <1>1, <1>4, <2>1
  <2>4. ASSUME NEW t \in 0..m PROVE First(t) \in Nat
    <3>1. t * q \in Nat
      BY TimesNat
    <3> QED
      BY <2>1, <3>1
  <2>5. ASSUME NEW t \in 0..m, NEW v \in 0..m, t <= v PROVE First(t) <= First(v)
    <3>1. t * q <= v * q
      BY <2>5, TimesMonotone
    <3>2. t * q \in Nat /\ v * q \in Nat
      BY TimesNat
    <3> QED
      BY <2>1, <2>5, <3>1, <3>2
  <2> QED
    BY <1>1, <2>2, <2>3, <2>4, <2>5
<1>6. CASE mmProg # "parallel"
  BY <1>1, <1>6 DEF First
<1> QED
  BY <1>5, <1>6

\* Each column, or row, is in the part of one thread.
LEMMA OneOwner ==
  ASSUME rows \in Nat
  PROVE  /\ \A x \in Indices : \E t \in AllThreads : First(t) <= x /\ x < EndOf(t)
         /\ \A x \in Indices, t, v \in AllThreads :
              First(t) <= x /\ x < EndOf(t) /\ First(v) <= x /\ x < EndOf(v) => t = v
         /\ \A t \in AllThreads :
              First(t) \in Nat /\ EndOf(t) \in Nat /\ EndOf(t) <= rows /\ First(t) <= EndOf(t)
<1>1. PICK m \in Nat \ {0} : m = NThreads
  BY MatrixAssumption
<1>2. \A t \in AllThreads : t \in 0..m /\ t + 1 \in 0..m /\ t < m
  BY <1>1 DEF AllThreads
<1>3. ASSUME NEW x \in Indices PROVE \E t \in AllThreads : First(t) <= x /\ x < EndOf(t)
  <2> DEFINE S == {t \in Nat : t <= m /\ x < First(t)}
  <2>1. m \in S
    BY <1>1, PartsFollow DEF Indices
  <2>2. PICK k \in S : \A j \in S : k <= j
    BY <2>1, LeastNat
  <2>3. k # 0 /\ k \in 0..m
    BY PartsFollow DEF Indices
  <2>4. k - 1 \in AllThreads /\ k - 1 \in Nat /\ k - 1 <= m
    BY <1>1, <2>3 DEF AllThreads
  <2>5. k - 1 \notin S
    BY <2>2, <2>3
  <2>6. First(k - 1) <= x
    BY <1>1, <2>4, <2>5, PartsFollow DEF Indices
  <2>7. EndOf(k - 1) = First(k)
    BY <2>3 DEF EndOf
  <2> QED
    BY <2>4, <2>6, <2>7
<1>4. ASSUME NEW x \in Indices, NEW t \in AllThreads, NEW v \in AllThreads,
             First(t) <= x, x < EndOf(t), First(v) <= x, x < EndOf(v), t < v
      PROVE  FALSE
  <2>1. t + 1 <= v
    BY <1>2, <1>4
  <2>2. First(t + 1) <= First(v) /\ First(t + 1) \in Nat /\ First(v) \in Nat
    BY <1>1, <1>2, <2>1, PartsFollow
  <2> QED
    BY <1>4, <2>2 DEF EndOf, Indices
<1>5. ASSUME NEW t \in AllThreads
      PROVE  First(t) \in Nat /\ EndOf(t) \in Nat /\ EndOf(t) <= rows /\ First(t) <= EndOf(t)
  BY <1>1, <1>2, PartsFollow DEF EndOf
<1>6. ASSUME NEW x \in Indices, NEW t \in AllThreads, NEW v \in AllThreads,
             First(t) <= x, x < EndOf(t), First(v) <= x, x < EndOf(v)
      PROVE  t = v
  <2>1. ~(t < v) /\ ~(v < t)
    BY <1>4, <1>6
  <2> QED
    BY <1>2, <2>1
<1> QED
  BY <1>3, <1>5, <1>6

\* The i-th term of an element.
TermOf(row, col, i) == MatA[row * rows + (i - 1)] * MatB[(i - 1) * rows + col]

\* The terms of an accepted matrix are numbers.
LEMMA TermIs ==
  ASSUME rows \in Nat, rows <= sqrt_of_UINT32_MAX, NEW row \in Indices, NEW col \in Indices,
         NEW i \in 1..rows
  PROVE  TermOf(row, col, i) \in Nat
<1>1. /\ row \in Nat /\ col \in Nat /\ i - 1 \in Nat
      /\ row < rows /\ col < rows /\ i - 1 < rows /\ UintValues \in Nat
  BY RoomIs DEF Indices
<1>2. /\ row * rows + (i - 1) \in Nat /\ row * rows + (i - 1) < rows * rows
      /\ (i - 1) * rows + col \in Nat /\ (i - 1) * rows + col < rows * rows
  BY <1>1, InSquare
<1>3. rows * rows <= UintValues /\ rows * rows \in Nat
  <2>1. PICK k \in Nat, s \in Nat : k = rows /\ s = sqrt_of_UINT32_MAX
    BY MatrixAssumption
  <2>2. k * k <= s * k /\ k * s <= s * s /\ UintValues = s * s
    BY <2>1, MatrixAssumption, TimesMonotone
  <2>3. k * s = s * k /\ k * k \in Nat /\ k * s \in Nat
    BY TimesNat
  <2> QED
    BY <1>1, <2>1, <2>2, <2>3
<1>4. row * rows + (i - 1) \in 0..UintValues - 1 /\ (i - 1) * rows + col \in 0..UintValues - 1
  BY ONLY <1>1, <1>2, <1>3
<1>5. MatA[row * rows + (i - 1)] \in Nat /\ MatB[(i - 1) * rows + col] \in Nat
  BY <1>4, MatrixAssumption
<1> QED
  BY <1>5, TimesNat DEF TermOf

\* w[i] is the sum of the first i terms, up to k.
SumsRec(row, col, w, k) ==
  /\ w \in [0..k -> Nat] /\ w[0] = 0
  /\ \A i \in 1..k : w[i] = w[i - 1] + TermOf(row, col, i)

\* There is such a sequence for every k, by induction on k.
LEMMA SumsExist ==
  ASSUME rows \in Nat, rows <= sqrt_of_UINT32_MAX, NEW row \in Indices, NEW col \in Indices
  PROVE  \E w : SumsRec(row, col, w, rows)
<1>0. PICK g : g = [i \in 1..rows |-> TermOf(row, col, i)]
  OBVIOUS
<1>1. \A i \in 1..rows : g[i] = TermOf(row, col, i) /\ g[i] \in Nat
  BY <1>0, TermIs
<1> DEFINE S == {k \in Nat : k <= rows => \E w : SumsRec(row, col, w, k)}
<1>2. 0 \in S
  <2>1. PICK w : w = [i \in 0..0 |-> 0]
    OBVIOUS
  <2>2. SumsRec(row, col, w, 0)
    BY <2>1 DEF SumsRec
  <2> QED
    BY <2>2
<1>3. ASSUME NEW k \in S PROVE k + 1 \in S
  <2> SUFFICES ASSUME k + 1 <= rows PROVE \E w : SumsRec(row, col, w, k + 1)
    OBVIOUS
  <2>1. k \in Nat /\ k <= rows /\ k + 1 \in 1..rows /\ k \in 0..k
    OBVIOUS
  <2>2. PICK w : SumsRec(row, col, w, k)
    BY <2>1
  <2>3. PICK l : l = w[k] + g[k + 1]
    OBVIOUS
  <2>4. w[k] \in Nat /\ l \in Nat
    <3>1. w[k] \in Nat /\ g[k + 1] \in Nat
      BY <1>1, <2>1, <2>2 DEF SumsRec
    <3> QED
      BY <2>3, <3>1
  <2>5. PICK v : v = [i \in 0..k + 1 |-> IF i <= k THEN w[i] ELSE l]
    OBVIOUS
  <2>6. v \in [0..k + 1 -> Nat] /\ v[0] = 0
    BY <2>1, <2>2, <2>4, <2>5 DEF SumsRec
  <2>7. ASSUME NEW i \in 1..k + 1 PROVE v[i] = v[i - 1] + TermOf(row, col, i)
    <3>1. v[i - 1] = w[i - 1]
      BY <2>1, <2>5
    <3>2. CASE i <= k
      <4>1. i \in 1..k /\ v[i] = w[i]
        BY <2>1, <2>5, <3>2
      <4> QED
        BY <2>2, <3>1, <4>1 DEF SumsRec
    <3>3. CASE i = k + 1
      <4>1. v[i] = l /\ i - 1 = k
        BY <2>1, <2>5, <3>3
      <4>2. g[i] = TermOf(row, col, i)
        BY <1>1, <2>1, <3>3
      <4> QED
        BY <2>3, <3>1, <3>3, <4>1, <4>2
    <3> QED
      BY <2>1, <3>2, <3>3
  <2>8. SumsRec(row, col, v, k + 1)
    BY <2>6, <2>7 DEF SumsRec
  <2> QED
    BY <2>8
<1>4. S = Nat
  BY <1>2, <1>3, SetInd
<1> QED
  BY <1>4

\* The recursive function Sums is such a sequence.
LEMMA SumsRecursion ==
  ASSUME rows \in Nat, rows <= sqrt_of_UINT32_MAX, NEW row \in Indices, NEW col \in Indices
  PROVE  SumsRec(row, col, Sums(rows, row, col), rows)
<1>1. PICK w : SumsRec(row, col, w, rows)
  BY SumsExist
<1>2. w = [k \in 0..rows |-> IF k = 0 THEN 0 ELSE
             w[k - 1] + MatA[row * rows + (k - 1)] * MatB[(k - 1) * rows + col]]
  <2>1. w = [k \in 0..rows |-> w[k]]
    BY <1>1 DEF SumsRec
  <2>2. ASSUME NEW k \in 0..rows
        PROVE  w[k] = IF k = 0 THEN 0 ELSE
                        w[k - 1] + MatA[row * rows + (k - 1)] * MatB[(k - 1) * rows + col]
    <3>1. CASE k = 0
      BY <1>1, <3>1 DEF SumsRec
    <3>2. CASE k # 0
      <4>1. k \in 1..rows
        BY <3>2
      <4> QED
        BY <1>1, <3>2, <4>1, Zenon DEF SumsRec, TermOf
    <3> QED
      BY <3>1, <3>2
  <2> QED
    BY <2>1, <2>2, Zenon
<1>3. PICK f : f = Sums(rows, row, col)
  OBVIOUS
<1>4. f = [k \in 0..rows |-> IF k = 0 THEN 0 ELSE
             f[k - 1] + MatA[row * rows + (k - 1)] * MatB[(k - 1) * rows + col]]
  BY <1>2, <1>3, Zenon DEF Sums
<1>5. f[0] = 0 /\ \A k \in 1..rows : f[k] = f[k - 1] + TermOf(row, col, k)
  <2>1. \A k \in 0..rows : f[k] = IF k = 0 THEN 0 ELSE
             f[k - 1] + MatA[row * rows + (k - 1)] * MatB[(k - 1) * rows + col]
    BY <1>4, Zenon
  <2>2. 0 \in 0..rows /\ \A k \in 1..rows : k \in 0..rows /\ k # 0
    OBVIOUS
  <2> QED
    BY <2>1, <2>2, Zenon DEF TermOf
<1> DEFINE S == {k \in Nat : k <= rows => f[k] \in Nat}
<1>6. 0 \in S
  BY <1>5
<1>7. ASSUME NEW k \in S PROVE k + 1 \in S
  <2> SUFFICES ASSUME k + 1 <= rows PROVE f[k + 1] \in Nat
    OBVIOUS
  <2>1. k + 1 \in 1..rows /\ (k + 1) - 1 = k /\ f[k] \in Nat
    OBVIOUS
  <2>2. f[k + 1] = f[k] + TermOf(row, col, k + 1) /\ TermOf(row, col, k + 1) \in Nat
    BY <1>5, <2>1, TermIs
  <2> QED
    BY <2>1, <2>2
<1>8. S = Nat
  BY <1>6, <1>7, SetInd
<1>9. f \in [0..rows -> Nat]
  <2>1. \A k \in 0..rows : f[k] \in Nat
    BY <1>8
  <2> QED
    BY <1>4, <2>1, Zenon
<1> QED
  BY <1>3, <1>5, <1>9 DEF SumsRec

-----------------------------------------------------------------------------
(* The steps of the matrix programs *)

\* No step changes the program, its arguments or what memory held.
LEMMA MatSame ==
  ASSUME Unchanging
  PROVE  /\ rows' = rows /\ Indices' = Indices /\ AllocSize' = AllocSize
         /\ ColumnsFirst' = ColumnsFirst
         /\ \A t : First(t)' = First(t) /\ EndOf(t)' = EndOf(t) /\ Begin(t)' = Begin(t)
         /\ \A t, row, col : Owns(t, row, col)' = Owns(t, row, col)
         /\ \A row, col : /\ OuterOf(row, col)' = OuterOf(row, col)
                          /\ InnerOf(row, col)' = InnerOf(row, col)
                          /\ Product(row, col)' = Product(row, col)
<1>1. matrix_size' = matrix_size /\ mmProg' = mmProg
  BY DEF Unchanging
<1>2. rows' = rows /\ Indices' = Indices /\ AllocSize' = AllocSize /\ ColumnsFirst' = ColumnsFirst
  BY <1>1 DEF rows, Indices, AllocSize, squared_size, Mod, ColumnsFirst
<1>3. ASSUME NEW t PROVE First(t)' = First(t)
  BY <1>1 DEF First, rows
<1>4. ASSUME NEW t PROVE EndOf(t)' = EndOf(t)
  BY <1>1 DEF EndOf, First, rows
<1>5. ASSUME NEW t PROVE Begin(t)' = Begin(t)
  BY <1>3 DEF Begin
<1>6. ASSUME NEW row, NEW col
      PROVE  /\ OuterOf(row, col)' = OuterOf(row, col) /\ InnerOf(row, col)' = InnerOf(row, col)
             /\ Product(row, col)' = Product(row, col)
  BY <1>1 DEF OuterOf, InnerOf, ColumnsFirst, Product, rows
<1>7. ASSUME NEW t, NEW row, NEW col PROVE Owns(t, row, col)' = Owns(t, row, col)
  BY <1>3, <1>4, <1>6 DEF Owns
<1> QED
  BY <1>2, <1>3, <1>4, <1>5, <1>6, <1>7

\* Where a thread's loops begin.
LEMMA BeginIs ==
  ASSUME rows \in Nat, NEW t \in AllThreads
  PROVE  /\ Begin(t) \in [outer : Nat, inner : Nat, index : Nat]
         /\ Begin(t).outer = First(t) /\ Begin(t).inner = 0 /\ Begin(t).index = 0
         /\ First(t) <= EndOf(t) /\ First(t) \in Nat /\ EndOf(t) \in Nat
         /\ ~(First(t) >= EndOf(t)) => 0 < rows
BY OneOwner DEF Begin

\* Before the argument is read every loop is at its beginning.
LEMMA MatInitial == MatInit => MatInv
<1> SUFFICES ASSUME MatInit PROVE MatInv
  OBVIOUS
<1>1. MatTypes
  BY MatrixAssumption DEF MatInit, MatTypes
<1>2. rows \in Nat
  BY <1>1 DEF MatTypes, rows
<1>3. Rounds
  <2>1. ASSUME NEW t \in AllThreads
        PROVE  /\ round[t] = Begin(t) /\ loaded[t] = Unloaded
    BY DEF MatInit
  <2>2. /\ round \in [AllThreads -> [outer : Nat, inner : Nat, index : Nat]]
        /\ loaded \in [AllThreads -> Nat \cup {Unloaded}]
    BY <1>2, BeginIs DEF MatInit
  <2> QED
    BY <1>2, <2>1, <2>2, BeginIs DEF Rounds, Finished
<1>4. Rooms /\ Filled /\ AtBegin /\ Summing /\ AddedUp /\ Passes /\ Times /\ OopsMeansOverflow
  BY DEF MatInit, Rooms, Filled, AtBegin, Summing, AddedUp, Passes, Times, OopsMeansOverflow
<1> QED
  BY <1>1, <1>3, <1>4 DEF MatInv

\* A step that leaves the loops where they begin.
LEMMA BeginStays ==
  ASSUME MatTypes, Rounds, Unchanging, mmPc \in {"start", "fill"},
         mmPc' # "mult" \/ round = [t \in AllThreads |-> Begin(t)],
         round' = round, loaded' = loaded
  PROVE  Rounds'
<1> SUFFICES ASSUME mmPc' \in {"start", "fill", "mult"}
             PROVE  Rounds'
  BY DEF Rounds
<1>1. /\ round \in [AllThreads -> [outer : Nat, inner : Nat, index : Nat]]
      /\ loaded \in [AllThreads -> Nat \cup {Unloaded}]
      /\ \A t \in AllThreads : loaded[t] = Unloaded
      /\ \A t \in AllThreads :
         /\ First(t) <= round[t].outer /\ round[t].outer <= EndOf(t)
         /\ IF Finished(t) THEN round[t].inner = 0 /\ round[t].index = 0
                           ELSE round[t].inner < rows /\ round[t].index < rows
  BY DEF Rounds
<1>2. \A t \in AllThreads : First(t)' = First(t) /\ EndOf(t)' = EndOf(t) /\ rows' = rows
  BY MatSame
<1>3. \A t \in AllThreads : Finished(t)' = Finished(t)
  BY <1>2 DEF Finished
<1> QED
  BY <1>1, <1>2, <1>3 DEF Rounds, Unloaded

\* The test of the argument, and the allocations.
LEMMA AllocKeeps ==
  ASSUME MatInv, AllocMatrices PROVE MatInv'
<1> USE DEF MatInv
<1>1. /\ mmPc = "start" /\ Unchanging /\ UNCHANGED <<C, round, loaded, timeVars>>
      /\ mmPc' \in {"refused", "fill"}
      /\ mmPc' = "fill" => rows <= sqrt_of_UINT32_MAX /\ room' = AllocSize \div DoubleSize
      /\ mmPc' = "refused" => room' = room
  BY DEF AllocMatrices
<1>2. rows \in Nat
  BY DEF MatTypes, rows
<1>3. room' \in Nat
  BY <1>1, <1>2, RoomIs DEF MatTypes
<1>4. MatTypes'
  BY <1>1, <1>3 DEF MatTypes, Unchanging, timeVars
<1>5. Rooms'
  BY <1>1, MatSame DEF Rooms
<1>6. Rounds'
  BY <1>1, BeginStays
<1>7. AtBegin'
  BY <1>1, MatSame DEF AtBegin
<1>8. Filled' /\ Summing' /\ AddedUp' /\ OopsMeansOverflow'
  BY <1>1 DEF Filled, Summing, AddedUp, OopsMeansOverflow
<1>9. Passes' /\ Times'
  BY <1>1 DEF Passes, Times, Unchanging, timeVars
<1> QED
  BY <1>4, <1>5, <1>6, <1>7, <1>8, <1>9

\* The matrices are filled.
LEMMA FillKeeps ==
  ASSUME MatInv, Fill PROVE MatInv'
<1> USE DEF MatInv
<1>1. /\ mmPc = "fill" /\ Unchanging /\ UNCHANGED <<room, round, loaded, timeVars>>
      /\ \/ mmPc' = "oops" /\ squared_size > room
         \/ /\ C' = [i \in 0..room - 1 |-> C0]
            /\ mmPc' = IF iterations > 0 THEN "mult" ELSE "stats"
  BY DEF Fill
<1>2. rows \in Nat /\ rows <= sqrt_of_UINT32_MAX /\ room = AllocSize \div DoubleSize
  BY <1>1 DEF MatTypes, rows, Rooms
<1>3. MatTypes'
  <2>1. mmPc' \in {"oops", "mult", "stats"}
    BY <1>1
  <2> QED
    BY <1>1, <2>1 DEF MatTypes, Unchanging, timeVars
<1>4. Rooms'
  BY <1>1, <1>2, MatSame DEF Rooms
<1>5. Filled'
  BY <1>1 DEF Filled, MatTypes
<1>6. round = [t \in AllThreads |-> Begin(t)]
  BY <1>1 DEF AtBegin
<1>7. Rounds' /\ AtBegin'
  BY <1>1, <1>6, BeginStays DEF AtBegin
<1>8. Passes'
  BY <1>1 DEF Passes, Unchanging, timeVars, MatTypes
<1>9. Times' /\ AddedUp'
  BY <1>1 DEF Times, AddedUp, timeVars, Unchanging
<1>10. OopsMeansOverflow'
  <2> SUFFICES ASSUME mmPc' = "oops", DoubleSize * rows * rows < UintValues
               PROVE  FALSE
    <3>1. DoubleSize * rows * rows \in Int /\ UintValues \in Int /\ rows' = rows
      BY <1>1, <1>2, RoomIs, MatSame, MatrixAssumption
    <3> QED
      BY <3>1 DEF OopsMeansOverflow
  <2>1. squared_size = room /\ squared_size \in Nat
    BY <1>2, RoomIs
  <2> QED
    BY <1>1, <2>1
<1>11. Summing'
  <2> SUFFICES ASSUME mmPc' = "mult", NEW t \in AllThreads,
                      NEW row \in Indices, NEW col \in Indices,
                      Owns(t, row, col)
               PROVE  /\ ~Behind(t, row, col)'
                      /\ row * rows + col < room =>
                           C'[row * rows + col] =
                             C0 + pass * Product(row, col) + Added(t, row, col)'
    BY <1>1, MatSame DEF Summing, Unchanging, timeVars
  <2>1. round'[t].outer = First(t) /\ round'[t].inner = 0 /\ round'[t].index = 0
    BY <1>1, <1>2, <1>6, BeginIs
  <2>2. OuterOf(row, col) >= First(t) /\ OuterOf(row, col) \in Nat /\ InnerOf(row, col) \in Nat
        /\ First(t) \in Nat
    BY <1>2, OneOwner DEF Owns, OuterOf, InnerOf, Indices
  <2>3. ~Behind(t, row, col)'
    BY <1>1, <2>1, <2>2, MatSame DEF Behind
  <2>4. Added(t, row, col)' = 0
    <3>1. Sums(rows, row, col)[0] = 0
      BY <1>2, SumsRecursion DEF SumsRec
    <3>2. rows' = rows
      BY <1>1, MatSame
    <3> QED
      BY <2>1, <2>3, <3>1, <3>2 DEF Added
  <2>5. ASSUME row * rows + col < room PROVE C'[row * rows + col] = C0
    <3>1. row * rows + col \in Nat
      BY <1>2, InSquare DEF Indices
    <3>2. row * rows + col \in 0..room - 1 /\ C' = [i \in 0..room - 1 |-> C0]
      BY <1>1, <2>5, <3>1 DEF MatTypes
    <3> QED
      BY <3>2
  <2>6. pass = 0 /\ Product(row, col) \in Nat /\ C0 \in Nat
    <3>1. Sums(rows, row, col)[rows] \in Nat
      BY <1>2, SumsRecursion DEF SumsRec
    <3> QED
      BY <1>1, <3>1 DEF Passes, Product, MatTypes
  <2> QED
    BY <2>3, <2>4, <2>5, <2>6
<1> QED
  BY <1>3, <1>4, <1>5, <1>7, <1>8, <1>9, <1>10, <1>11

\* What the loops of a thread are at does not change unless they move.
LEMMA SameSpot ==
  ASSUME Unchanging, NEW t, round'[t] = round[t]
  PROVE  /\ Finished(t)' = Finished(t) /\ Cell(t)' = Cell(t)
         /\ AtA(t)' = AtA(t) /\ AtB(t)' = AtB(t)
         /\ room' = room => Inside(t)' = Inside(t)
         /\ \A row, col : /\ Behind(t, row, col)' = Behind(t, row, col)
                          /\ Added(t, row, col)' = Added(t, row, col)
<1>1. rows' = rows /\ ColumnsFirst' = ColumnsFirst /\ EndOf(t)' = EndOf(t)
  BY MatSame
<1>2. Finished(t)' = Finished(t)
  BY <1>1 DEF Finished
<1>3. Row(t)' = Row(t) /\ Col(t)' = Col(t)
  BY <1>1 DEF Row, Col
<1>4. Cell(t)' = Cell(t) /\ AtA(t)' = AtA(t) /\ AtB(t)' = AtB(t)
  BY <1>1, <1>3 DEF Cell, AtA, AtB, Mod
<1>5. room' = room => Inside(t)' = Inside(t)
  BY <1>4 DEF Inside
<1>6. ASSUME NEW row, NEW col
      PROVE  Behind(t, row, col)' = Behind(t, row, col) /\ Added(t, row, col)' = Added(t, row, col)
  <2>1. /\ OuterOf(row, col)' = OuterOf(row, col) /\ InnerOf(row, col)' = InnerOf(row, col)
        /\ Product(row, col)' = Product(row, col)
    BY MatSame
  <2>2. Behind(t, row, col)' = Behind(t, row, col) /\ At(t, row, col)' = At(t, row, col)
    BY <2>1 DEF Behind, At
  <2> QED
    BY <1>1, <2>1, <2>2 DEF Added
<1> QED
  BY <1>2, <1>4, <1>5, <1>6

\* The element a thread is at is its own, and as long as the square fits its
\* addresses are what they would be in numbers without a limit.
LEMMA SpotIs ==
  ASSUME MatTypes, Rounds, mmPc = "mult", rows <= sqrt_of_UINT32_MAX,
         NEW t \in AllThreads, ~Finished(t)
  PROVE  /\ Row(t) \in Indices /\ Col(t) \in Indices
         /\ round[t].index \in Nat /\ round[t].index < rows
         /\ round[t].outer \in Nat /\ round[t].inner \in Nat /\ round[t].inner < rows
         /\ OuterOf(Row(t), Col(t)) = round[t].outer /\ InnerOf(Row(t), Col(t)) = round[t].inner
         /\ Owns(t, Row(t), Col(t))
         /\ rows * rows < UintValues =>
              /\ Cell(t) = Row(t) * rows + Col(t)
              /\ AtA(t) = Row(t) * rows + round[t].index
              /\ AtB(t) = round[t].index * rows + Col(t)
              /\ {Cell(t), AtA(t), AtB(t)} \subseteq 0..rows * rows - 1
<1>1. rows \in Nat /\ UintValues \in Nat \ {0} /\ rows * rows \in Nat
  <2>1. rows \in Nat
    BY DEF MatTypes, rows
  <2> QED
    BY <2>1, RoomIs
<1>2. /\ round[t].outer \in Nat /\ round[t].inner \in Nat /\ round[t].index \in Nat
      /\ round[t].inner < rows /\ round[t].index < rows
      /\ First(t) <= round[t].outer
  BY DEF Rounds
<1>3. EndOf(t) \in Nat /\ EndOf(t) <= rows
  BY <1>1, OneOwner
<1>4. round[t].outer < EndOf(t) /\ round[t].outer < rows
  <2>1. ~(round[t].outer >= EndOf(t))
    BY DEF Finished
  <2> QED
    BY <1>1, <1>2, <1>3, <2>1
<1>5. Row(t) \in Indices /\ Col(t) \in Indices
  BY <1>1, <1>2, <1>4 DEF Row, Col, Indices
<1>6. OuterOf(Row(t), Col(t)) = round[t].outer /\ InnerOf(Row(t), Col(t)) = round[t].inner
  BY DEF OuterOf, InnerOf, Row, Col
<1>7. Owns(t, Row(t), Col(t))
  BY <1>2, <1>4, <1>6 DEF Owns
<1>8. ASSUME rows * rows < UintValues, NEW a \in Nat, NEW b \in Nat, a < rows, b < rows
      PROVE  Mod(a * rows + b) = a * rows + b /\ a * rows + b \in 0..rows * rows - 1
  <2>1. a * rows + b \in Nat /\ a * rows + b < rows * rows
    BY <1>1, <1>8, InSquare
  <2>2. a * rows + b < UintValues
    BY ONLY <1>1, <1>8, <2>1
  <2> QED
    BY <1>1, <2>1, <2>2, ModIs DEF Mod
<1>9. /\ Row(t) \in Nat /\ Row(t) < rows /\ Col(t) \in Nat /\ Col(t) < rows
  BY <1>1, <1>5 DEF Indices
<1>10. ASSUME rows * rows < UintValues
       PROVE  /\ Cell(t) = Row(t) * rows + Col(t) /\ Cell(t) \in 0..rows * rows - 1
              /\ AtA(t) = Row(t) * rows + round[t].index /\ AtA(t) \in 0..rows * rows - 1
              /\ AtB(t) = round[t].index * rows + Col(t) /\ AtB(t) \in 0..rows * rows - 1
  <2>1. Cell(t) = Row(t) * rows + Col(t) /\ Cell(t) \in 0..rows * rows - 1
    BY <1>8, <1>9, <1>10 DEF Cell
  <2>2. AtA(t) = Row(t) * rows + round[t].index /\ AtA(t) \in 0..rows * rows - 1
    BY <1>2, <1>8, <1>9, <1>10 DEF AtA
  <2>3. AtB(t) = round[t].index * rows + Col(t) /\ AtB(t) \in 0..rows * rows - 1
    BY <1>2, <1>8, <1>9, <1>10 DEF AtB
  <2> QED
    BY <2>1, <2>2, <2>3
<1> QED
  BY <1>2, <1>5, <1>6, <1>7, <1>10

\* A thread reads the element it is at.
LEMMA LoadCKept ==
  ASSUME NEW t \in AllThreads, MatInv, LoadC(t)
  PROVE  MatInv'
<1> USE DEF MatInv
<1>1. /\ mmPc = "mult" /\ ~Finished(t) /\ loaded[t] = Unloaded
      /\ Unchanging /\ UNCHANGED <<room, C, round, timeVars>>
      /\ \/ Inside(t) /\ loaded' = [loaded EXCEPT ![t] = C[Cell(t)]] /\ mmPc' = mmPc
         \/ ~Inside(t) /\ mmPc' = "oops"
  BY DEF LoadC
<1>2. rows \in Nat /\ rows <= sqrt_of_UINT32_MAX /\ room = AllocSize \div DoubleSize
  BY <1>1 DEF MatTypes, rows, Rooms
<1>3. MatTypes'
  BY <1>1 DEF MatTypes, Unchanging, timeVars
<1>4. Rooms' /\ Filled'
  BY <1>1, <1>2, MatSame DEF Rooms, Filled
<1>5. AtBegin' /\ AddedUp' /\ Times'
  BY <1>1 DEF AtBegin, AddedUp, Times, timeVars
<1>6. Passes'
  BY <1>1 DEF Passes, Unchanging, timeVars
<1>7. \A v : round'[v] = round[v]
  BY <1>1
<1>8. Rounds'
  <2> SUFFICES ASSUME mmPc' = "mult" PROVE Rounds'
    BY <1>1 DEF Rounds
  <2>1. Inside(t) /\ loaded' = [loaded EXCEPT ![t] = C[Cell(t)]] /\ mmPc' = mmPc
    BY <1>1
  <2>2. C[Cell(t)] \in Nat
    BY <1>1, <2>1 DEF Filled, Inside
  <2>3. /\ loaded' \in [AllThreads -> Nat \cup {Unloaded}]
        /\ loaded \in [AllThreads -> Nat \cup {Unloaded}]
    BY <1>1, <2>1, <2>2 DEF Rounds
  <2>4. ASSUME NEW v \in AllThreads
        PROVE  /\ First(v)' <= round'[v].outer /\ round'[v].outer <= EndOf(v)'
               /\ IF Finished(v)' THEN round'[v].inner = 0 /\ round'[v].index = 0
                                  ELSE round'[v].inner < rows' /\ round'[v].index < rows'
               /\ loaded'[v] # Unloaded => ~Finished(v)' /\ Inside(v)' /\ loaded'[v] = C'[Cell(v)']
    <3>1. /\ First(v)' = First(v) /\ EndOf(v)' = EndOf(v) /\ rows' = rows
          /\ Finished(v)' = Finished(v) /\ Inside(v)' = Inside(v) /\ Cell(v)' = Cell(v)
      BY <1>1, <1>7, MatSame, SameSpot
    <3>2. CASE v = t
      BY <1>1, <1>7, <2>1, <2>3, <3>1, <3>2 DEF Rounds
    <3>3. CASE v # t
      <4>1. loaded'[v] = loaded[v]
        BY <2>1, <2>3, <3>3
      <4> QED
        BY <1>1, <1>7, <3>1, <4>1 DEF Rounds
    <3> QED
      BY <3>2, <3>3
  <2>5. round' \in [AllThreads -> [outer : Nat, inner : Nat, index : Nat]]
    BY <1>1 DEF Rounds
  <2>6. AllThreads' = AllThreads /\ Unloaded' = Unloaded
    BY DEF AllThreads, Unloaded
  <2> QED
    BY <2>3, <2>4, <2>5, <2>6 DEF Rounds
<1>9. Summing'
  <2> SUFFICES ASSUME mmPc' = "mult", NEW v \in AllThreads,
                      NEW row \in Indices, NEW col \in Indices,
                      Owns(v, row, col)
               PROVE  /\ Behind(v, row, col)' => row * rows + col < room
                      /\ row * rows + col < room =>
                           C[row * rows + col] =
                             C0 + pass * Product(row, col) + Added(v, row, col)'
    BY <1>1, MatSame DEF Summing, Unchanging, timeVars
  <2>1. Behind(v, row, col)' = Behind(v, row, col) /\ Added(v, row, col)' = Added(v, row, col)
    BY <1>1, <1>7, SameSpot
  <2> QED
    BY <1>1, <2>1 DEF Summing
<1>10. OopsMeansOverflow'
  <2> SUFFICES ASSUME mmPc' = "oops", DoubleSize * rows * rows < UintValues
               PROVE  FALSE
    <3>1. DoubleSize * rows * rows \in Int /\ UintValues \in Int /\ rows' = rows
      BY <1>1, <1>2, RoomIs, MatSame, MatrixAssumption
    <3> QED
      BY <3>1 DEF OopsMeansOverflow
  <2>1. room = rows * rows /\ rows * rows < UintValues
    <3>1. squared_size = rows * rows /\ room = rows * rows
      BY <1>2, RoomIs
    <3>2. CASE rows = 0
      <4>1. rows * rows = 0 /\ UintValues \in Nat \ {0}
        BY <1>2, <3>2, RoomIs
      <4> QED
        BY <3>1, <4>1
    <3>3. CASE rows # 0
      <4>1. 1 * 1 <= rows * 1 /\ 1 * rows <= rows * rows
        BY <1>2, <3>3, TimesMonotone
      <4>2. rows * rows > 0
        BY <1>2, <3>3, <4>1, RoomIs
      <4> QED
        BY <1>2, <3>1, <4>2, RoomIs
    <3> QED
      BY <3>2, <3>3
  <2>2. Inside(t)
    BY <1>1, <1>2, <2>1, SpotIs DEF Inside
  <2> QED
    BY <1>1, <2>2
<1> QED
  BY <1>3, <1>4, <1>5, <1>6, <1>8, <1>9, <1>10

\* The round after r: the next number of the same element, the next element of
\* the inner loop, or the first of the next round of the outer loop.
LEMMA NextRoundIs ==
  ASSUME rows \in Nat, NEW r \in [outer : Nat, inner : Nat, index : Nat],
         r.inner < rows, r.index < rows
  PROVE  /\ NextRound(r) \in [outer : Nat, inner : Nat, index : Nat]
         /\ \/ /\ r.index + 1 < rows /\ NextRound(r).index = r.index + 1
               /\ NextRound(r).outer = r.outer /\ NextRound(r).inner = r.inner
            \/ /\ r.index + 1 = rows /\ r.inner + 1 < rows /\ NextRound(r).index = 0
               /\ NextRound(r).outer = r.outer /\ NextRound(r).inner = r.inner + 1
            \/ /\ r.index + 1 = rows /\ r.inner + 1 = rows /\ NextRound(r).index = 0
               /\ NextRound(r).outer = r.outer + 1 /\ NextRound(r).inner = 0
<1>1. CASE r.index + 1 < rows
  BY <1>1 DEF NextRound
<1>2. CASE r.index + 1 = rows /\ r.inner + 1 < rows
  <2>1. NextRound(r) = [r EXCEPT !.inner = @ + 1, !.index = 0]
    BY <1>2 DEF NextRound
  <2>2. /\ r \in [outer : Nat, inner : Nat, index : Nat] /\ r.outer \in Nat
        /\ r.inner + 1 \in Nat
    OBVIOUS
  <2>3. NextRound(r) = [outer |-> r.outer, inner |-> r.inner + 1, index |-> 0]
    BY <2>1, <2>2
  <2> QED
    BY <1>2, <2>2, <2>3
<1>3. CASE r.index + 1 = rows /\ r.inner + 1 = rows
  BY <1>3 DEF NextRound
<1> QED
  BY <1>1, <1>2, <1>3

\* A thread that moves to its next round adds one term to the element it is at,
\* and passes it with the last.
LEMMA AddedNext ==
  ASSUME MatTypes, Rounds, mmPc = "mult", rows <= sqrt_of_UINT32_MAX, Unchanging,
         NEW t \in AllThreads, ~Finished(t), round'[t] = NextRound(round[t]),
         NEW row \in Indices, NEW col \in Indices
  PROVE  /\ row = Row(t) /\ col = Col(t) =>
              /\ ~Behind(t, row, col)
              /\ Added(t, row, col) \in Nat
              /\ Added(t, row, col)' =
                   Added(t, row, col) + TermOf(row, col, round[t].index + 1)
         /\ row # Row(t) \/ col # Col(t) =>
              /\ Behind(t, row, col)' = Behind(t, row, col)
              /\ Added(t, row, col)' = Added(t, row, col)
<1> DEFINE r == round[t]
           o == OuterOf(row, col)
           i == InnerOf(row, col)
<1>1. rows \in Nat /\ rows' = rows /\ r \in [outer : Nat, inner : Nat, index : Nat]
  BY MatSame DEF MatTypes, rows, Rounds
<1>2. r.inner < rows /\ r.index < rows
  BY SpotIs
<1>3. PICK s \in [outer : Nat, inner : Nat, index : Nat] :
        /\ s = round'[t]
        /\ \/ r.index + 1 < rows /\ s.index = r.index + 1 /\ s.outer = r.outer /\ s.inner = r.inner
           \/ /\ r.index + 1 = rows /\ r.inner + 1 < rows /\ s.index = 0
              /\ s.outer = r.outer /\ s.inner = r.inner + 1
           \/ /\ r.index + 1 = rows /\ r.inner + 1 = rows /\ s.index = 0
              /\ s.outer = r.outer + 1 /\ s.inner = 0
  BY <1>1, <1>2, NextRoundIs
<1>4. o \in Nat /\ i \in Nat /\ i < rows
  BY <1>1 DEF OuterOf, InnerOf, Indices
<1>5. OuterOf(row, col)' = o /\ InnerOf(row, col)' = i /\ Product(row, col)' = Product(row, col)
  BY MatSame
<1>6. /\ Behind(t, row, col) <=> o < r.outer \/ (o = r.outer /\ i < r.inner)
      /\ Behind(t, row, col)' <=> o < s.outer \/ (o = s.outer /\ i < s.inner)
      /\ At(t, row, col) <=> o = r.outer /\ i = r.inner
      /\ At(t, row, col)' <=> o = s.outer /\ i = s.inner
  BY <1>3, <1>5 DEF Behind, At
<1>7. /\ Added(t, row, col) = IF Behind(t, row, col) THEN Product(row, col)
                              ELSE IF At(t, row, col) THEN Sums(rows, row, col)[r.index] ELSE 0
      /\ Added(t, row, col)' = IF Behind(t, row, col)' THEN Product(row, col)
                               ELSE IF At(t, row, col)' THEN Sums(rows, row, col)[s.index] ELSE 0
  BY <1>1, <1>3, <1>5 DEF Added
<1>8. /\ Sums(rows, row, col) \in [0..rows -> Nat] /\ Sums(rows, row, col)[0] = 0
      /\ Sums(rows, row, col)[r.index + 1] =
           Sums(rows, row, col)[r.index] + TermOf(row, col, r.index + 1)
  <2>1. r.index + 1 \in 1..rows /\ (r.index + 1) - 1 = r.index
    BY <1>1, <1>2
  <2>2. PICK w : w = Sums(rows, row, col)
    OBVIOUS
  <2>3. SumsRec(row, col, w, rows)
    BY <1>1, <2>2, SumsRecursion
  <2>4. /\ w \in [0..rows -> Nat] /\ w[0] = 0
        /\ w[r.index + 1] = w[(r.index + 1) - 1] + TermOf(row, col, r.index + 1)
    BY <2>1, <2>3, Zenon DEF SumsRec
  <2> QED
    BY <2>1, <2>2, <2>4
<1>9. r.outer \in Nat /\ r.inner \in Nat /\ r.index \in Nat /\ s.outer \in Nat /\ s.inner \in Nat
  BY <1>1
<1>10. ASSUME row = Row(t), col = Col(t)
       PROVE  /\ ~Behind(t, row, col)
              /\ Added(t, row, col) \in Nat
              /\ Added(t, row, col)' = Added(t, row, col) + TermOf(row, col, r.index + 1)
  <2>1. o = r.outer /\ i = r.inner
    BY <1>10, SpotIs
  <2>2. ~Behind(t, row, col) /\ At(t, row, col)
    BY <1>6, <1>9, <2>1
  <2>3. Added(t, row, col) = Sums(rows, row, col)[r.index]
    BY <1>7, <2>2
  <2>4. Added(t, row, col) \in Nat
    BY <1>1, <1>2, <1>8, <1>9, <2>3
  <2>5. Added(t, row, col)' = Sums(rows, row, col)[r.index + 1]
    <3>1. CASE s.outer = r.outer /\ s.inner = r.inner /\ s.index = r.index + 1
      <4>1. ~Behind(t, row, col)' /\ At(t, row, col)'
        BY <1>6, <1>9, <2>1, <3>1
      <4> QED
        BY <1>7, <3>1, <4>1
    <3>2. CASE r.index + 1 = rows /\ s.outer = r.outer /\ s.inner = r.inner + 1
      <4>1. Behind(t, row, col)'
        BY <1>6, <1>9, <2>1, <3>2
      <4> QED
        BY <1>7, <3>2, <4>1 DEF Product
    <3>3. CASE r.index + 1 = rows /\ s.outer = r.outer + 1
      <4>1. Behind(t, row, col)'
        BY <1>6, <1>9, <2>1, <3>3
      <4> QED
        BY <1>7, <3>3, <4>1 DEF Product
    <3> QED
      BY <1>3, <3>1, <3>2, <3>3
  <2> QED
    BY <1>8, <2>2, <2>3, <2>4, <2>5
<1>11. ASSUME row # Row(t) \/ col # Col(t)
       PROVE  /\ Behind(t, row, col)' = Behind(t, row, col)
              /\ Added(t, row, col)' = Added(t, row, col)
  <2>1. ~(o = r.outer /\ i = r.inner)
    BY <1>11 DEF OuterOf, InnerOf, Row, Col
  <2>2. ~At(t, row, col)
    BY <1>6, <2>1
  <2>3. CASE s.outer = r.outer /\ s.inner = r.inner
    <3>1. (Behind(t, row, col)' <=> Behind(t, row, col)) /\ ~At(t, row, col)'
      BY <1>6, <2>1, <2>3
    <3>2. Added(t, row, col)' = Added(t, row, col)
      BY <1>7, <2>2, <3>1
    <3> QED
      BY <3>1, <3>2 DEF Behind
  <2>4. CASE s.outer = r.outer /\ s.inner = r.inner + 1 /\ s.index = 0
    <3>1. Behind(t, row, col)' <=> Behind(t, row, col)
      BY <1>4, <1>6, <1>9, <2>1, <2>4
    <3>2. Added(t, row, col)' = Added(t, row, col)
      BY <1>7, <1>8, <2>2, <2>4, <3>1
    <3> QED
      BY <3>1, <3>2 DEF Behind
  <2>5. CASE r.inner + 1 = rows /\ s.outer = r.outer + 1 /\ s.inner = 0 /\ s.index = 0
    <3>1. Behind(t, row, col)' <=> Behind(t, row, col)
      BY <1>1, <1>4, <1>6, <1>9, <2>1, <2>5
    <3>2. Added(t, row, col)' = Added(t, row, col)
      BY <1>7, <1>8, <2>2, <2>5, <3>1
    <3> QED
      BY <3>1, <3>2 DEF Behind
  <2> QED
    BY <1>3, <2>3, <2>4, <2>5
<1> QED
  BY <1>10, <1>11

\* A thread writes its element back, with one term more: what another thread has
\* loaded and added lies in other elements.
LEMMA StoreCKept ==
  ASSUME NEW t \in AllThreads, MatInv, StoreC(t)
  PROVE  MatInv'
<1> USE DEF MatInv
<1>1. /\ mmPc = "mult" /\ loaded[t] # Unloaded /\ mmPc' = mmPc /\ room' = room
      /\ C' = [C EXCEPT ![Cell(t)] = loaded[t] + Term(t)]
      /\ loaded' = [loaded EXCEPT ![t] = Unloaded]
      /\ round' = [round EXCEPT ![t] = NextRound(round[t])]
      /\ Unchanging /\ UNCHANGED timeVars
  BY DEF StoreC
<1>2. rows \in Nat /\ rows <= sqrt_of_UINT32_MAX /\ room = AllocSize \div DoubleSize
  BY <1>1 DEF MatTypes, rows, Rooms
<1>3. /\ round \in [AllThreads -> [outer : Nat, inner : Nat, index : Nat]]
      /\ loaded \in [AllThreads -> Nat \cup {Unloaded}]
      /\ ~Finished(t) /\ Inside(t) /\ loaded[t] = C[Cell(t)]
      /\ C \in [0..room - 1 -> Nat] /\ room \in Nat
  BY <1>1 DEF Rounds, Filled, MatTypes
<1>4. rows * rows < UintValues
  <2>1. Cell(t) \in 0..room - 1
    BY <1>3 DEF Inside
  <2>2. room > 0
    BY <1>3, <2>1
  <2> QED
    BY <1>2, <2>2, RoomIs
<1>5. /\ Row(t) \in Indices /\ Col(t) \in Indices /\ Owns(t, Row(t), Col(t))
      /\ OuterOf(Row(t), Col(t)) = round[t].outer /\ InnerOf(Row(t), Col(t)) = round[t].inner
      /\ round[t].index \in Nat /\ round[t].index < rows /\ round[t].inner < rows
      /\ Cell(t) = Row(t) * rows + Col(t)
      /\ AtA(t) = Row(t) * rows + round[t].index /\ AtB(t) = round[t].index * rows + Col(t)
  BY <1>1, <1>2, <1>3, <1>4, SpotIs
<1>6. Term(t) = TermOf(Row(t), Col(t), round[t].index + 1) /\ Term(t) \in Nat
  <2>1. (round[t].index + 1) - 1 = round[t].index /\ round[t].index + 1 \in 1..rows
    BY <1>2, <1>5
  <2>2. Term(t) = TermOf(Row(t), Col(t), round[t].index + 1)
    BY <1>5, <2>1 DEF Term, TermOf
  <2> QED
    BY <1>2, <1>5, <2>1, <2>2, TermIs
<1>7. PICK c \in 0..room - 1, x \in Nat, y \in Nat :
        c = Cell(t) /\ x = C[c] /\ y = Term(t) /\ C' = [C EXCEPT ![c] = x + y]
  BY <1>1, <1>3, <1>6 DEF Inside
<1>8. C' \in [0..room - 1 -> Nat] /\ C'[c] = x + y /\ \A d \in 0..room - 1 : d # c => C'[d] = C[d]
  BY <1>3, <1>7
<1>9. round'[t] = NextRound(round[t]) /\ \A v \in AllThreads : v # t => round'[v] = round[v]
  BY <1>1, <1>3
<1>10. NextRound(round[t]) \in [outer : Nat, inner : Nat, index : Nat]
  BY <1>2, <1>3, <1>5, NextRoundIs
<1>11. \A v \in AllThreads : v # t => loaded'[v] = loaded[v]
  BY <1>1, <1>3
\* The elements of the other threads, and the other elements of this one, have
\* other addresses.
<1>12. ASSUME NEW row \in Indices, NEW col \in Indices, row # Row(t) \/ col # Col(t),
              row * rows + col < room
       PROVE  C'[row * rows + col] = C[row * rows + col]
  <2>1. /\ row \in Nat /\ col \in Nat /\ row < rows /\ col < rows
        /\ Row(t) \in Nat /\ Col(t) \in Nat /\ Col(t) < rows
    BY <1>2, <1>5 DEF Indices
  <2>2. row * rows + col # c
    <3> SUFFICES ASSUME row * rows + col = Row(t) * rows + Col(t) PROVE FALSE
      BY <1>5, <1>7
    <3>1. row = Row(t) /\ col = Col(t)
      BY ONLY <1>2, <2>1, row * rows + col = Row(t) * rows + Col(t), OneCell
    <3> QED
      BY <1>12, <3>1
  <2>3. row * rows + col \in 0..room - 1
    <3>1. row * rows + col \in Nat
      BY <1>2, <2>1, InSquare
    <3> QED
      BY <1>3, <1>12, <3>1
  <2> QED
    BY <1>8, <2>2, <2>3
<1>13. ASSUME NEW v \in AllThreads, v # t, NEW row \in Indices, NEW col \in Indices,
              Owns(v, row, col)
       PROVE  row # Row(t) \/ col # Col(t)
  <2> SUFFICES ASSUME row = Row(t), col = Col(t) PROVE FALSE
    OBVIOUS
  <2>1. OuterOf(row, col) \in Indices
    BY DEF OuterOf
  <2>2. Owns(t, row, col) /\ Owns(v, row, col)
    BY <1>5, <1>13
  <2> QED
    BY <1>2, <1>13, <2>1, <2>2, OneOwner DEF Owns
<1>14. MatTypes'
  BY <1>1 DEF MatTypes, Unchanging, timeVars
<1>15. Rooms' /\ Filled'
  BY <1>1, <1>2, <1>8, MatSame DEF Rooms, Filled
<1>16. AtBegin' /\ AddedUp' /\ Times' /\ OopsMeansOverflow'
  BY <1>1 DEF AtBegin, AddedUp, Times, timeVars, OopsMeansOverflow
<1>17. Passes'
  BY <1>1 DEF Passes, Unchanging, timeVars
<1>18. Summing'
  <2> SUFFICES ASSUME NEW v \in AllThreads, NEW row \in Indices, NEW col \in Indices,
                      Owns(v, row, col)
               PROVE  /\ Behind(v, row, col)' => row * rows + col < room
                      /\ row * rows + col < room =>
                           C'[row * rows + col] =
                             C0 + pass * Product(row, col) + Added(v, row, col)'
    BY <1>1, MatSame DEF Summing, Unchanging, timeVars
  <2>1. /\ Behind(v, row, col) => row * rows + col < room
        /\ row * rows + col < room =>
             C[row * rows + col] = C0 + pass * Product(row, col) + Added(v, row, col)
    BY <1>1 DEF Summing
  <2>2. CASE v # t
    <3>1. Behind(v, row, col)' = Behind(v, row, col) /\ Added(v, row, col)' = Added(v, row, col)
      BY <1>1, <1>9, <2>2, SameSpot
    <3>2. row # Row(t) \/ col # Col(t)
      BY <1>13, <2>2
    <3>3. row * rows + col < room => C'[row * rows + col] = C[row * rows + col]
      BY <1>12, <3>2
    <3> QED
      BY <2>1, <3>1, <3>3
  <2>3. CASE v = t /\ (row # Row(t) \/ col # Col(t))
    <3>1. Behind(t, row, col)' = Behind(t, row, col) /\ Added(t, row, col)' = Added(t, row, col)
      BY <1>1, <1>2, <1>3, <1>9, <2>3, AddedNext
    <3>2. row * rows + col < room => C'[row * rows + col] = C[row * rows + col]
      BY <1>12, <2>3
    <3> QED
      BY <2>1, <2>3, <3>1, <3>2
  <2>4. CASE v = t /\ row = Row(t) /\ col = Col(t)
    <3>1. /\ Added(t, row, col) \in Nat
          /\ Added(t, row, col)' = Added(t, row, col) + y
      BY <1>1, <1>2, <1>3, <1>6, <1>7, <1>9, <2>4, AddedNext, SMTT(30)
    <3>2. row * rows + col = c /\ c < room
      BY <1>3, <1>5, <1>7, <2>4
    <3>3. x = C0 + pass * Product(row, col) + Added(t, row, col)
      BY <1>7, <2>1, <2>4, <3>2
    <3>4. C0 \in Nat /\ pass * Product(row, col) \in Nat
      <4>1. Sums(rows, row, col)[rows] \in Nat
        BY <1>2, SumsRecursion DEF SumsRec
      <4> QED
        BY <4>1, TimesNat DEF MatTypes, Product
    <3>5. C'[row * rows + col] = C0 + pass * Product(row, col) + Added(t, row, col)'
      BY <1>8, <3>1, <3>2, <3>3, <3>4
    <3> QED
      BY <2>4, <3>2, <3>5
  <2> QED
    BY <2>2, <2>3, <2>4
<1>19. Rounds'
  <2>1. /\ round' \in [AllThreads -> [outer : Nat, inner : Nat, index : Nat]]
        /\ loaded' \in [AllThreads -> Nat \cup {Unloaded}]
        /\ AllThreads' = AllThreads /\ Unloaded' = Unloaded
    BY <1>1, <1>3, <1>10 DEF AllThreads, Unloaded
  <2>2. ASSUME NEW v \in AllThreads
        PROVE  /\ First(v)' <= round'[v].outer /\ round'[v].outer <= EndOf(v)'
               /\ IF Finished(v)' THEN round'[v].inner = 0 /\ round'[v].index = 0
                                  ELSE round'[v].inner < rows' /\ round'[v].index < rows'
               /\ loaded'[v] # Unloaded => ~Finished(v)' /\ Inside(v)' /\ loaded'[v] = C'[Cell(v)']
    <3>1. First(v)' = First(v) /\ EndOf(v)' = EndOf(v) /\ rows' = rows
      BY <1>1, MatSame
    <3>2. /\ First(v) <= round[v].outer /\ round[v].outer <= EndOf(v)
          /\ IF Finished(v) THEN round[v].inner = 0 /\ round[v].index = 0
                            ELSE round[v].inner < rows /\ round[v].index < rows
          /\ loaded[v] # Unloaded => ~Finished(v) /\ Inside(v) /\ loaded[v] = C[Cell(v)]
      BY <1>1 DEF Rounds
    <3>3. CASE v # t
      <4>1. /\ Finished(v)' = Finished(v) /\ Inside(v)' = Inside(v) /\ Cell(v)' = Cell(v)
            /\ round'[v] = round[v] /\ loaded'[v] = loaded[v]
        BY <1>1, <1>9, <1>11, <3>3, SameSpot
      <4>2. ASSUME loaded[v] # Unloaded PROVE C'[Cell(v)] = C[Cell(v)]
        <5>1. ~Finished(v) /\ Inside(v)
          BY <3>2, <4>2
        <5>2. /\ Row(v) \in Indices /\ Col(v) \in Indices /\ Owns(v, Row(v), Col(v))
              /\ Cell(v) = Row(v) * rows + Col(v)
          BY <1>1, <1>2, <1>4, <5>1, SpotIs
        <5>3. Row(v) # Row(t) \/ Col(v) # Col(t)
          BY <1>13, <3>3, <5>2
        <5>4. Cell(v) < room
          BY <1>3, <5>1 DEF Inside
        <5> QED
          BY <1>12, <5>2, <5>3, <5>4
      <4> QED
        BY <3>1, <3>2, <4>1, <4>2
    <3>4. CASE v = t
      <4>1. loaded'[t] = Unloaded
        BY <1>1, <1>3
      <4>2. PICK r \in [outer : Nat, inner : Nat, index : Nat],
                 s \in [outer : Nat, inner : Nat, index : Nat] :
              r = round[t] /\ s = round'[t] /\ s = NextRound(r)
        BY <1>3, <1>9, <1>10
      <4>3. r.outer < EndOf(t) /\ r.inner < rows /\ r.index < rows /\ EndOf(t) \in Nat
            /\ First(t) <= r.outer /\ First(t) \in Nat
        <5>1. EndOf(t) \in Nat /\ First(t) \in Nat /\ r.outer \in Nat
          BY <1>2, OneOwner
        <5>2. r.outer < EndOf(t)
          BY <1>3, <4>2, <5>1 DEF Finished
        <5> QED
          BY <1>5, <3>2, <3>4, <4>2, <5>1, <5>2
      <4>4. \/ /\ r.index + 1 < rows /\ s.index = r.index + 1
               /\ s.outer = r.outer /\ s.inner = r.inner
            \/ /\ r.index + 1 = rows /\ r.inner + 1 < rows /\ s.index = 0
               /\ s.outer = r.outer /\ s.inner = r.inner + 1
            \/ /\ r.index + 1 = rows /\ r.inner + 1 = rows /\ s.index = 0
               /\ s.outer = r.outer + 1 /\ s.inner = 0
        BY <1>2, <4>2, <4>3, NextRoundIs
      <4>5. Finished(t)' <=> s.outer >= EndOf(t)
        BY <3>1, <3>4, <4>2 DEF Finished
      <4>6. First(t) <= s.outer /\ s.outer <= EndOf(t)
        BY <4>3, <4>4
      <4>7. s.outer >= EndOf(t) => s.inner = 0 /\ s.index = 0
        BY <4>3, <4>4
      <4>8. s.inner < rows /\ s.index < rows
        BY <1>2, <4>3, <4>4
      <4> QED
        BY <3>1, <3>4, <4>1, <4>2, <4>5, <4>6, <4>7, <4>8
    <3> QED
      BY <3>3, <3>4
  <2> QED
    BY <1>1, <2>1, <2>2 DEF Rounds
<1> QED
  BY <1>14, <1>15, <1>16, <1>17, <1>18, <1>19

\* When the threads meet, every element has its whole sum once more.
LEMMA Joined ==
  ASSUME MatInv, mmPc = "mult", \A t \in AllThreads : Finished(t),
         NEW row \in Indices, NEW col \in Indices
  PROVE  /\ row * rows + col < room /\ Product(row, col) \in Nat /\ C0 \in Nat
         /\ C[row * rows + col] = C0 + pass * Product(row, col) + Product(row, col)
<1> USE DEF MatInv
<1>1. rows \in Nat /\ rows <= sqrt_of_UINT32_MAX /\ C0 \in Nat
  BY DEF MatTypes, rows, Rooms
<1>2. OuterOf(row, col) \in Indices
  BY DEF OuterOf
<1>3. PICK t \in AllThreads : First(t) <= OuterOf(row, col) /\ OuterOf(row, col) < EndOf(t)
  BY <1>1, <1>2, OneOwner
<1>4. Owns(t, row, col)
  BY <1>3 DEF Owns
<1>5. Behind(t, row, col)
  <2>1. round[t].outer >= EndOf(t) /\ round[t].outer \in Nat /\ EndOf(t) \in Nat
    BY <1>1, OneOwner DEF Finished, Rounds
  <2>2. OuterOf(row, col) \in Nat
    BY <1>1, <1>2 DEF Indices
  <2> QED
    BY <1>3, <2>1, <2>2 DEF Behind
<1>6. Added(t, row, col) = Product(row, col)
  BY <1>5 DEF Added
<1>7. Product(row, col) \in Nat
  BY <1>1, SumsRecursion DEF SumsRec, Product
<1> QED
  BY <1>1, <1>4, <1>5, <1>6, <1>7 DEF Summing

\* The shortest and the longest time bound every time, and the sum as long as an
\* unsigned long holds it.
LEMMA TimesKept ==
  ASSUME MatTypes, Times, NEW ns \in RunTimes, pass' = pass + 1,
         runs' = runs \cup {ns}, sumns' = Mod(sumns + ns),
         \/ pass = 0 /\ maxns' = ns /\ minns' = ns
         \/ pass > 0 /\ maxns' = (IF ns > maxns THEN ns ELSE maxns) /\ minns' = NewMin(ns)
  PROVE  Times' /\ sumns' \in Nat /\ {maxns', minns'} \subseteq Int /\ runs' \subseteq Int
<1>1. PICK p \in Nat, s \in Nat, u \in Nat \ {0}, mx \in Int, mn \in Int, x \in Int :
        p = pass /\ s = sumns /\ u = UintValues /\ mx = maxns /\ mn = minns /\ x = ns
  <2>1. UintValues \in Nat \ {0}
    <3>1. 1 * sqrt_of_UINT32_MAX <= sqrt_of_UINT32_MAX * sqrt_of_UINT32_MAX
      BY MatrixAssumption, TimesMonotone
    <3>2. sqrt_of_UINT32_MAX * sqrt_of_UINT32_MAX \in Nat
      BY MatrixAssumption, TimesNat
    <3> QED
      BY <3>1, <3>2, MatrixAssumption
  <2>2. ns \in Int
    BY MatrixAssumption
  <2> QED
    BY <2>1, <2>2 DEF MatTypes
<1>2. sumns' = (s + x) % u /\ sumns' \in Nat
  BY <1>1 DEF Mod
<1>3. PICK a \in Int, b \in Int : /\ a = minns' /\ b = maxns' /\ a <= x /\ x <= b
                                  /\ a \in runs' /\ b \in runs'
                                  /\ p > 0 => a <= mn /\ mx <= b
  <2>1. CASE pass = 0
    BY <1>1, <2>1
  <2>2. CASE pass > 0
    <3>1. mn \in runs /\ mx \in runs /\ mn <= mx
      BY <1>1, <2>2 DEF Times
    <3>2. CASE ns > maxns
      BY <1>1, <2>2, <3>1, <3>2 DEF NewMin
    <3>3. CASE ~(ns > maxns)
      <4>1. maxns' = mx /\ minns' = IF x < mn THEN x ELSE mn
        BY <1>1, <2>2, <3>3 DEF NewMin
      <4>2. CASE x < mn
        BY <1>1, <3>1, <3>3, <4>1, <4>2
      <4>3. CASE ~(x < mn)
        BY <1>1, <3>1, <3>3, <4>1, <4>3
      <4> QED
        BY <4>2, <4>3
    <3> QED
      BY <3>2, <3>3
  <2> QED
    BY <1>1, <2>1, <2>2
<1>4. runs' \subseteq Int
  BY <1>1 DEF MatTypes
<1>5. ASSUME NEW y \in runs' PROVE a <= y /\ y <= b
  <2>1. CASE y = ns
    BY <1>1, <1>3, <2>1
  <2>2. CASE y \in runs
    <3>1. p # 0 /\ y \in Int
      BY <1>1, <2>2 DEF Times, MatTypes
    <3>2. p > 0 /\ mn <= y /\ y <= mx
      BY <1>1, <2>2, <3>1 DEF Times
    <3> QED
      BY <1>3, <3>1, <3>2
  <2> QED
    BY <2>1, <2>2
<1>6. ASSUME runs' \subseteq Nat, (p + 1) * b < u
      PROVE  (p + 1) * a <= sumns' /\ sumns' <= (p + 1) * b
  <2>1. a \in Nat /\ b \in Nat /\ x \in Nat
    BY <1>1, <1>3, <1>6
  <2>2. /\ (p + 1) * a = p * a + a /\ (p + 1) * b = p * b + b
        /\ p * a \in Nat /\ p * b \in Nat
    BY <2>1, Distribute, TimesNat
  <2>3. p * a <= s /\ s <= p * b
    <3>1. CASE p = 0
      <4>1. s = 0
        BY <1>1, <3>1 DEF Times
      <4> QED
        BY <2>1, <3>1, <4>1
    <3>2. CASE p > 0
      <4>1. runs \subseteq Nat /\ mn \in runs /\ mx \in runs
        BY <1>1, <1>6, <3>2 DEF Times
      <4>2. a * p <= mn * p /\ mx * p <= b * p
        BY <1>3, <2>1, <3>2, <4>1, TimesMonotone
      <4>3. /\ a * p = p * a /\ mn * p = p * mn /\ mx * p = p * mx /\ b * p = p * b
            /\ p * mn \in Nat /\ p * mx \in Nat
        BY <2>1, <4>1, TimesNat
      <4>4. p * mx < u
        BY <1>6, <2>1, <2>2, <4>2, <4>3
      <4>5. p * mn <= s /\ s <= p * mx
        BY <1>1, <3>2, <4>1, <4>4 DEF Times
      <4> QED
        BY <2>2, <4>2, <4>3, <4>5
    <3> QED
      BY <3>1, <3>2
  <2>4. p * a + a <= s + x /\ s + x <= p * b + b
    <3>1. PICK v \in Nat, w \in Nat : v = p * a /\ w = p * b
      BY <2>2
    <3>2. a <= x /\ x <= b /\ v <= s /\ s <= w
      BY <1>3, <2>3, <3>1
    <3>3. v + a <= s + x /\ s + x <= w + b
      BY ONLY <2>1, <3>2
    <3> QED
      BY <3>1, <3>3
  <2>5. s + x \in Nat /\ s + x < u
    BY <1>6, <2>1, <2>2, <2>4
  <2>6. sumns' = s + x
    BY <1>2, <2>5, ModIs
  <2> QED
    BY <2>2, <2>4, <2>6
<1>7. Times'
  <2>1. /\ {maxns', minns'} \subseteq runs' /\ \A y \in runs' : minns' <= y /\ y <= maxns'
        /\ pass' = p + 1 /\ UintValues = u
    BY <1>1, <1>3, <1>5
  <2>2. runs' \subseteq Nat /\ pass' * maxns' < UintValues =>
          pass' * minns' <= sumns' /\ sumns' <= pass' * maxns'
    BY <1>3, <1>6, <2>1
  <2> QED
    BY <2>1, <2>2 DEF Times
<1> QED
  BY <1>2, <1>3, <1>4, <1>7

\* The threads meet: the end of a multiplication, of all or of the time's next one.
LEMMA JoinKept ==
  ASSUME MatInv, Join PROVE MatInv'
<1> USE DEF MatInv
<1>1. /\ mmPc = "mult" /\ \A t \in AllThreads : Finished(t)
      /\ Unchanging /\ UNCHANGED <<room, C, loaded>>
  BY DEF Join
<1>2. rows \in Nat /\ rows <= sqrt_of_UINT32_MAX /\ room = AllocSize \div DoubleSize
  BY <1>1 DEF MatTypes, rows, Rooms
<1>3. pass \in Nat /\ iterations \in Int /\ pass < iterations
  BY <1>1 DEF MatTypes, Passes
<1>4. CASE mmProg # "timed" /\ mmPc' = "verify" /\ UNCHANGED <<round, timeVars>>
  <2>1. MatTypes'
    BY <1>1, <1>4 DEF MatTypes, Unchanging, timeVars
  <2>2. Rooms' /\ Filled'
    BY <1>1, <1>2, <1>4, MatSame DEF Rooms, Filled
  <2>3. Rounds' /\ AtBegin' /\ Summing' /\ Passes' /\ Times' /\ OopsMeansOverflow'
    BY <1>1, <1>4 DEF Rounds, AtBegin, Summing, Passes, Times, timeVars, OopsMeansOverflow
  <2>4. pass = 0 /\ iterations = 1
    BY <1>3, <1>4 DEF MatTypes
  <2>5. AddedUp'
    <3> SUFFICES ASSUME NEW row \in Indices, NEW col \in Indices
                 PROVE  /\ row * rows + col < room
                        /\ C[row * rows + col] = C0 + iterations * Product(row, col)
      BY <1>1, MatSame DEF AddedUp, Unchanging
    <3>1. /\ row * rows + col < room /\ Product(row, col) \in Nat /\ C0 \in Nat
          /\ C[row * rows + col] = C0 + pass * Product(row, col) + Product(row, col)
      BY <1>1, Joined
    <3> QED
      BY <2>4, <3>1
  <2> QED
    BY <2>1, <2>2, <2>3, <2>5
<1>5. CASE /\ mmProg = "timed" /\ pass' = pass + 1
           /\ round' = [t \in AllThreads |-> Begin(t)]
           /\ mmPc' = (IF pass + 1 < iterations THEN "mult" ELSE "stats")
           /\ \E ns \in RunTimes :
                /\ runs' = runs \cup {ns} /\ sumns' = Mod(sumns + ns)
                /\ \/ pass = 0 /\ maxns' = ns /\ minns' = ns
                   \/ /\ pass > 0 /\ maxns' = (IF ns > maxns THEN ns ELSE maxns)
                      /\ minns' = NewMin(ns)
  <2>1. Times' /\ sumns' \in Nat /\ {maxns', minns'} \subseteq Int /\ runs' \subseteq Int
    BY <1>5, TimesKept
  <2>2. mmPc' \in {"mult", "stats"} /\ pass' \in Nat
    BY <1>3, <1>5
  <2>3. MatTypes'
    BY <1>1, <2>1, <2>2 DEF MatTypes, Unchanging
  <2>4. Rooms' /\ Filled'
    BY <1>1, <1>2, <2>2, MatSame DEF Rooms, Filled
  <2>5. AtBegin' /\ OopsMeansOverflow'
    BY <2>2 DEF AtBegin, OopsMeansOverflow
  <2>6. Passes'
    <3>1. iterations' = iterations /\ mmProg' = "timed"
      BY <1>1, <1>5 DEF Unchanging
    <3>2. CASE pass + 1 < iterations
      BY <1>5, <3>1, <3>2 DEF Passes
    <3>3. CASE ~(pass + 1 < iterations)
      <4>1. pass + 1 = iterations
        BY <1>3, <3>3
      <4> QED
        BY <1>5, <3>1, <3>3, <4>1 DEF Passes
    <3> QED
      BY <3>2, <3>3
  <2>7. ASSUME NEW row \in Indices, NEW col \in Indices
        PROVE  /\ row * rows + col < room /\ Product(row, col) \in Nat /\ C0 \in Nat
               /\ C[row * rows + col] = C0 + (pass + 1) * Product(row, col)
    <3>1. /\ row * rows + col < room /\ Product(row, col) \in Nat /\ C0 \in Nat
          /\ C[row * rows + col] = C0 + pass * Product(row, col) + Product(row, col)
      BY <1>1, Joined
    <3>2. /\ (pass + 1) * Product(row, col) = pass * Product(row, col) + Product(row, col)
          /\ pass * Product(row, col) \in Nat
      BY <1>3, <3>1, Distribute, TimesNat
    <3> QED
      BY <3>1, <3>2
  <2>8. AddedUp'
    <3> SUFFICES ASSUME mmPc' = "stats", iterations > 0,
                        NEW row \in Indices, NEW col \in Indices
                 PROVE  /\ row * rows + col < room
                        /\ C[row * rows + col] = C0 + iterations * Product(row, col)
      BY <1>1, <2>2, MatSame DEF AddedUp, Unchanging
    <3>1. pass + 1 = iterations
      BY <1>3, <1>5
    <3> QED
      BY <2>7, <3>1
  <2>9. \A t \in AllThreads : round'[t] = Begin(t) /\ loaded'[t] = Unloaded
    BY <1>1, <1>5 DEF Rounds
  <2>10. Summing'
    <3> SUFFICES ASSUME NEW t \in AllThreads, NEW row \in Indices, NEW col \in Indices,
                        Owns(t, row, col)
                 PROVE  /\ ~Behind(t, row, col)'
                        /\ C[row * rows + col] =
                             C0 + (pass + 1) * Product(row, col) + Added(t, row, col)'
      BY <1>1, <1>5, MatSame DEF Summing, Unchanging
    <3>1. round'[t].outer = First(t) /\ round'[t].inner = 0 /\ round'[t].index = 0
      BY <1>2, <2>9, BeginIs
    <3>2. OuterOf(row, col) >= First(t) /\ OuterOf(row, col) \in Nat /\ InnerOf(row, col) \in Nat
          /\ First(t) \in Nat
      BY <1>2, OneOwner DEF Owns, OuterOf, InnerOf, Indices
    <3>3. ~Behind(t, row, col)'
      BY <1>1, <3>1, <3>2, MatSame DEF Behind
    <3>4. Added(t, row, col)' = 0
      <4>1. Sums(rows, row, col)[0] = 0
        BY <1>2, SumsRecursion DEF SumsRec
      <4>2. rows' = rows
        BY <1>1, MatSame
      <4> QED
        BY <3>1, <3>3, <4>1, <4>2 DEF Added
    <3>5. (pass + 1) * Product(row, col) \in Nat
      BY <1>3, <2>7, TimesNat
    <3> QED
      BY <2>7, <3>3, <3>4, <3>5
  <2>11. Rounds'
    <3>1. AllThreads' = AllThreads /\ Unloaded' = Unloaded
      BY DEF AllThreads, Unloaded
    <3>2. /\ round' \in [AllThreads -> [outer : Nat, inner : Nat, index : Nat]]
          /\ loaded' \in [AllThreads -> Nat \cup {Unloaded}]
      BY <1>1, <1>2, <1>5, BeginIs DEF Rounds
    <3>3. ASSUME NEW t \in AllThreads
          PROVE  /\ First(t)' <= round'[t].outer /\ round'[t].outer <= EndOf(t)'
                 /\ IF Finished(t)' THEN round'[t].inner = 0 /\ round'[t].index = 0
                                    ELSE round'[t].inner < rows' /\ round'[t].index < rows'
                 /\ loaded'[t] = Unloaded
      <4>1. First(t)' = First(t) /\ EndOf(t)' = EndOf(t) /\ rows' = rows
        BY <1>1, MatSame
      <4>2. round'[t].outer = First(t) /\ round'[t].inner = 0 /\ round'[t].index = 0
        BY <1>2, <2>9, BeginIs
      <4>3. Finished(t)' <=> First(t) >= EndOf(t)
        BY <4>1, <4>2 DEF Finished
      <4> QED
        BY <1>2, <2>9, <4>1, <4>2, <4>3, BeginIs
    <3> QED
      BY <3>1, <3>2, <3>3 DEF Rounds
  <2> QED
    BY <2>1, <2>3, <2>4, <2>5, <2>6, <2>8, <2>10, <2>11
<1> QED
  BY <1>1, <1>4, <1>5 DEF Join

\* Every step keeps the invariant.
LEMMA MatStep ==
  ASSUME MatInv, [MatNext]_mmVars PROVE MatInv'
<1>1. CASE AllocMatrices
  BY <1>1, AllocKeeps
<1>2. CASE Fill
  BY <1>2, FillKeeps
<1>3. CASE Join
  BY <1>3, JoinKept
<1>4. ASSUME NEW t \in AllThreads, LoadC(t) PROVE MatInv'
  BY <1>4, LoadCKept
<1>5. ASSUME NEW t \in AllThreads, StoreC(t) PROVE MatInv'
  BY <1>5, StoreCKept
<1>6. CASE PrintStats \/ Verify
  <2>1. /\ mmPc \in {"stats", "verify"} /\ Unchanging
        /\ UNCHANGED <<room, C, round, loaded, timeVars>>
        /\ mmPc' \in {"oops", "verify", "done", "assert"}
        /\ mmPc' = "verify" => mmPc = "stats"
        /\ mmPc' = "oops" => room < rows * rows \/ iterations = 0
    BY <1>6 DEF PrintStats, Verify
  <2>2. rows \in Nat /\ rows <= sqrt_of_UINT32_MAX /\ room = AllocSize \div DoubleSize
    BY <2>1 DEF MatInv, MatTypes, rows, Rooms
  <2>3. MatTypes'
    BY <2>1 DEF MatInv, MatTypes, Unchanging, timeVars
  <2>4. Rooms' /\ Filled' /\ AddedUp'
    BY <2>1, <2>2, MatSame DEF MatInv, Rooms, Filled, AddedUp, Unchanging
  <2>5. Rounds' /\ AtBegin' /\ Summing' /\ Passes' /\ Times'
    BY <2>1 DEF MatInv, Rounds, AtBegin, Summing, Passes, Times, timeVars
  <2>6. OopsMeansOverflow'
    <3> SUFFICES ASSUME mmPc' = "oops", iterations # 0, DoubleSize * rows * rows < UintValues
                 PROVE  FALSE
      <4>1. DoubleSize * rows * rows \in Int /\ UintValues \in Int /\ rows' = rows
        BY <2>1, <2>2, RoomIs, MatSame, MatrixAssumption
      <4> QED
        BY <2>1, <4>1 DEF OopsMeansOverflow, Unchanging
    <3>1. room = rows * rows /\ rows * rows \in Nat
      BY <2>2, RoomIs
    <3> QED
      BY <2>1, <3>1
  <2> QED
    BY <2>3, <2>4, <2>5, <2>6 DEF MatInv
<1>7. CASE UNCHANGED mmVars
  <2>1. /\ Unchanging /\ UNCHANGED <<mmPc, room, C, round, loaded, timeVars>>
    BY <1>7 DEF mmVars, Unchanging
  <2>2. rows' = rows /\ \A t : round'[t] = round[t]
    BY <2>1, MatSame
  <2>3. MatTypes' /\ Filled' /\ Passes' /\ Times' /\ OopsMeansOverflow'
    BY <2>1, <2>2 DEF MatInv, MatTypes, Filled, Passes, Times, OopsMeansOverflow, Unchanging,
                      timeVars
  <2>4. Rooms' /\ AtBegin' /\ AddedUp'
    BY <2>1, <2>2, MatSame DEF MatInv, Rooms, AtBegin, AddedUp, Unchanging, AllThreads
  <2>5. Summing'
    <3> SUFFICES ASSUME mmPc = "mult", NEW t \in AllThreads,
                        NEW row \in Indices, NEW col \in Indices,
                        Owns(t, row, col)
                 PROVE  /\ Behind(t, row, col)' => row * rows + col < room
                        /\ row * rows + col < room =>
                             C[row * rows + col] =
                               C0 + pass * Product(row, col) + Added(t, row, col)'
      BY <2>1, MatSame DEF Summing, Unchanging, timeVars
    <3>1. Behind(t, row, col)' = Behind(t, row, col) /\ Added(t, row, col)' = Added(t, row, col)
      BY <2>1, <2>2, SameSpot
    <3>2. /\ Behind(t, row, col) => row * rows + col < room
          /\ row * rows + col < room =>
               C[row * rows + col] = C0 + pass * Product(row, col) + Added(t, row, col)
      BY DEF MatInv, Summing
    <3> QED
      BY <3>1, <3>2
  <2>6. Rounds'
    <3>1. AllThreads' = AllThreads /\ Unloaded' = Unloaded
      BY DEF AllThreads, Unloaded
    <3>2. ASSUME NEW t \in AllThreads
          PROVE  /\ First(t)' = First(t) /\ EndOf(t)' = EndOf(t) /\ rows' = rows
                 /\ Finished(t)' = Finished(t) /\ Inside(t)' = Inside(t) /\ Cell(t)' = Cell(t)
      BY <2>1, <2>2, MatSame, SameSpot
    <3> QED
      BY <2>1, <3>1, <3>2 DEF MatInv, Rounds
  <2> QED
    BY <2>3, <2>4, <2>5, <2>6 DEF MatInv
<1> QED
  BY <1>1, <1>2, <1>3, <1>4, <1>5, <1>6, <1>7 DEF MatNext

\* The invariant of the matrix programs holds in every state.
LEMMA MatInductive == MatSpec => []MatInv
BY MatInitial, MatStep, PTL DEF MatSpec

\* What the matrices and the loops hold after the model stopped, too.
MatHeld ==
  /\ \A i \in DOMAIN C : i < room /\ C[i] \in Nat
  /\ mmPc \in {"start", "fill"} => C = <<>>
  /\ round \in [AllThreads -> [outer : Nat, inner : Nat, index : Nat]]
  /\ loaded \in [AllThreads -> Nat \cup {Unloaded}]
  /\ sumns = Mod(sumns)

\* Before the allocation C is empty.
LEMMA MatHeldInitial == MatInit => MatHeld
<1> SUFFICES ASSUME MatInit PROVE MatHeld
  OBVIOUS
<1>1. C = <<>> /\ DOMAIN C = {}
  BY DEF MatInit
<1>2. MatInv
  BY MatInitial
<1>3. /\ round \in [AllThreads -> [outer : Nat, inner : Nat, index : Nat]]
      /\ loaded \in [AllThreads -> Nat \cup {Unloaded}]
  BY <1>2 DEF MatInit, MatInv, Rounds
<1>4. sumns = Mod(sumns)
  <2>1. UintValues \in Nat \ {0}
    BY RoomIs, MatrixAssumption
  <2>2. sumns = 0
    BY DEF MatInit
  <2> QED
    BY <2>1, <2>2, ModIs DEF Mod
<1> QED
  BY <1>1, <1>3, <1>4 DEF MatHeld

\* Every step of the matrix programs keeps these types.
LEMMA MatHeldStep ==
  ASSUME MatInv, MatInv', MatHeld, [MatNext]_mmVars PROVE MatHeld'
<1>1. CASE UNCHANGED mmVars
  BY <1>1 DEF mmVars, timeVars, MatHeld, Mod
<1>2. CASE AllocMatrices
  <2>1. C' = <<>> /\ DOMAIN C' = {}
    BY <1>2 DEF AllocMatrices, MatHeld
  <2> QED
    BY <1>2, <2>1 DEF AllocMatrices, MatHeld, timeVars, Mod
<1>3. CASE Fill
  <2>1. \A i \in DOMAIN C' : i < room' /\ C'[i] \in Nat
    <3>1. room \in Nat /\ C0 \in Nat /\ room' = room
      BY <1>3 DEF Fill, MatInv, MatTypes
    <3>2. CASE C' = [i \in 0..room - 1 |-> C0]
      BY <3>1, <3>2
    <3>3. CASE UNCHANGED C
      BY <3>1, <3>3 DEF MatHeld
    <3> QED
      BY <1>3, <3>2, <3>3 DEF Fill
  <2>2. mmPc' \notin {"start", "fill"}
    BY <1>3 DEF Fill
  <2> QED
    BY <1>3, <2>1, <2>2 DEF Fill, MatHeld, timeVars, Mod
<1>4. CASE \E t \in AllThreads : LoadC(t) \/ StoreC(t)
  <2>1. PICK t \in AllThreads : LoadC(t) \/ StoreC(t)
    BY <1>4
  <2>2. mmPc = "mult" /\ room' = room /\ sumns' = sumns /\ mmPc' \in {"mult", "oops"}
    BY <2>1 DEF LoadC, StoreC, timeVars
  <2>3. CASE mmPc' = "mult"
    <3>1. /\ round' \in [AllThreads -> [outer : Nat, inner : Nat, index : Nat]]
          /\ loaded' \in [AllThreads -> Nat \cup {Unloaded}]
          /\ C' \in [0..room' - 1 -> Nat] /\ room' \in Nat
      BY <2>3 DEF MatInv, MatTypes, Rounds, Filled, AllThreads, Unloaded
    <3>r. PICK r : r = room'
      OBVIOUS
    <3>c. PICK c : c = C'
      OBVIOUS
    <3>2. \A i \in DOMAIN C' : i < room' /\ C'[i] \in Nat
      <4>1. r \in Nat /\ c \in [0..r - 1 -> Nat]
        BY <3>1, <3>r, <3>c
      <4>2. \A i \in DOMAIN c : i < r /\ c[i] \in Nat
        BY <4>1
      <4> QED
        BY <3>r, <3>c, <4>2
    <3> QED
      BY <2>2, <2>3, <3>1, <3>2 DEF MatHeld, Mod, AllThreads, Unloaded
  <2>4. CASE mmPc' = "oops"
    <3>1. UNCHANGED <<C, round, loaded>>
      BY <2>1, <2>2, <2>4 DEF LoadC, StoreC
    <3> QED
      BY <2>2, <2>4, <3>1 DEF MatHeld, Mod
  <2> QED
    BY <2>2, <2>3, <2>4
<1>5. CASE Join
  <2>1. mmPc' \notin {"start", "fill"} /\ UNCHANGED <<room, C, loaded>>
    BY <1>5 DEF Join
  <2>2. round' \in [AllThreads -> [outer : Nat, inner : Nat, index : Nat]]
    <3>1. CASE round' = [t \in AllThreads |-> Begin(t)]
      <4>1. \A t \in AllThreads : Begin(t) \in [outer : Nat, inner : Nat, index : Nat]
        BY BeginIs DEF MatInv, MatTypes, rows
      <4> QED
        BY <3>1, <4>1
    <3> QED
      BY <1>5, <3>1 DEF Join, MatHeld
  <2>3. sumns' = Mod(sumns)'
    <3>1. CASE UNCHANGED timeVars
      BY <3>1 DEF timeVars, MatHeld, Mod
    <3>2. CASE \E ns \in RunTimes : sumns' = Mod(sumns + ns)
      <4>1. PICK ns \in RunTimes : sumns' = (sumns + ns) % UintValues
        BY <3>2 DEF Mod
      <4>2. sumns \in Nat /\ ns \in Int /\ UintValues \in Nat \ {0}
        BY RoomIs, MatrixAssumption DEF MatInv, MatTypes
      <4>3. sumns' \in Nat /\ sumns' < UintValues
        BY <4>1, <4>2
      <4> QED
        BY <4>2, <4>3, ModIs DEF Mod
    <3> QED
      BY <1>5, <3>1, <3>2 DEF Join
  <2> QED
    BY <2>1, <2>2, <2>3 DEF MatHeld
<1>6. CASE PrintStats \/ Verify
  <2>1. mmPc' \notin {"start", "fill"} /\ UNCHANGED <<room, C, round, loaded, timeVars>>
    BY <1>6 DEF PrintStats, Verify
  <2> QED
    BY <2>1 DEF MatHeld, timeVars, Mod
<1> QED
  BY <1>1, <1>2, <1>3, <1>4, <1>5, <1>6 DEF MatNext

\* Nothing is stored outside of C, the sum of the times is one of 32 bits, and the
\* loops count in natural numbers, whichever thread is where.
THEOREM MatTypeCorrect == MatSpec => []MatTypeOK
<1>1. MatInv /\ MatHeld => MatTypeOK
  BY DEF MatInv, MatTypes, MatHeld, MatTypeOK
<1> QED
  BY <1>1, MatInductive, MatHeldInitial, MatHeldStep, PTL DEF MatSpec

\* For matrices of any size, any number of threads and any iterations, a program
\* that comes to the end of its multiplications has in every element of C the
\* whole sum, once for each iteration, on top of what was in memory, although the
\* threads of parallel_dense_mm.c add to C without a lock.
THEOREM SumIsRight == MatSpec => []SumRight
<1>1. ASSUME MatInv PROVE SumRight
  <2> SUFFICES ASSUME mmPc \in {"verify", "done"}, iterations > 0 PROVE
                 /\ DOMAIN C = 0..(rows * rows) - 1
                 /\ \A row, col \in Indices :
                      C[row * rows + col] = C0 + iterations * Product(row, col)
    BY DEF SumRight, Indices
  <2>1. \A row, col \in Indices :
          /\ row * rows + col < room
          /\ C[row * rows + col] = C0 + iterations * Product(row, col)
    BY <1>1 DEF MatInv, AddedUp
  <2>2. rows \in Nat /\ rows <= sqrt_of_UINT32_MAX /\ room = AllocSize \div DoubleSize
    BY <1>1 DEF MatInv, MatTypes, rows, Rooms
  <2>3. room \in Nat /\ room <= rows * rows /\ rows * rows \in Nat
    BY <2>2, RoomIs
  <2>4. room = rows * rows
    <3>1. CASE rows = 0
      BY <2>3, <3>1
    <3>2. CASE rows # 0
      <4>1. rows - 1 \in Indices
        BY <2>2, <3>2 DEF Indices
      <4>2. (rows - 1) * rows + (rows - 1) < room
        BY <2>1, <4>1
      <4>3. ((rows - 1) + 1) * rows = (rows - 1) * rows + rows /\ (rows - 1) + 1 = rows
            /\ (rows - 1) * rows \in Nat
        BY <2>2, <3>2, Distribute, TimesNat
      <4> QED
        BY <2>2, <2>3, <4>2, <4>3
    <3> QED
      BY <3>1, <3>2
  <2>5. C \in [0..room - 1 -> Nat]
    BY <1>1 DEF MatInv, Filled
  <2> QED
    BY <2>1, <2>4, <2>5
<1> QED
  BY <1>1, MatInductive, PTL

\* After one pass over cleared memory the sum is the product.
LEMMA OnePass ==
  ASSUME MatInv, SumRight, iterations = 1, C0 = 0, mmPc \in {"verify", "done"}
  PROVE  /\ DOMAIN C = 0..(rows * rows) - 1
         /\ \A row, col \in Indices : C[row * rows + col] = Product(row, col)
<1>1. /\ DOMAIN C = 0..(rows * rows) - 1
      /\ \A row, col \in Indices : C[row * rows + col] = 0 + 1 * Product(row, col)
  BY DEF SumRight, Indices
<1>2. ASSUME NEW row \in Indices, NEW col \in Indices
      PROVE  Product(row, col) \in Nat
  <2>1. rows \in Nat /\ rows <= sqrt_of_UINT32_MAX
    BY DEF MatInv, MatTypes, rows, Rooms
  <2>2. Sums(rows, row, col)[rows] \in Nat
    BY <2>1, SumsRecursion DEF SumsRec
  <2> QED
    BY <2>2 DEF Product
<1> QED
  BY <1>1, <1>2

\* Only the comparison of the product ends a program with a failed assert.
LEMMA AssertHolds ==
  ASSUME MatInv, SumRight, iterations = 1 /\ C0 = 0 => mmPc # "assert", [MatNext]_mmVars
  PROVE  iterations' = 1 /\ C0' = 0 => mmPc' # "assert"
<1> SUFFICES ASSUME iterations' = 1, C0' = 0, mmPc' = "assert" PROVE FALSE
  OBVIOUS
<1>1. iterations = 1 /\ C0 = 0 /\ mmPc # "assert"
  BY DEF MatNext, mmVars, AllocMatrices, Fill, LoadC, StoreC, Join, PrintStats, Verify, Unchanging
<1>2. Verify
  BY <1>1 DEF MatNext, mmVars, AllocMatrices, Fill, LoadC, StoreC, Join, PrintStats
<1>3. /\ mmPc = "verify"
      /\ \E row, col \in Indices : C[row * rows + col] # Product(row, col)
  BY <1>2 DEF Verify, Indices
<1> QED
  BY <1>1, <1>3, OnePass

\* In one pass over cleared memory the matrix programs compute A*B = C, for any
\* size and number of threads, and the comparison of VERIFY_PARALLEL does not fail.
THEOREM ProductIsRight == MatSpec => []ProductRight
<1>1. MatInit => (iterations = 1 /\ C0 = 0 => mmPc # "assert")
  BY DEF MatInit
<1>2. MatInv /\ SumRight /\ (iterations = 1 /\ C0 = 0 => mmPc # "assert")
        /\ [MatNext]_mmVars
      => (iterations = 1 /\ C0 = 0 => mmPc # "assert")'
  BY AssertHolds
<1>3. MatInv /\ SumRight /\ (iterations = 1 /\ C0 = 0 => mmPc # "assert") => ProductRight
  BY OnePass DEF ProductRight, Indices
<1> QED
  BY <1>1, <1>2, <1>3, MatInductive, SumIsRight, PTL DEF MatSpec

\* For sizes whose bytes an unsigned number counts no access is outside a matrix,
\* and as long as the sum of the times fits the statistics of the timed program
\* bound its mean, whatever the size, the threads, the times and the iterations.
THEOREM NumbersDoFit == MatSpec => []NumbersFit
<1>1. ASSUME MatInv PROVE NumbersFit
  <2>1. OopsMeansOverflow
    BY <1>1 DEF MatInv
  <2>2. ASSUME mmPc = "stats", iterations > 0
        PROVE  /\ \A ns \in runs : minns <= ns /\ ns <= maxns
               /\ runs \subseteq Nat /\ iterations * maxns < UintValues =>
                    minns <= sumns \div iterations /\ sumns \div iterations <= maxns
    <3>1. /\ pass = iterations /\ pass \in Nat \ {0} /\ sumns \in Nat
          /\ {maxns, minns} \subseteq runs
          /\ \A ns \in runs : minns <= ns /\ ns <= maxns
      BY <1>1, <2>2 DEF MatInv, MatTypes, Passes, Times
    <3>2. ASSUME runs \subseteq Nat, iterations * maxns < UintValues
          PROVE  minns <= sumns \div iterations /\ sumns \div iterations <= maxns
      <4>1. minns \in Nat /\ maxns \in Nat /\ pass * minns <= sumns /\ sumns <= pass * maxns
        <5>1. pass > 0 /\ pass * maxns < UintValues
          BY <3>1, <3>2
        <5> QED
          BY <1>1, <3>1, <3>2, <5>1 DEF MatInv, Times
      <4>2. pass * minns = minns * pass /\ pass * maxns = maxns * pass
        BY <3>1, <4>1
      <4> QED
        BY <3>1, <4>1, <4>2, DivIs
    <3> QED
      BY <3>1, <3>2
  <2> QED
    BY <2>1, <2>2 DEF NumbersFit, StatsBound
<1> QED
  BY <1>1, MatInductive, PTL
=============================================================================
