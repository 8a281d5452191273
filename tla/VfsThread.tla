----------------------------- MODULE VfsThread -----------------------------
(***************************************************************************)
(* Studio 15 (studios/studio15/vfs_thread.c): a module whose kernel thread  *)
(* looks up a process by its number and writes a message to the standard    *)
(* output of that process, through the process's own files.  Meanwhile the  *)
(* process may close its output, exit and be reaped, and the module may be   *)
(* unloaded.                                                               *)
(*                                                                         *)
(* An access to freed memory, or a step in the code of a removed module,     *)
(* ends the thread (vfsPc = "oops") or gives one of the values named below.  *)
(***************************************************************************)

VARIABLES
  vfsModule,      \* "new", "loaded" or "removed"
  vfsPc,          \* where thread_fn is
  pinned,         \* the thread holds a reference to the target's task_struct
  files,          \* pidtask->files as loaded: "none", "null" or "table"
  file,           \* what fcheck_files returned: "none", "null" or "stdout"
  hello,          \* who got the message: "nobody", "target" or "elsewhere"
  target,         \* the process: "running", "zombie" (files given up), "reaped"
  stdoutOpen,     \* descriptor 1 of the process
  heldElsewhere,  \* another process has the same file open, as on a terminal
  hasWrite,       \* the file's operations have .write, not just .write_iter
  rootGone        \* a directory entry was freed while the thread stood on it

vfsVars == <<vfsModule, vfsPc, pinned, files, file, hello, target, stdoutOpen,
             heldElsewhere, hasWrite, rootGone>>
targetVars == <<target, stdoutOpen, heldElsewhere, hasWrite>>

InThread == {"start", "walk", "find", "task", "files", "fcheck", "fop", "write",
             "return"}

\* What the kernel has freed.
TaskFreed  == target = "reaped" /\ ~pinned
TableFreed == target # "running"
FileFreed  == ~stdoutOpen /\ ~heldElsewhere

-----------------------------------------------------------------------------
(* Mutated forms of the operators that follow. *)
Woken_Forgotten == "created"
IsNull_NotTested(f) == FALSE

-----------------------------------------------------------------------------
\* wake_up_process on the new thread; the reference of get_pid_task; the test
\* of the file.
Woken == "start"
PinTask == pinned' = TRUE
IsNull(f) == f = "null"

VfsInit ==
  /\ vfsModule = "new" /\ vfsPc = "none"
  /\ pinned = FALSE /\ files = "none" /\ file = "none" /\ hello = "nobody"
  /\ target \in {"running", "zombie", "reaped"}
  /\ stdoutOpen \in BOOLEAN /\ (stdoutOpen => target = "running")
  /\ heldElsewhere \in BOOLEAN /\ hasWrite \in BOOLEAN
  /\ rootGone = FALSE

vfs_module_init ==
  /\ vfsModule = "new"
  /\ \/ vfsModule' = "loaded" /\ vfsPc' = Woken
     \/ UNCHANGED <<vfsModule, vfsPc>>       \* kthread_create failed
  /\ UNCHANGED <<pinned, files, file, hello, targetVars, rootGone>>

\* It does not wait for the thread.
vfs_module_exit ==
  /\ vfsModule = "loaded" /\ vfsModule' = "removed"
  /\ UNCHANGED <<vfsPc, pinned, files, file, hello, targetVars, rootGone>>

-----------------------------------------------------------------------------
(* thread_fn *)

Step(from, tos) == vfsPc = from /\ vfsPc' \in tos

\* The module's code is gone under the thread.
RunFreedCode ==
  /\ vfsModule = "removed" /\ vfsPc \in InThread /\ vfsPc' = "oops"
  /\ UNCHANGED <<vfsModule, pinned, files, file, hello, targetVars, rootGone>>

\* The loop over the entries of the root directory takes no lock.
PrintFs ==
  /\ Step("start", {"walk"}) \/ Step("walk", {"find"} \cup IF rootGone THEN {"oops"} ELSE {})
  /\ UNCHANGED <<vfsModule, pinned, files, file, hello, targetVars, rootGone>>

\* A reaped process may have left its number to its group or session, which
\* then has no task.
find_get_pid ==
  /\ Step("find", IF target = "reaped" THEN {"ended", "task"} ELSE {"task"})
  /\ UNCHANGED <<vfsModule, pinned, files, file, hello, targetVars, rootGone>>

vfs_get_pid_task ==
  /\ \/ target # "reaped" /\ Step("task", {"files"}) /\ PinTask
     \/ target = "reaped" /\ Step("task", {"ended"}) /\ UNCHANGED pinned
  /\ UNCHANGED <<vfsModule, files, file, hello, targetVars, rootGone>>

\* exit_files has cleared the pointer of a process that exits.
LoadFiles ==
  /\ Step("files", {"fcheck"})
  /\ files' = IF target = "running" THEN "table" ELSE "null"
  /\ UNCHANGED <<vfsModule, pinned, file, hello, targetVars, rootGone>>

\* fcheck_files(files, 1) and the test of its result.
fcheck_files ==
  /\ \/ /\ files = "table"
        /\ file' \in IF TableFreed THEN {"null", "stdout"}
                     ELSE IF stdoutOpen THEN {"stdout"} ELSE {"null"}
        /\ Step("fcheck", IF IsNull(file') THEN {"ended"} ELSE {"fop"})
     \/ /\ files = "null" \/ TableFreed
        /\ Step("fcheck", {"oops"}) /\ UNCHANGED file
  /\ UNCHANGED <<vfsModule, pinned, files, hello, targetVars, rootGone>>

LoadFop ==
  /\ Step("fop", IF file = "null" THEN {"oops"}
                 ELSE IF FileFreed THEN {"oops", "ended", "write"} ELSE {"write"})
  /\ UNCHANGED <<vfsModule, pinned, files, file, hello, targetVars, rootGone>>

\* fileop->write(file, msg, len, &offset), and its return to thread_fn.
CallWrite ==
  /\ \/ hasWrite /\ ~FileFreed /\ Step("write", {"return"}) /\ hello' = "target"
     \/ FileFreed /\ Step("write", {"return"}) /\ hello' \in {hello, "elsewhere"}
     \/ /\ ~hasWrite \/ FileFreed
        /\ Step("write", {"oops"}) /\ UNCHANGED hello
  /\ UNCHANGED <<vfsModule, pinned, files, file, targetVars, rootGone>>

thread_return ==
  /\ Step("return", {"ended"})
  /\ UNCHANGED <<vfsModule, pinned, files, file, hello, targetVars, rootGone>>

vfs_thread_fn ==
  RunFreedCode \/ PrintFs \/ find_get_pid \/ vfs_get_pid_task \/ LoadFiles
    \/ fcheck_files \/ LoadFop \/ CallWrite \/ thread_return

-----------------------------------------------------------------------------
\* What the target and the file system do meanwhile.
TargetMoves ==
  /\ \/ target = "running" /\ target' = "zombie" /\ stdoutOpen' = FALSE
     \/ target = "zombie" /\ target' = "reaped" /\ UNCHANGED stdoutOpen
     \/ stdoutOpen /\ stdoutOpen' = FALSE /\ UNCHANGED target
  /\ UNCHANGED <<vfsModule, vfsPc, pinned, files, file, hello, heldElsewhere,
                 hasWrite, rootGone>>

RootEntryFreed ==
  /\ vfsPc = "walk" /\ rootGone' = TRUE
  /\ UNCHANGED <<vfsModule, vfsPc, pinned, files, file, hello, targetVars>>

VfsNext ==
  vfs_module_init \/ vfs_module_exit \/ vfs_thread_fn \/ TargetMoves \/ RootEntryFreed

VfsSpec == VfsInit /\ [][VfsNext]_vfsVars /\ WF_vfsVars(vfs_thread_fn)

-----------------------------------------------------------------------------
VfsTypeOK ==
  /\ vfsModule \in {"new", "loaded", "removed"}
  /\ vfsPc \in InThread \cup {"none", "created", "ended", "oops"}
  /\ files \in {"none", "null", "table"}
  /\ file \in {"none", "null", "stdout"}
  /\ hello \in {"nobody", "target", "elsewhere"}
  /\ target \in {"running", "zombie", "reaped"}
  /\ {pinned, stdoutOpen, heldElsewhere, hasWrite, rootGone} \subseteq BOOLEAN

\* The task_struct the thread reads its files from is never freed under it,
\* also when the process exits and is reaped right after the lookup.
TaskHeld == vfsPc \in {"files", "fcheck", "fop", "write", "return"} => ~TaskFreed

\* The thread dies only if the module went under it, if an entry of the root
\* directory did, if the process had exited, if it closed its output after the
\* thread had found it, or if the file has no .write: a process whose output
\* was closed before, or that is not there, does it no harm.
OopsExplained ==
  vfsPc = "oops" =>
    \/ vfsModule = "removed" \/ rootGone \/ target # "running"
    \/ file = "stdout" /\ (~hasWrite \/ FileFreed)

Undisturbed ==
  vfsModule # "removed" /\ ~rootGone /\ target = "running" /\ stdoutOpen /\ hasWrite

\* Once the module is loaded the message reaches a target that keeps running
\* with its output open.
HelloWritten == vfsModule = "loaded" ~> hello = "target" \/ ~Undisturbed
=============================================================================
