---------------------------- MODULE FamilyReader ----------------------------
(***************************************************************************)
(* Studio 5 (studios/studio5/family_reader.c): a number written to the file   *)
(* fam goes to the static variable pidme, and the store handler prints the    *)
(* processes from that one up to init, or up to the idle task, of number 0:    *)
(* the kernel's threads are children of kthreadd, and kthreadd of the idle     *)
(* task.  Handlers of several writers share pidme, and processes exit, are    *)
(* adopted by init and are reaped meanwhile.                                 *)
(*                                                                         *)
(* An access to a freed task ends the writer (famPc = "oops") or gives any    *)
(* task or number; one through NULL ends it.                                 *)
(***************************************************************************)
EXTENDS Naturals

CONSTANTS
  Writers,    \* the calls of write on the file
  Tasks,      \* process numbers; 1 is init, 2 is kthreadd
  MaxDepth,   \* 500 in the code
  Refused,    \* what kstrtoint refuses
  Null        \* a pointer to nothing

ASSUME FamAssumption ==
  /\ 1 \in Tasks /\ Tasks \subseteq Nat \ {0}
  /\ MaxDepth \in Nat /\ {Refused, Null} \cap Nat = {}

Idle == 0            \* the idle task: find_vpid does not find it

VARIABLES
  famModule,     \* "new", "loaded", "unloading" or "removed"
  pidme,
  famPc,         \* where each writer is
  famNum,        \* the number it wrote
  rpid,          \* the process find_vpid found
  curr_task, this_pid, maxDepth,   \* the walk
  taken,         \* tasks with a reference that is never given back
  life,          \* each process: "alive", "zombie" or "reaped", as are the
                 \* numbers not in use
  real_parent,
  kthreads,      \* kthreadd and the processes that began below it (history)
  reaps,         \* writers during whose store a process was reaped (history)
  overtaken      \* writers whose pidme another one has set since (history)

famVars == <<famModule, pidme, famPc, famNum, rpid, curr_task, this_pid,
             maxDepth, taken, life, real_parent, kthreads, reaps,
             overtaken>>
walkVars == <<curr_task, this_pid, maxDepth>>
taskVars == <<life, real_parent, kthreads>>

Exists(n) == n \in Tasks /\ life[n] # "reaped"
InStore(w) == famPc[w] \notin {"user", "oops", "done"}
TaskGone(t) == t # Idle /\ life[t] = "reaped" /\ t \notin taken

-----------------------------------------------------------------------------
(* Mutated forms of the operators that follow. *)
LoopOn_OffByOne(w) == this_pid[w] > 2 /\ maxDepth[w] > 0
NotNull_Untested(p) == TRUE

-----------------------------------------------------------------------------
\* The loop's test and its counter; the tests of rpid and of curr_task; the number
\* kstrtoint leaves; the exit of a task makes init the parent of its children,
\* but for those reaped, whose pointer stays.
LoopOn(w) == this_pid[w] > 1 /\ maxDepth[w] > 0
Deeper(w) == maxDepth[w] - 1
NotNull(p) == p # Null
SetPidme(w) == pidme' = famNum[w]
Adopt(t) ==
  real_parent' = [c \in Tasks |-> IF real_parent[c] = t /\ life[c] # "reaped" THEN 1
                                 ELSE real_parent[c]]

FamInit ==
  /\ famModule = "new" /\ pidme = 0
  /\ famPc = [w \in Writers |-> "user"]
  /\ famNum = [w \in Writers |-> Refused]
  /\ rpid = [w \in Writers |-> Null]
  /\ curr_task = [w \in Writers |-> Null]
  /\ this_pid = [w \in Writers |-> 0]
  /\ maxDepth = [w \in Writers |-> 0]
  /\ taken = {} /\ reaps = {} /\ overtaken = {}
  /\ life \in [Tasks -> {"alive", "reaped"}]
  /\ real_parent \in [Tasks -> Tasks \cup {Idle}]
  /\ \A t \in Tasks :
       IF t \in {1, 2} THEN life[t] = "alive" /\ real_parent[t] = Idle
       ELSE real_parent[t] \in 1..t - 1 /\ life[real_parent[t]] = "alive"
  /\ kthreads \in SUBSET Tasks
  /\ \A t \in Tasks :
       t \in kthreads <=> life[t] = "alive" /\ (t = 2 \/ real_parent[t] \in kthreads)

\* The module's init and exit: kobject_put waits for the handlers in the file.
fam_init ==
  /\ famModule = "new"
  /\ famModule' \in {"new", "loaded"}   \* no kobject, or no group
  /\ UNCHANGED <<pidme, famPc, famNum, rpid, walkVars, taken, taskVars, reaps, overtaken>>

fam_exit ==
  /\ \/ famModule = "loaded" /\ famModule' = "unloading"
     \/ /\ famModule = "unloading" /\ \A w \in Writers : ~InStore(w)
        /\ famModule' = "removed"
  /\ UNCHANGED <<pidme, famPc, famNum, rpid, walkVars, taken, taskVars, reaps, overtaken>>

-----------------------------------------------------------------------------
(* pidme_store *)

FamGoto(w, l) == famPc' = [famPc EXCEPT ![w] = l]

\* The handler ends, its variables go, and what disturbed it is forgotten once it
\* has returned.
FamReturn(w, l) ==
  /\ FamGoto(w, l)
  /\ famNum' = [famNum EXCEPT ![w] = Refused]
  /\ rpid' = [rpid EXCEPT ![w] = Null]
  /\ curr_task' = [curr_task EXCEPT ![w] = Null]
  /\ this_pid' = [this_pid EXCEPT ![w] = 0]
  /\ maxDepth' = [maxDepth EXCEPT ![w] = 0]
  /\ overtaken' = overtaken \ {w}
  /\ reaps' = IF l = "done" THEN reaps \ {w} ELSE reaps

FamWrite(w, n) ==
  /\ famModule = "loaded" /\ famPc[w] = "user"
  /\ FamGoto(w, "parse")
  /\ famNum' = [famNum EXCEPT ![w] = n]
  /\ UNCHANGED <<famModule, pidme, rpid, walkVars, taken, taskVars, reaps, overtaken>>

\* kstrtoint writes to pidme itself.
pidme_store(w) ==
  /\ famPc[w] = "parse"
  /\ \/ famNum[w] = Refused /\ FamReturn(w, "done") /\ UNCHANGED pidme
     \/ /\ famNum[w] # Refused
        /\ SetPidme(w) /\ FamGoto(w, "find")
        /\ overtaken' = overtaken \cup {v \in Writers : famPc[v] = "find"}
        /\ UNCHANGED <<famNum, rpid, walkVars, reaps>>
  /\ UNCHANGED <<famModule, taken, taskVars>>

\* It looks up what pidme holds now, and takes no reference.
find_vpid(w) ==
  LET found == IF Exists(pidme) THEN pidme ELSE Null IN
  /\ famPc[w] = "find"
  /\ \/ ~NotNull(found) /\ FamReturn(w, "done")
     \/ /\ NotNull(found) /\ FamGoto(w, "get")
        /\ rpid' = [rpid EXCEPT ![w] = found]
        /\ UNCHANGED <<famNum, walkVars, reaps, overtaken>>
  /\ UNCHANGED <<famModule, pidme, taken, taskVars>>

\* What get_pid_task(p) may return: the process, unless it was reaped in between;
\* then p may be gone too, and have become that of another process.
PidTask(p) ==
  IF p = Null THEN {Null}
  ELSE IF life[p] # "reaped" THEN {p}
  ELSE {Null} \cup {t \in Tasks : ~TaskGone(t)}

fam_get_pid_task(w) ==
  /\ famPc[w] = "get"
  /\ \/ \E t \in PidTask(rpid[w]) \ {Null} :
          /\ taken' = taken \cup {t}
          /\ curr_task' = [curr_task EXCEPT ![w] = t]
          /\ this_pid' = [this_pid EXCEPT ![w] = t]
          /\ maxDepth' = [maxDepth EXCEPT ![w] = MaxDepth]
          /\ FamGoto(w, "walk")
          /\ UNCHANGED <<famNum, rpid, reaps, overtaken>>
     \/ /\ Null \in PidTask(rpid[w])
        /\ \/ ~NotNull(Null) /\ FamReturn(w, "done")
           \/ (NotNull(Null) \/ rpid[w] # Null) /\ FamReturn(w, "oops")
        /\ UNCHANGED taken
  /\ UNCHANGED <<famModule, pidme, taskVars>>

\* One round of the loop: the parent of the current task, and its number.
WalkUp(w) ==
  LET c == curr_task[w]
      nexts == IF TaskGone(c) THEN Tasks \cup {Idle} ELSE {real_parent[c]}
  IN
  /\ famPc[w] = "walk" /\ LoopOn(w)
  /\ \E t \in nexts, n \in Tasks \cup {Idle} :
       /\ n = t \/ TaskGone(t)
       /\ curr_task' = [curr_task EXCEPT ![w] = t]
       /\ this_pid' = [this_pid EXCEPT ![w] = n]
       /\ maxDepth' = [maxDepth EXCEPT ![w] = Deeper(w)]
  /\ UNCHANGED <<famModule, pidme, famPc, famNum, rpid, taken, taskVars, reaps, overtaken>>

WalkOops(w) ==
  /\ famPc[w] = "walk"
  /\ \/ TaskGone(curr_task[w])
     \/ LoopOn(w) /\ TaskGone(real_parent[curr_task[w]])
  /\ FamReturn(w, "oops")
  /\ UNCHANGED <<famModule, pidme, taken, taskVars>>

\* The last line is printed, and the handler returns.
WalkDone(w) ==
  /\ famPc[w] = "walk" /\ ~LoopOn(w) /\ FamReturn(w, "done")
  /\ UNCHANGED <<famModule, pidme, taken, taskVars>>

fam_writer(w) ==
  pidme_store(w) \/ find_vpid(w) \/ fam_get_pid_task(w) \/ WalkUp(w) \/ WalkOops(w)
    \/ WalkDone(w)

-----------------------------------------------------------------------------
\* A process exits, but init and kthreadd never do, and its children are adopted;
\* its parent reaps it, and its task is freed once nobody holds a reference.  What
\* happens when no store is to come does not matter.
StoresToCome ==
  \E w \in Writers : InStore(w) \/ (famPc[w] = "user" /\ famModule = "loaded")

TaskExits(t) ==
  /\ real_parent[t] # Idle /\ life[t] = "alive" /\ StoresToCome
  /\ life' = [life EXCEPT ![t] = "zombie"]
  /\ Adopt(t)
  /\ UNCHANGED <<famModule, pidme, famPc, famNum, rpid, walkVars, taken, kthreads, reaps,
                 overtaken>>

TaskReaped(t) ==
  /\ life[t] = "zombie" /\ StoresToCome
  /\ life' = [life EXCEPT ![t] = "reaped"]
  /\ reaps' = reaps \cup {w \in Writers : InStore(w)}
  /\ UNCHANGED <<famModule, pidme, famPc, famNum, rpid, walkVars, taken, real_parent, kthreads,
                 overtaken>>

FamNext ==
  \/ fam_init \/ fam_exit
  \/ \E w \in Writers : fam_writer(w) \/ \E n \in {Refused, Idle} \cup Tasks : FamWrite(w, n)
  \/ \E t \in Tasks : TaskExits(t) \/ TaskReaped(t)

FamSpec == FamInit /\ [][FamNext]_famVars

-----------------------------------------------------------------------------
FamTypeOK ==
  /\ famModule \in {"new", "loaded", "unloading", "removed"}
  /\ pidme \in Tasks \cup {Idle}
  /\ famPc \in [Writers -> {"user", "parse", "find", "get", "walk", "oops", "done"}]
  /\ famNum \in [Writers -> Tasks \cup {Idle, Refused}]
  /\ rpid \in [Writers -> Tasks \cup {Null}]
  /\ curr_task \in [Writers -> Tasks \cup {Idle, Null}]
  /\ this_pid \in [Writers -> Tasks \cup {Idle}]
  /\ maxDepth \in [Writers -> 0..MaxDepth]
  /\ life \in [Tasks -> {"alive", "zombie", "reaped"}]
  /\ real_parent \in [Tasks -> Tasks \cup {Idle}]
  /\ {taken, kthreads} \subseteq SUBSET Tasks
  /\ reaps \subseteq Writers /\ overtaken \subseteq Writers

\* A writer dies only if a process was reaped after its store began: the
\* pointers it starts from are never stale already, and NULL is never followed.
OopsNeedsReap == \A w \in Writers : famPc[w] = "oops" => w \in reaps

\* A store looks up the number that was written to it, unless another writer
\* has set pidme in between.
OwnFamily ==
  \A w \in Writers : famPc[w] = "walk" => rpid[w] = famNum[w] \/ w \in overtaken

\* A walk that no reaping disturbed and that is about to print its last line,
\* the one of "(init/root)", has come to init from a process of init's family,
\* exits and adoptions on the way notwithstanding.  From one of the kernel's
\* threads it has come to number 0, or to init if an exit below kthreadd has
\* made init a parent there.  No family is deeper than MaxDepth.
EndsAtRoot ==
  \A w \in Writers \ reaps :
    famPc[w] = "walk" /\ ~LoopOn(w) =>
      IF rpid[w] \notin kthreads THEN this_pid[w] = 1
      ELSE this_pid[w] = Idle \/ (this_pid[w] = 1 /\ \E t \in kthreads : life[t] # "alive")

\* What a store prints is the family of the number written to it, from that
\* process up to its root, but for the two disturbances named.
FamilyShown == OwnFamily /\ EndsAtRoot
=============================================================================
