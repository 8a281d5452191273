---------------------------- MODULE SharedMemory ----------------------------
(***************************************************************************)
(* The shared memory object of studio 13: a leader (leader.c) creates it and *)
(* fills it, a follower (follower.c) copies it, and both busy-wait on the    *)
(* three guards of shared_process.h.                                        *)
(*                                                                         *)
(* Each of Leaders and Followers is one run of its program; a restart is    *)
(* another run.  The object outlives the processes and keeps its guards     *)
(* until a follower unlinks its name.  rand is not seeded, so every leader   *)
(* writes the same numbers: a cell is either zero or written.  The programs  *)
(* are built for x86-64, whose stores become visible in program order; the   *)
(* fields are volatile, which keeps the compiler to that order too.          *)
(***************************************************************************)
EXTENDS Integers

CONSTANTS
  Leaders,    \* runs of the leader
  Followers,  \* runs of the follower
  Objs,       \* shared memory objects
  Size,       \* SHARE_SIZE
  CanCrash,   \* the processes that may be killed
  None

ASSUME SharedAssumption ==
  /\ Size \in Nat \ {0}
  /\ None \notin Objs
  /\ Leaders \cap Followers = {}
  /\ CanCrash \subseteq Leaders \cup Followers

Procs == Leaders \cup Followers
Cells == 1..Size

VARIABLES
  name,          \* the object "/sharedobj" names
  created,       \* objects created so far
  sized,         \* objects that ftruncate has given their size
  write_guard, read_guard, delete_guard,   \* objects whose guard is 1
  data,          \* the cells of an object that are written
  pc,
  object,        \* the object a process has opened
  idx,           \* index of the copy loop of a process
  arr            \* the cells a follower found written when it copied them

objVars   == <<name, created, sized>>
guardVars == <<write_guard, read_guard, delete_guard>>
procVars  == <<pc, object, idx, arr>>
vars == <<name, created, sized, write_guard, read_guard, delete_guard, data,
          pc, object, idx, arr>>

Goto(p, l) == pc' = [pc EXCEPT ![p] = l]

Init ==
  /\ name = None
  /\ created = {}
  /\ sized = {}
  /\ write_guard = {} /\ read_guard = {} /\ delete_guard = {}
  /\ data = [o \in Objs |-> {}]
  /\ pc = [p \in Procs |-> "off"]
  /\ object = [p \in Procs |-> None]
  /\ idx = [p \in Procs |-> 1]
  /\ arr = [f \in Followers |-> {}]

-----------------------------------------------------------------------------
(* Mutated forms of the operators that follow, for showing that a property    *)
(* depends on them; no action uses one.                                      *)

\* The loop over the array stops a cell early.
LastCell_Early(i) == i + 1 >= Size

\* The leader takes the guard it has set itself for the acknowledgment.
Acknowledged_OwnGuard(o) == o \in read_guard

\* The follower leaves the object under its name.
NameAfterUnlink_Kept == name

\* The leader starts by clearing the guard the follower sets.
GuardsAfterMap_Cleared(o) == write_guard \ {o}

-----------------------------------------------------------------------------
LastCell(i) == i = Size
Acknowledged(o) == o \in delete_guard
NameAfterUnlink == None
GuardsAfterMap(o) == write_guard

\* shm_open with O_CREAT but neither O_EXCL nor O_TRUNC: an object that an
\* earlier run has left is taken as it is.
leader_open(l) ==
  /\ pc[l] = "off"
  /\ \/ /\ name # None
        /\ object' = [object EXCEPT ![l] = name]
        /\ UNCHANGED <<name, created>>
     \/ /\ name = None
        /\ \E o \in Objs \ created :
             /\ created' = created \cup {o}
             /\ name' = o
             /\ object' = [object EXCEPT ![l] = o]
  /\ Goto(l, "ftruncate")
  /\ UNCHANGED <<sized, guardVars, data, idx, arr>>

\* The object gets its size, filled with zeros; one that has it is unchanged.
ftruncate(l) ==
  /\ pc[l] = "ftruncate"
  /\ sized' = sized \cup {object[l]}
  /\ Goto(l, "mmap")
  /\ UNCHANGED <<name, created, guardVars, data, object, idx, arr>>

\* The leader maps the object and does not touch its guards.
leader_mmap(l) ==
  /\ pc[l] = "mmap"
  /\ write_guard' = GuardsAfterMap(object[l])
  /\ Goto(l, "wait_follower")
  /\ UNCHANGED <<objVars, read_guard, delete_guard, data, object, idx, arr>>

wait_follower(l) ==
  /\ pc[l] = "wait_follower"
  /\ object[l] \in write_guard
  /\ Goto(l, "write")
  /\ UNCHANGED <<objVars, guardVars, data, object, idx, arr>>

\* The round of a copy loop ends: the next one, or what follows the loop.
NextCell(p, after) ==
  \/ LastCell(idx[p]) /\ Goto(p, after) /\ UNCHANGED idx
  \/ ~LastCell(idx[p]) /\ idx' = [idx EXCEPT ![p] = @ + 1] /\ UNCHANGED pc

write_cell(l) ==
  /\ pc[l] = "write"
  /\ data' = [data EXCEPT ![object[l]] = @ \cup {idx[l]}]
  /\ NextCell(l, "notify")
  /\ UNCHANGED <<objVars, guardVars, object, arr>>

notify_follower(l) ==
  /\ pc[l] = "notify"
  /\ read_guard' = read_guard \cup {object[l]}
  /\ Goto(l, "wait_ack")
  /\ UNCHANGED <<objVars, write_guard, delete_guard, data, object, idx, arr>>

wait_ack(l) ==
  /\ pc[l] = "wait_ack"
  /\ Acknowledged(object[l])
  /\ Goto(l, "done")
  /\ UNCHANGED <<objVars, guardVars, data, object, idx, arr>>

-----------------------------------------------------------------------------
\* shm_open without O_CREAT.  When there is no object the mapping fails; the
\* test for that never holds, and the first store kills the process.
follower_open(f) ==
  /\ pc[f] = "off"
  /\ \/ /\ name # None
        /\ object' = [object EXCEPT ![f] = name]
        /\ Goto(f, "announce")
     \/ /\ name = None
        /\ Goto(f, "dead")
        /\ UNCHANGED object
  /\ UNCHANGED <<objVars, guardVars, data, idx, arr>>

\* The first store; in an object that has no size yet it is a bus error.
announce(f) ==
  /\ pc[f] = "announce"
  /\ \/ /\ object[f] \in sized
        /\ write_guard' = write_guard \cup {object[f]}
        /\ Goto(f, "wait_leader")
     \/ /\ object[f] \notin sized
        /\ Goto(f, "dead")
        /\ UNCHANGED write_guard
  /\ UNCHANGED <<objVars, read_guard, delete_guard, data, object, idx, arr>>

wait_leader(f) ==
  /\ pc[f] = "wait_leader"
  /\ object[f] \in read_guard
  /\ Goto(f, "read")
  /\ UNCHANGED <<objVars, guardVars, data, object, idx, arr>>

\* memcpy, a cell at a time.
read_cell(f) ==
  /\ pc[f] = "read"
  /\ arr' = [arr EXCEPT ![f] = @ \cup ({idx[f]} \cap data[object[f]])]
  /\ NextCell(f, "unlink")
  /\ UNCHANGED <<objVars, guardVars, data, object>>

\* The name goes, whatever object it stands for by now.
shm_unlink(f) ==
  /\ pc[f] = "unlink"
  /\ name' = NameAfterUnlink
  /\ Goto(f, "acknowledge")
  /\ UNCHANGED <<created, sized, guardVars, data, object, idx, arr>>

acknowledge(f) ==
  /\ pc[f] = "acknowledge"
  /\ delete_guard' = delete_guard \cup {object[f]}
  /\ Goto(f, "done")
  /\ UNCHANGED <<objVars, write_guard, read_guard, data, object, idx, arr>>

\* A process is killed.  Its `object' stays on record.
Crash(p) ==
  /\ p \in CanCrash
  /\ pc[p] \notin {"off", "done", "dead"}
  /\ Goto(p, "dead")
  /\ UNCHANGED <<objVars, guardVars, data, object, idx, arr>>

-----------------------------------------------------------------------------
\* The steps of main, once the process has been started.
leader_main(l) ==
  \/ ftruncate(l) \/ leader_mmap(l) \/ wait_follower(l) \/ write_cell(l)
  \/ notify_follower(l) \/ wait_ack(l)

follower_main(f) ==
  \/ announce(f) \/ wait_leader(f) \/ read_cell(f) \/ shm_unlink(f) \/ acknowledge(f)

Next ==
  \/ \E l \in Leaders : leader_open(l) \/ leader_main(l)
  \/ \E f \in Followers : follower_open(f) \/ follower_main(f)
  \/ \E p \in Procs : Crash(p)

Spec == Init /\ [][Next]_vars

\* The scheduler runs every process that can go on; nobody has to start one.
FairSpec ==
  /\ Spec
  /\ \A l \in Leaders : WF_vars(leader_main(l))
  /\ \A f \in Followers : WF_vars(follower_main(f))

-----------------------------------------------------------------------------
TypeOK ==
  /\ name \in Objs \cup {None}
  /\ created \subseteq Objs
  /\ sized \subseteq Objs
  /\ write_guard \subseteq Objs /\ read_guard \subseteq Objs
  /\ delete_guard \subseteq Objs
  /\ data \in [Objs -> SUBSET Cells]
  /\ pc \in [Procs -> {"off", "ftruncate", "mmap", "wait_follower", "write", "notify",
                       "wait_ack", "announce", "wait_leader", "read", "unlink",
                       "acknowledge", "done", "dead"}]
  /\ object \in [Procs -> Objs \cup {None}]
  /\ idx \in [Procs -> Cells]
  /\ arr \in [Followers -> SUBSET Cells]

\* A follower that has copied has copied written cells only, even from an
\* object that earlier runs have left behind in any state, and with several
\* leaders or followers on one object.
CopyComplete ==
  \A f \in Followers :
    pc[f] \in {"unlink", "acknowledge", "done"} => arr[f] = Cells

\* A leader that takes its data for read has had it read completely from its
\* object, by a follower that reached the end of its copy.
AckMeansCopied ==
  \A l \in Leaders : pc[l] = "done" =>
    \E f \in Followers : object[f] = object[l] /\ arr[f] = Cells

\* No run opens an object that has been acknowledged: the follower unlinks the
\* name before it acknowledges, so a crash of either side in between leaves no
\* acknowledgment for a later leader to mistake for its own, and the object of
\* a leader that is done is deleted.
NoStaleAck ==
  /\ name \notin delete_guard
  /\ \A l \in Leaders : pc[l] = "done" => object[l] # name

\* A leader and a follower that have the same object both come to their end
\* unless one of them is killed, whatever state earlier runs have left the
\* object in and whoever else is killed.
HandshakeEnds ==
  \A l \in Leaders, f \in Followers :
    /\ pc[l] \notin {"off", "ftruncate"} /\ pc[f] = "wait_leader" /\ object[l] = object[f]
    ~> pc[l] = "dead" \/ pc[f] = "dead" \/ (pc[l] = "done" /\ pc[f] = "done")
=============================================================================
