------------------------- MODULE SharedMemoryProofs -------------------------
(***************************************************************************)
(* Proofs about SharedMemory, for every number of runs, objects and cells   *)
(* and every set of processes that may crash.                               *)
(***************************************************************************)
EXTENDS SharedMemory, TLAPS

Attached == {"mmap", "wait_follower", "write", "notify", "wait_ack", "announce",
             "wait_leader", "read", "unlink", "acknowledge", "done", "ftruncate"}

\* Every process works on an object that has been created, with its own program.
ObjInv ==
  /\ name # None => name \in created
  /\ \A p \in Procs : pc[p] \in Attached => object[p] \in created
  /\ \A p \in Procs : object[p] # None => object[p] \in created
  /\ \A o \in Objs : o \in read_guard \cup delete_guard => o \in created
  /\ \A l \in Leaders :
       pc[l] \notin {"announce", "wait_leader", "read", "unlink", "acknowledge"}
  /\ \A f \in Followers :
       pc[f] \notin {"ftruncate", "mmap", "wait_follower", "write", "notify", "wait_ack"}

\* A leader sets the read guard after the last cell.
WriteInv ==
  /\ \A l \in Leaders : pc[l] = "write" => 1..(idx[l] - 1) \subseteq data[object[l]]
  /\ \A l \in Leaders : pc[l] = "notify" => data[object[l]] = Cells
  /\ \A l \in Leaders : pc[l] \notin {"write", "notify", "wait_ack", "done", "dead"} => idx[l] = 1
  /\ \A o \in read_guard : data[o] = Cells

\* A follower copies after it has seen that guard.
ReadInv ==
  /\ \A f \in Followers : pc[f] = "read" =>
       object[f] \in read_guard /\ 1..(idx[f] - 1) \subseteq arr[f]
  /\ \A f \in Followers : pc[f] \in {"unlink", "acknowledge", "done"} => arr[f] = Cells
  /\ \A f \in Followers : pc[f] \in {"off", "announce", "wait_leader"} =>
       idx[f] = 1 /\ arr[f] = {}

\* It acknowledges after it has unlinked the name, which never comes back.
AckInv ==
  /\ \A f \in Followers : pc[f] = "acknowledge" => object[f] # name
  /\ name \notin delete_guard
  /\ \A o \in delete_guard : \E f \in Followers : object[f] = o /\ arr[f] = Cells
  /\ \A l \in Leaders : pc[l] = "done" => object[l] \in delete_guard

IInv == TypeOK /\ ObjInv /\ WriteInv /\ ReadInv /\ AckInv

USE DEF Procs, Cells

\* Names of single tests and assignments of leader.c and follower.c.
USE DEF LastCell, Acknowledged, NameAfterUnlink, GuardsAfterMap

USE DEF objVars, guardVars, procVars

-----------------------------------------------------------------------------
\* What the assumption on the constants gives.
LEMMA ConstFacts ==
  /\ Size \in Nat /\ 1 <= Size /\ 1 \in Cells
  /\ None \notin Objs
  /\ \A l \in Leaders : l \notin Followers
  BY SharedAssumption

\* Before any process has been started.
LEMMA InitIInv == Init => IInv
<1> SUFFICES ASSUME Init PROVE IInv
  OBVIOUS
<1> USE ConstFacts
<1>1. TypeOK
  BY DEF Init, TypeOK
<1>2. ObjInv
  BY DEF Init, ObjInv, Attached
<1>3. WriteInv /\ ReadInv
  BY DEF Init, WriteInv, ReadInv
<1>4. AckInv
  BY DEF Init, AckInv
<1> QED
  BY <1>1, <1>2, <1>3, <1>4 DEF IInv

\* The copy loops stay inside the array.
LEMMA NextCellType ==
  ASSUME TypeOK, NEW p \in Procs, NEW l, NextCell(p, l)
  PROVE  /\ idx' \in [Procs -> Cells]
         /\ \A q \in Procs \ {p} : pc'[q] = pc[q] /\ idx'[q] = idx[q]
         /\ \/ idx[p] = Size /\ pc' = [pc EXCEPT ![p] = l] /\ idx' = idx
            \/ idx[p] # Size /\ pc' = pc /\ idx'[p] = idx[p] + 1
<1> USE ConstFacts
<1>1. CASE LastCell(idx[p])
  BY <1>1 DEF NextCell, Goto, TypeOK
<1>2. CASE ~LastCell(idx[p])
  <2>1. idx[p] + 1 \in Cells
    BY <1>2 DEF TypeOK
  <2> QED
    BY <1>2, <2>1 DEF NextCell, TypeOK
<1> QED
  BY <1>1, <1>2

\* The copy loops stay inside the array.
LEMMA TypeStep ==
  ASSUME IInv, Next
  PROVE  TypeOK'
<1> USE ConstFacts
<1> TypeOK /\ ObjInv
  BY DEF IInv
<1>1. ASSUME NEW l \in Leaders, leader_open(l) PROVE TypeOK'
  BY <1>1 DEF leader_open, Goto, TypeOK
<1>2. ASSUME NEW l \in Leaders, ftruncate(l) PROVE TypeOK'
  BY <1>2 DEF ftruncate, Goto, TypeOK, ObjInv, Attached
<1>3. ASSUME NEW l \in Leaders, leader_mmap(l) \/ wait_follower(l) PROVE TypeOK'
  BY <1>3 DEF leader_mmap, wait_follower, Goto, TypeOK
<1>4. ASSUME NEW l \in Leaders, write_cell(l) PROVE TypeOK'
  <2>1. idx' \in [Procs -> Cells]
    BY <1>4, NextCellType DEF write_cell
  <2>2. data' \in [Objs -> SUBSET Cells]
    BY <1>4 DEF write_cell, TypeOK
  <2> QED
    BY <1>4, <2>1, <2>2 DEF write_cell, NextCell, Goto, TypeOK
<1>5. ASSUME NEW l \in Leaders, notify_follower(l) \/ wait_ack(l) PROVE TypeOK'
  BY <1>5 DEF notify_follower, wait_ack, Goto, TypeOK, ObjInv, Attached
<1>6. ASSUME NEW f \in Followers, follower_open(f) PROVE TypeOK'
  BY <1>6 DEF follower_open, Goto, TypeOK
<1>7. ASSUME NEW f \in Followers, announce(f) PROVE TypeOK'
  BY <1>7 DEF announce, Goto, TypeOK
<1>8. ASSUME NEW f \in Followers, wait_leader(f) \/ shm_unlink(f) PROVE TypeOK'
  BY <1>8 DEF wait_leader, shm_unlink, Goto, TypeOK
<1>9. ASSUME NEW f \in Followers, read_cell(f) PROVE TypeOK'
  <2>1. idx' \in [Procs -> Cells]
    BY <1>9, NextCellType DEF read_cell
  <2>2. arr' \in [Followers -> SUBSET Cells]
    BY <1>9 DEF read_cell, TypeOK
  <2> QED
    BY <1>9, <2>1, <2>2 DEF read_cell, NextCell, Goto, TypeOK
<1>10. ASSUME NEW f \in Followers, acknowledge(f) PROVE TypeOK'
  BY <1>10 DEF acknowledge, Goto, TypeOK, ObjInv, Attached
<1>11. ASSUME NEW p \in Procs, Crash(p) PROVE TypeOK'
  BY <1>11 DEF Crash, Goto, TypeOK
<1> QED
  BY <1>1, <1>2, <1>3, <1>4, <1>5, <1>6, <1>7, <1>8, <1>9, <1>10, <1>11
  DEF Next, leader_main, follower_main

\* A process works on an object that was created, and runs its own program.
LEMMA ObjStep ==
  ASSUME IInv, Next
  PROVE  ObjInv'
<1> USE ConstFacts
<1> TypeOK /\ ObjInv
  BY DEF IInv
<1>1. ASSUME NEW l \in Leaders, leader_open(l) PROVE ObjInv'
  BY <1>1 DEF leader_open, Goto, TypeOK, ObjInv, Attached
<1>2. ASSUME NEW l \in Leaders, ftruncate(l) \/ leader_mmap(l) \/ wait_follower(l) PROVE ObjInv'
  BY <1>2 DEF ftruncate, leader_mmap, wait_follower, Goto, TypeOK, ObjInv, Attached
<1>3. ASSUME NEW l \in Leaders, write_cell(l) PROVE ObjInv'
  BY <1>3 DEF write_cell, NextCell, Goto, TypeOK, ObjInv, Attached
<1>4. ASSUME NEW l \in Leaders, notify_follower(l) \/ wait_ack(l) PROVE ObjInv'
  BY <1>4 DEF notify_follower, wait_ack, Goto, TypeOK, ObjInv, Attached
<1>5. ASSUME NEW f \in Followers, follower_open(f) PROVE ObjInv'
  BY <1>5 DEF follower_open, Goto, TypeOK, ObjInv, Attached
<1>6. ASSUME NEW f \in Followers, announce(f) \/ wait_leader(f) \/ shm_unlink(f) PROVE ObjInv'
  BY <1>6 DEF announce, wait_leader, shm_unlink, Goto, TypeOK, ObjInv, Attached
<1>7. ASSUME NEW f \in Followers, read_cell(f) PROVE ObjInv'
  BY <1>7 DEF read_cell, NextCell, Goto, TypeOK, ObjInv, Attached
<1>8. ASSUME NEW f \in Followers, acknowledge(f) PROVE ObjInv'
  BY <1>8 DEF acknowledge, Goto, TypeOK, ObjInv, Attached
<1>9. ASSUME NEW p \in Procs, Crash(p) PROVE ObjInv'
  BY <1>9 DEF Crash, Goto, TypeOK, ObjInv, Attached
<1> QED
  BY <1>1, <1>2, <1>3, <1>4, <1>5, <1>6, <1>7, <1>8, <1>9
  DEF Next, leader_main, follower_main

\* A guard that is set by a leader stands for a full array.
LEMMA WriteStep ==
  ASSUME IInv, Next
  PROVE  WriteInv'
<1> USE ConstFacts
<1> TypeOK /\ ObjInv /\ WriteInv
  BY DEF IInv
<1>1. ASSUME NEW l \in Leaders, leader_open(l) PROVE WriteInv'
  BY <1>1 DEF leader_open, Goto, TypeOK, ObjInv, WriteInv
<1>2. ASSUME NEW l \in Leaders, ftruncate(l) \/ leader_mmap(l) PROVE WriteInv'
  BY <1>2 DEF ftruncate, leader_mmap, Goto, TypeOK, WriteInv
<1>3. ASSUME NEW l \in Leaders, wait_follower(l) PROVE WriteInv'
  BY <1>3 DEF wait_follower, Goto, TypeOK, WriteInv
<1>4. ASSUME NEW l \in Leaders, write_cell(l) PROVE WriteInv'
  <2>1. /\ pc[l] = "write" /\ NextCell(l, "notify") /\ object[l] \in Objs
        /\ data' = [data EXCEPT ![object[l]] = @ \cup {idx[l]}]
        /\ UNCHANGED <<object, read_guard>>
    BY <1>4 DEF write_cell, ObjInv, Attached, TypeOK
  <2>2. \A o \in Objs : data[o] \subseteq data'[o] /\ data'[o] \subseteq Cells
    BY <2>1 DEF TypeOK
  <2>3. 1..idx[l] \subseteq data'[object[l]]
    BY <2>1 DEF WriteInv, TypeOK
  <2>4. \A m \in Leaders : pc[m] \in {"write", "notify"} => object[m] \in Objs
    BY DEF ObjInv, Attached, TypeOK
  <2>5. /\ \A q \in Procs \ {l} : pc'[q] = pc[q] /\ idx'[q] = idx[q]
        /\ \/ idx[l] = Size /\ pc' = [pc EXCEPT ![l] = "notify"] /\ idx' = idx
           \/ idx[l] # Size /\ pc' = pc /\ idx'[l] = idx[l] + 1
    BY <2>1, NextCellType
  <2>6. \A o \in read_guard' : data'[o] = Cells
    <3> SUFFICES ASSUME NEW o \in read_guard PROVE data'[o] = Cells
      BY <2>1
    <3>1. o \in Objs /\ data[o] = Cells
      BY DEF WriteInv, TypeOK
    <3> QED
      BY <2>2, <3>1
  <2>7. ASSUME NEW m \in Leaders \ {l}
        PROVE  /\ pc'[m] = "write" => 1..(idx'[m] - 1) \subseteq data'[object[m]]
               /\ pc'[m] = "notify" => data'[object[m]] = Cells
               /\ pc'[m] \notin {"write", "notify", "wait_ack", "done", "dead"} => idx'[m] = 1
    <3>1. m \in Procs \ {l} /\ m \in Leaders /\ object'[m] = object[m]
      BY <2>1 DEF Procs
    <3>2. pc'[m] = pc[m] /\ idx'[m] = idx[m]
      BY <2>5, <3>1
    <3>3. CASE pc[m] = "write"
      <4>1. object[m] \in Objs /\ 1..(idx[m] - 1) \subseteq data[object[m]]
        BY <2>4, <3>1, <3>3 DEF WriteInv
      <4> QED
        BY <2>2, <3>1, <3>2, <3>3, <4>1
    <3>4. CASE pc[m] = "notify"
      <4>1. object[m] \in Objs /\ data[object[m]] = Cells
        BY <2>4, <3>1, <3>4 DEF WriteInv
      <4>2. data'[object[m]] = Cells
        BY <2>2, <4>1
      <4> QED
        BY <3>1, <3>2, <3>4, <4>2
    <3>5. CASE pc[m] \notin {"write", "notify"}
      <4>1. pc[m] \notin {"write", "notify", "wait_ack", "done", "dead"} => idx[m] = 1
        BY <3>1 DEF WriteInv
      <4> QED
        BY <3>2, <3>5, <4>1
    <3> QED
      BY <3>3, <3>4, <3>5
  <2>8. /\ pc'[l] = "write" => 1..(idx'[l] - 1) \subseteq data'[object[l]]
        /\ pc'[l] = "notify" => data'[object[l]] = Cells
        /\ pc'[l] \in {"write", "notify"}
    <3>1. CASE idx[l] = Size
      BY <2>1, <2>2, <2>3, <2>5, <3>1 DEF TypeOK
    <3>2. CASE idx[l] # Size
      <4>1. pc'[l] = "write" /\ idx'[l] - 1 = idx[l]
        BY <2>1, <2>5, <3>2 DEF TypeOK
      <4> QED
        BY <2>3, <4>1
    <3> QED
      BY <3>1, <3>2
  <2> QED
    BY <2>1, <2>6, <2>7, <2>8 DEF WriteInv
<1>5. ASSUME NEW l \in Leaders, notify_follower(l) \/ wait_ack(l) PROVE WriteInv'
  BY <1>5 DEF notify_follower, wait_ack, Goto, TypeOK, WriteInv
<1>6. ASSUME NEW p \in Procs, NEW m, Goto(p, m),
             p \in Followers \/ m = "dead", UNCHANGED <<read_guard, data, idx>>,
             \A l \in Leaders : object'[l] = object[l]
      PROVE  WriteInv'
  BY <1>6 DEF Goto, TypeOK, WriteInv
<1>7. ASSUME NEW f \in Followers, follower_open(f) PROVE WriteInv'
  BY <1>6, <1>7 DEF follower_open, TypeOK
<1>8. ASSUME NEW f \in Followers,
             announce(f) \/ wait_leader(f) \/ shm_unlink(f) \/ acknowledge(f)
      PROVE  WriteInv'
  BY <1>6, <1>8 DEF announce, wait_leader, shm_unlink, acknowledge
<1>9. ASSUME NEW f \in Followers, read_cell(f) PROVE WriteInv'
  <2>1. \A l \in Leaders : pc'[l] = pc[l] /\ idx'[l] = idx[l]
    BY <1>9, NextCellType DEF read_cell
  <2> QED
    BY <1>9, <2>1 DEF read_cell, WriteInv
<1>10. ASSUME NEW p \in Procs, Crash(p) PROVE WriteInv'
  BY <1>6, <1>10 DEF Crash
<1> QED
  BY <1>1, <1>2, <1>3, <1>4, <1>5, <1>7, <1>8, <1>9, <1>10
  DEF Next, leader_main, follower_main

\* What a follower has copied was written.
LEMMA ReadStep ==
  ASSUME IInv, Next
  PROVE  ReadInv'
<1> USE ConstFacts
<1> TypeOK /\ ObjInv /\ WriteInv /\ ReadInv
  BY DEF IInv
<1>1. ASSUME NEW p \in Procs, NEW m, Goto(p, m), p \in Leaders \/ m = "dead",
             read_guard \subseteq read_guard', UNCHANGED <<idx, arr>>,
             \A f \in Followers : object'[f] = object[f]
      PROVE  ReadInv'
  BY <1>1 DEF Goto, TypeOK, ReadInv
<1>2. ASSUME NEW l \in Leaders, leader_open(l) PROVE ReadInv'
  BY <1>1, <1>2 DEF leader_open, TypeOK
<1>3. ASSUME NEW l \in Leaders,
             ftruncate(l) \/ leader_mmap(l) \/ wait_follower(l) \/ notify_follower(l) \/ wait_ack(l)
      PROVE  ReadInv'
  BY <1>1, <1>3 DEF ftruncate, leader_mmap, wait_follower, notify_follower, wait_ack
<1>4. ASSUME NEW l \in Leaders, write_cell(l) PROVE ReadInv'
  <2>1. \A f \in Followers : pc'[f] = pc[f] /\ idx'[f] = idx[f]
    BY <1>4, NextCellType DEF write_cell
  <2> QED
    BY <1>4, <2>1 DEF write_cell, ReadInv
<1>5. ASSUME NEW f \in Followers, follower_open(f) \/ announce(f) PROVE ReadInv'
  BY <1>5 DEF follower_open, announce, Goto, TypeOK, ReadInv
<1>6. ASSUME NEW f \in Followers, wait_leader(f) PROVE ReadInv'
  BY <1>6 DEF wait_leader, Goto, TypeOK, ReadInv
<1>7. ASSUME NEW f \in Followers, read_cell(f) PROVE ReadInv'
  <2>1. /\ pc[f] = "read" /\ NextCell(f, "unlink")
        /\ arr' = [arr EXCEPT ![f] = @ \cup ({idx[f]} \cap data[object[f]])]
        /\ UNCHANGED <<object, read_guard>>
    BY <1>7 DEF read_cell
  <2>2. data[object[f]] = Cells /\ idx[f] \in Cells
    BY <2>1 DEF ReadInv, WriteInv, TypeOK
  <2>3. 1..idx[f] \subseteq arr'[f] /\ arr'[f] \subseteq Cells
    BY <2>1, <2>2 DEF ReadInv, TypeOK
  <2>4. \A g \in Followers \ {f} : arr'[g] = arr[g]
    BY <2>1 DEF TypeOK
  <2>5. /\ \A q \in Procs \ {f} : pc'[q] = pc[q] /\ idx'[q] = idx[q]
        /\ \/ idx[f] = Size /\ pc' = [pc EXCEPT ![f] = "unlink"] /\ idx' = idx
           \/ idx[f] # Size /\ pc' = pc /\ idx'[f] = idx[f] + 1
    BY <2>1, NextCellType
  <2>6. CASE idx[f] = Size
    <3>1. pc'[f] = "unlink" /\ arr'[f] = Cells
      BY <2>3, <2>5, <2>6 DEF TypeOK
    <3> QED
      BY <2>1, <2>4, <2>5, <3>1 DEF ReadInv
  <2>7. CASE idx[f] # Size
    <3>1. pc'[f] = "read" /\ idx'[f] - 1 = idx[f]
      BY <2>1, <2>5, <2>7 DEF TypeOK
    <3>2. 1..(idx'[f] - 1) \subseteq arr'[f]
      BY <2>3, <3>1
    <3> QED
      BY <2>1, <2>4, <2>5, <3>1, <3>2 DEF ReadInv
  <2> QED
    BY <2>6, <2>7
<1>8. ASSUME NEW f \in Followers, shm_unlink(f) \/ acknowledge(f) PROVE ReadInv'
  BY <1>8 DEF shm_unlink, acknowledge, Goto, TypeOK, ReadInv
<1>9. ASSUME NEW p \in Procs, Crash(p) PROVE ReadInv'
  BY <1>1, <1>9 DEF Crash
<1> QED
  BY <1>2, <1>3, <1>4, <1>5, <1>6, <1>7, <1>8, <1>9 DEF Next, leader_main, follower_main

\* An acknowledged object has been copied and has lost its name for good.
LEMMA AckStep ==
  ASSUME IInv, Next
  PROVE  AckInv'
<1> USE ConstFacts
<1> TypeOK /\ ObjInv /\ WriteInv /\ ReadInv /\ AckInv
  BY DEF IInv
<1>1. ASSUME NEW p \in Procs, NEW m, Goto(p, m), m \notin {"acknowledge", "done"},
             UNCHANGED <<name, delete_guard, object, arr>>
      PROVE  AckInv'
  BY <1>1 DEF Goto, TypeOK, AckInv
<1>2. ASSUME NEW l \in Leaders, leader_open(l) PROVE AckInv'
  <2>1. name' \notin delete_guard /\ UNCHANGED <<delete_guard, arr>>
    BY <1>2 DEF leader_open, ObjInv, AckInv, TypeOK
  <2>2. \A f \in Followers : pc'[f] = pc[f] /\ object'[f] = object[f]
    BY <1>2 DEF leader_open, Goto, TypeOK
  <2>3. \A f \in Followers : pc[f] = "acknowledge" => object[f] # name'
    BY <1>2 DEF leader_open, ObjInv, AckInv, Attached, TypeOK
  <2>4. \A m \in Leaders : pc'[m] = "done" => pc[m] = "done" /\ object'[m] = object[m]
    BY <1>2 DEF leader_open, Goto, TypeOK
  <2> QED
    BY <2>1, <2>2, <2>3, <2>4 DEF AckInv
<1>3. ASSUME NEW l \in Leaders,
             ftruncate(l) \/ leader_mmap(l) \/ wait_follower(l) \/ notify_follower(l)
      PROVE  AckInv'
  BY <1>1, <1>3 DEF ftruncate, leader_mmap, wait_follower, notify_follower
<1>4. ASSUME NEW l \in Leaders, write_cell(l) PROVE AckInv'
  BY <1>4 DEF write_cell, NextCell, Goto, TypeOK, AckInv
<1>5. ASSUME NEW l \in Leaders, wait_ack(l) PROVE AckInv'
  BY <1>5 DEF wait_ack, Goto, TypeOK, AckInv
<1>6. ASSUME NEW f \in Followers, follower_open(f) PROVE AckInv'
  <2>1. \A g \in Followers : pc'[g] = "acknowledge" => pc[g] = "acknowledge" /\ object'[g] = object[g]
    BY <1>6 DEF follower_open, Goto, TypeOK
  <2>2. \A g \in Followers : g # f => object'[g] = object[g]
    BY <1>6 DEF follower_open, TypeOK
  <2>3. \A o \in delete_guard : \E g \in Followers : object'[g] = o /\ arr[g] = Cells
    <3> SUFFICES ASSUME NEW o \in delete_guard
                 PROVE  \E g \in Followers : object'[g] = o /\ arr[g] = Cells
      OBVIOUS
    <3>1. PICK g \in Followers : object[g] = o /\ arr[g] = Cells
      BY DEF AckInv
    <3>2. CASE g # f
      BY <2>2, <3>1, <3>2
    <3>3. CASE g = f
      BY <1>6, <3>1, <3>3 DEF follower_open, ReadInv
    <3> QED
      BY <3>2, <3>3
  <2>4. \A l \in Leaders : pc'[l] = pc[l] /\ object'[l] = object[l]
    BY <1>6 DEF follower_open, Goto, TypeOK
  <2> QED
    BY <1>6, <2>1, <2>3, <2>4 DEF follower_open, AckInv
<1>7. ASSUME NEW f \in Followers, announce(f) \/ wait_leader(f) PROVE AckInv'
  BY <1>1, <1>7 DEF announce, wait_leader
<1>8. ASSUME NEW f \in Followers, read_cell(f) PROVE AckInv'
  <2>1. ASSUME NEW g \in Followers, arr[g] = Cells PROVE arr'[g] = Cells
    <3>1. CASE g = f
      <4>1. data[object[f]] = Cells
        BY <1>8 DEF read_cell, ReadInv, WriteInv
      <4>2. arr'[f] = arr[f] \cup ({idx[f]} \cap data[object[f]])
        BY <1>8 DEF read_cell, TypeOK
      <4> QED
        BY <2>1, <3>1, <4>1, <4>2
    <3>2. CASE g # f
      BY <1>8, <2>1, <3>2 DEF read_cell, TypeOK
    <3> QED
      BY <3>1, <3>2
  <2> QED
    BY <1>8, <2>1 DEF read_cell, NextCell, Goto, TypeOK, AckInv
<1>9. ASSUME NEW f \in Followers, shm_unlink(f) PROVE AckInv'
  BY <1>9 DEF shm_unlink, Goto, TypeOK, ObjInv, Attached, AckInv
<1>10. ASSUME NEW f \in Followers, acknowledge(f) PROVE AckInv'
  BY <1>10 DEF acknowledge, Goto, TypeOK, ReadInv, AckInv
<1>11. ASSUME NEW p \in Procs, Crash(p) PROVE AckInv'
  BY <1>1, <1>11 DEF Crash
<1> QED
  BY <1>2, <1>3, <1>4, <1>5, <1>6, <1>7, <1>8, <1>9, <1>10, <1>11
  DEF Next, leader_main, follower_main

-----------------------------------------------------------------------------
(* The theorems *)

\* The inductive invariant the others follow from.
THEOREM Inductive == Spec => []IInv
<1>1. Init => IInv
  BY InitIInv
<1>2. IInv /\ [Next]_vars => IInv'
  <2> SUFFICES ASSUME IInv, [Next]_vars PROVE IInv'
    OBVIOUS
  <2>1. CASE Next
    BY <2>1, TypeStep, ObjStep, WriteStep, ReadStep, AckStep DEF IInv
  <2>2. CASE UNCHANGED vars
    BY <2>2 DEF vars, IInv, TypeOK, ObjInv, WriteInv, ReadInv, AckInv
  <2> QED
    BY <2>1, <2>2
<1> QED
  BY <1>1, <1>2, PTL DEF Spec

\* Every variable keeps its type; the copy loops stay inside the array.
THEOREM TypeCorrect == Spec => []TypeOK
<1>1. IInv => TypeOK
  BY DEF IInv
<1> QED
  BY <1>1, Inductive, PTL

\* A follower never copies a cell that no leader has written, for an array of
\* any size, any number of runs and crashes at any point.
THEOREM CopiesAreComplete == Spec => []CopyComplete
<1>1. IInv => CopyComplete
  BY DEF IInv, ReadInv, CopyComplete
<1> QED
  BY <1>1, Inductive, PTL

\* A leader ends only after a complete copy of its object.
THEOREM AcksMeanCopied == Spec => []AckMeansCopied
<1>1. IInv => AckMeansCopied
  BY DEF IInv, AckInv, AckMeansCopied
<1> QED
  BY <1>1, Inductive, PTL

\* An acknowledgment is never left for a later leader to find.
THEOREM NoAckIsStale == Spec => []NoStaleAck
<1>1. IInv => NoStaleAck
  BY DEF IInv, AckInv, NoStaleAck
<1> QED
  BY <1>1, Inductive, PTL
=============================================================================
