---------------------------- MODULE StudioProofs ----------------------------
(***************************************************************************)
(* Proofs about the modules of MCStudios: the kernel memory of studio 12, for  *)
(* pages of any size and any largest number of structs; the signals of studio  *)
(* 20, for any senders, any limit of the queue and any number of signals; and  *)
(* the sort of studio 14, for an array of any size and any numbers.           *)
(***************************************************************************)
EXTENDS KernelMemory, Signals, Quicksort,
        SequenceTheorems, FiniteSetTheorems, FunctionTheorems, TLAPS,
        NaturalsInduction, WellFoundedInduction

-----------------------------------------------------------------------------
(* The powers of two, by induction over a set of naturals *)

\* The naturals are well-founded.
LEMMA LessWF ==
  \E R : IsWellFoundedOn(R, Nat) /\ \A x, y \in Nat : <<x, y>> \in R <=> x < y
<1> DEFINE R == OpToRel(<, Nat)
<1>2. IsWellFoundedOn(R, Nat)
  BY NatLessThanWellFounded
<1>4. \A x, y \in Nat : <<x, y>> \in R <=> x < y
  BY DEF OpToRel
<1> HIDE DEF R
<1> QED
  BY <1>2, <1>4

\* A set of naturals has a least element.
LEMMA LeastNat ==
  ASSUME NEW T \in SUBSET Nat, T # {}
  PROVE  \E x \in T : \A y \in T : x <= y
<1>2. PICK R : IsWellFoundedOn(R, Nat) /\ \A x, y \in Nat : <<x, y>> \in R <=> x < y
  BY LessWF
<1>3. T \subseteq Nat /\ T # {} /\ IsWellFoundedOn(R, Nat)
  BY <1>2
<1>5. PICK x \in T : \A y \in T : ~ (<<y, x>> \in R)
  BY ONLY <1>3, WFMin, Zenon
<1>6. \A y \in T : x \in Nat /\ y \in Nat /\ ~ (y < x)
  BY <1>5, <1>2, Zenon
<1> QED
  BY <1>6

\* A set that has 0 and the successor of each element has every natural.
LEMMA SetInd ==
  ASSUME NEW S \in SUBSET Nat, 0 \in S, \A n \in S : n + 1 \in S
  PROVE  S = Nat
<1>1. SUFFICES ASSUME Nat \ S # {} PROVE FALSE
  OBVIOUS
<1>3. PICK x \in Nat \ S : \A y \in Nat \ S : x <= y
  BY <1>1, LeastNat
<1>4. x # 0 /\ x - 1 \in Nat /\ x = (x - 1) + 1 /\ x - 1 < x
  OBVIOUS
<1>5. x - 1 \in S
  BY <1>3, <1>4
<1> QED
  BY <1>4, <1>5, <1>3

\* w is the powers of two up to 2^k.
PowerRec(w, k) ==
  w \in [0..k -> Nat \ {0}] /\ w[0] = 1 /\ \A i \in 1..k : w[i] = 2 * w[i - 1]

\* There is such a sequence for every k.
LEMMA PowersExist ==
  ASSUME NEW k \in Nat
  PROVE  \E w : PowerRec(w, k)
<1> DEFINE S == {n \in Nat : \E w : PowerRec(w, n)}
<1>1. 0 \in S
  <2>1. PICK w : w = [i \in 0..0 |-> 1]
    OBVIOUS
  <2>2. PowerRec(w, 0)
    BY <2>1 DEF PowerRec
  <2> QED
    BY <2>2
<1>2. ASSUME NEW n \in S PROVE n + 1 \in S
  <2>1. PICK w : PowerRec(w, n)
    OBVIOUS
  <2>2. PICK v : v = [i \in 0..n + 1 |-> IF i <= n THEN w[i] ELSE 2 * w[n]]
    OBVIOUS
  <2>3. n \in Nat /\ w \in [0..n -> Nat \ {0}] /\ w[n] \in Nat \ {0}
    BY <2>1 DEF PowerRec
  <2>4. v \in [0..n + 1 -> Nat \ {0}] /\ v[0] = 1
    BY <2>1, <2>2, <2>3 DEF PowerRec
  <2>5. \A i \in 1..n + 1 : v[i] = 2 * v[i - 1]
    BY <2>1, <2>2, <2>3 DEF PowerRec
  <2>6. PowerRec(v, n + 1)
    BY <2>4, <2>5 DEF PowerRec
  <2> QED
    BY <2>3, <2>6
<1>3. S = Nat
  BY <1>1, <1>2, SetInd
<1> QED
  BY <1>3

\* The recursive function PowerOf2 is such a sequence.
LEMMA PowerRecursion == PowerRec(PowerOf2, Width)
<1>1. PICK w : PowerRec(w, Width)
  BY PowersExist, MemAssumption
<1>2. w = [k \in 0..Width |-> IF k = 0 THEN 1 ELSE 2 * w[k - 1]]
  BY <1>1, MemAssumption DEF PowerRec
<1>3. PowerOf2 = [k \in 0..Width |-> IF k = 0 THEN 1 ELSE 2 * PowerOf2[k - 1]]
  BY <1>2, Zenon DEF PowerOf2
<1>f. PICK f : f = PowerOf2
  OBVIOUS
<1>4. f = [k \in 0..Width |-> IF k = 0 THEN 1 ELSE 2 * f[k - 1]]
  BY <1>3, <1>f, Zenon
<1>5. f[0] = 1 /\ \A k \in 1..Width : f[k] = 2 * f[k - 1]
  BY <1>4, MemAssumption
<1> DEFINE S == {n \in Nat : n <= Width => f[n] \in Nat \ {0}}
<1>6. 0 \in S
  BY <1>5
<1>7. ASSUME NEW n \in S PROVE n + 1 \in S
  <2> SUFFICES ASSUME n + 1 <= Width PROVE f[n + 1] \in Nat \ {0}
    OBVIOUS
  <2>1. n + 1 \in 1..Width /\ (n + 1) - 1 = n /\ f[n] \in Nat \ {0}
    BY MemAssumption
  <2> QED
    BY <1>5, <2>1
<1>8. S = Nat
  BY <1>6, <1>7, SetInd
<1>9. \A n \in 0..Width : f[n] \in Nat \ {0}
  BY <1>8, MemAssumption
<1>10. f \in [0..Width -> Nat \ {0}]
  BY <1>4, <1>9, Zenon
<1> QED
  BY <1>5, <1>10, <1>f DEF PowerRec

\* 1 is a power of two, and twice a power is one or lies above all of them.
LEMMA PowersDouble ==
  /\ PowerOf2[Width] \in Nat \ {0}
  /\ Powers \subseteq Nat \ {0} /\ 1 \in Powers
  /\ \A p \in Powers : 2 * p \in Powers \/ 2 * p > PowerOf2[Width]
<1>f. PICK f : f = PowerOf2
  OBVIOUS
<1>1. /\ \A k \in 0..Width : f[k] \in Nat \ {0}
      /\ f[0] = 1 /\ \A k \in 1..Width : f[k] = 2 * f[k - 1]
  BY <1>f, PowerRecursion DEF PowerRec
<1>2. Powers = {f[k] : k \in 0..Width}
  BY <1>f DEF Powers
<1>3. ASSUME NEW k \in 0..Width PROVE 2 * f[k] \in Powers \/ 2 * f[k] > f[Width]
  <2>1. CASE k = Width
    BY <1>1, <2>1, MemAssumption
  <2>2. CASE k # Width
    <3>1. k + 1 \in 1..Width /\ (k + 1) - 1 = k
      BY <2>2, MemAssumption
    <3>2. f[k + 1] = 2 * f[k]
      BY <1>1, <3>1
    <3> QED
      BY <1>2, <3>1, <3>2
  <2> QED
    BY <2>1, <2>2
<1>4. 0 \in 0..Width /\ Width \in 0..Width
  BY MemAssumption
<1> QED
  BY <1>1, <1>2, <1>3, <1>4, <1>f

-----------------------------------------------------------------------------
(* The kernel memory *)

\* Before the allocation there is nothing at the pointer.
BeforeAlloc == {"none", "created", "woken", "size", "order"}
BeforeCheck == {"create", "wake", "failed", "loaded", "join"}

\* The thread runs from its wake-up until exit has waited for it.
CtlInv ==
  /\ mctl \in {"create", "failed"} => mpc = "none"
  /\ mctl = "wake" => mpc = "created"
  /\ mctl \in {"loaded", "join"} => mpc \notin {"none", "created"}
  /\ mctl \in {"check", "removed", "oops"} => mpc \in {"done", "killed"}

\* What is left to shift, in pages, and what has been shifted hold nr_pages.
OrderInv ==
  /\ order >= 1
  /\ mpc \in BeforeAlloc \ {"order"} => order = 1
  /\ mpc = "order" => nr_pages <= (value + 1) * order

\* The pointer stands for the pages that are allocated, enough for all.
AllocInv ==
  /\ mpc \in BeforeAlloc \cup {"killed"} => pages = 0
  /\ pages # 0 => pages = order /\ nr_pages <= pages
  /\ allocated = IF mctl = "removed" THEN 0 ELSE pages

\* The thread writes its pages in their order.
FillInv ==
  /\ filled \subseteq 0..nr_pages - 1
  /\ mpc \in BeforeAlloc => filled = {} /\ mi = 0
  /\ mpc = "write" => mi < nr_pages /\ filled = 0..mi - 1
  /\ mpc = "spin" => filled = 0..nr_pages - 1
  /\ mpc = "done" /\ pages # 0 => filled = 0..nr_pages - 1

CleanInv ==
  /\ mctl \in BeforeCheck => clean
  /\ pages # 0 => clean

MemIInv == MemTypeOK /\ CtlInv /\ OrderInv /\ AllocInv /\ FillInv /\ CleanInv

-----------------------------------------------------------------------------
\* Division by the size of a page: quotient and remainder.
LEMMA Division ==
  ASSUME NEW n \in Nat, NEW d \in Nat \ {0}
  PROVE  /\ n \div d \in Nat
         /\ n % d \in 0..d - 1
         /\ n = d * (n \div d) + (n % d)
  OBVIOUS

\* The number of pages for n structs: enough for them and one less would not do.
LEMMA PagesForIsEnough ==
  ASSUME NEW n \in Nat
  PROVE  /\ PagesFor(n) \in Nat
         /\ n <= PagesFor(n) * PerPage
         /\ n > (PagesFor(n) - 1) * PerPage
<1> DEFINE q == n \div PerPage
           r == n % PerPage
<1>1. q \in Nat /\ r \in 0..PerPage - 1 /\ n = (PerPage * q) + r
  BY Division, MemAssumption
<1>2. PagesFor(n) = q + (IF r = 0 THEN 0 ELSE 1)
  BY DEF PagesFor
<1> HIDE DEF q, r
<1>3. PerPage \in Nat \ {0}
  BY MemAssumption
<1>4. PerPage * q \in Nat /\ q * PerPage = PerPage * q
  BY <1>1, <1>3
<1>5. (q + 1) * PerPage = PerPage * q + PerPage
  BY <1>1, <1>3
<1>6. (q - 1) * PerPage = PerPage * q - PerPage
  BY <1>1, <1>3
<1>7. CASE r = 0
  <2>1. PagesFor(n) = q
    BY <1>1, <1>2, <1>7
  <2> QED  BY <1>1, <1>3, <1>4, <1>6, <1>7, <2>1
<1>8. CASE r # 0
  <2>1. PagesFor(n) = q + 1 /\ PagesFor(n) - 1 = q
    BY <1>1, <1>2, <1>8
  <2> QED  BY <1>1, <1>3, <1>4, <1>5, <1>8, <2>1
<1> QED  BY <1>7, <1>8

\* A round of my_get_order loses nothing of what is left to shift.
LEMMA ShiftKeeps ==
  ASSUME NEW v \in Nat, NEW o \in Nat
  PROVE  /\ v \div 2 \in Nat
         /\ (v + 1) * o <= (v \div 2 + 1) * (2 * o)
<1> DEFINE w == v \div 2
<1>1. w \in Nat /\ v <= 2 * w + 1
  OBVIOUS
<1> HIDE DEF w
<1>2. PICK d \in Nat : 2 * w + 2 = (v + 1) + d
  <2>1. (2 * w + 1) - v \in Nat /\ 2 * w + 2 = (v + 1) + ((2 * w + 1) - v)
    BY <1>1
  <2> QED  BY <2>1
<1>3. (w + 1) * (2 * o) = (2 * w + 2) * o
  BY <1>1
<1>4. ((v + 1) + d) * o = (v + 1) * o + d * o /\ d * o \in Nat /\ (v + 1) * o \in Nat
  BY <1>2
<1>5. (v + 1) * o <= (w + 1) * (2 * o)
  BY <1>2, <1>3, <1>4
<1> QED  BY <1>1, <1>5 DEF w

-----------------------------------------------------------------------------
\* The invariant holds when insmod begins.
LEMMA MemInitial ==
  ASSUME MemInit
  PROVE  MemIInv
<1>1. MemTypeOK
  BY MemAssumption DEF MemInit, MemTypeOK
<1>2. CtlInv /\ OrderInv
  BY DEF MemInit, CtlInv, OrderInv, BeforeAlloc
<1>3. AllocInv /\ FillInv
  BY DEF MemInit, AllocInv, FillInv
<1>4. CleanInv
  BY DEF MemInit, CleanInv
<1> QED  BY <1>1, <1>2, <1>3, <1>4 DEF MemIInv

\* insmod and a write of the parameter keep it.
LEMMA MemInitStep ==
  ASSUME MemIInv, SetNrStructs \/ CreateMemThread \/ WakeMemThread
  PROVE  MemIInv'
<1> USE DEF MemIInv, MemTypeOK, CtlInv, OrderInv, AllocInv, FillInv, CleanInv, BeforeAlloc,
      BeforeCheck, sizeVars, pageVars, exitVars
<1>1. CASE SetNrStructs
  BY <1>1 DEF SetNrStructs
<1>2. CASE CreateMemThread
  BY <1>2 DEF CreateMemThread
<1>3. CASE WakeMemThread
  BY <1>3 DEF WakeMemThread
<1> QED  BY <1>1, <1>2, <1>3

\* The loop over the pages begins with none of them written.
LEMMA FillBegins ==
  ASSUME MemIInv, mpc = "order", AfterAlloc, UNCHANGED <<nr_pages, filled, mi>>
  PROVE  FillInv'
<1>1. filled' = {} /\ mi' = 0 /\ nr_pages' \in Nat
  BY DEF MemIInv, MemTypeOK, FillInv, BeforeAlloc
<1>2. mpc' = IF nr_pages' = 0 THEN "spin" ELSE "write"
  BY DEF AfterAlloc
<1>3. 0..0 - 1 = {}
  OBVIOUS
<1>4. CASE nr_pages' = 0
  <2>1. 0..nr_pages' - 1 = {} /\ mpc' = "spin"
    BY <1>2, <1>3, <1>4
  <2> QED  BY <1>1, <2>1 DEF FillInv, BeforeAlloc
<1>5. CASE nr_pages' # 0
  <2>1. 0..mi' - 1 = {} /\ mpc' = "write"
    BY <1>1, <1>2, <1>3, <1>5
  <2> QED  BY <1>1, <1>5, <2>1 DEF FillInv, BeforeAlloc
<1> QED  BY <1>4, <1>5

\* The thread keeps it.
LEMMA MemThreadStep ==
  ASSUME MemIInv, thread_fn
  PROVE  MemIInv'
<1> USE DEF MemIInv, MemTypeOK, CtlInv, OrderInv, AllocInv, FillInv, CleanInv, BeforeAlloc,
      BeforeCheck, sizeVars, pageVars, exitVars
<1>1. CASE StartMemThread
  BY <1>1 DEF StartMemThread
<1>2. CASE CountPages
  <2>1. nr_pages' \in Nat
    BY <1>2, PagesForIsEnough DEF CountPages
  <2>2. value' \in Nat /\ nr_pages' <= value' + 1
    BY <1>2, <2>1 DEF CountPages, StartValue
  <2>3. order' = 1 /\ nr_pages' <= (value' + 1) * order'
    BY <1>2, <2>1, <2>2 DEF CountPages
  <2> QED  BY <1>2, <2>1, <2>2, <2>3 DEF CountPages
<1>3. CASE ShiftOrder
  <2>1. value' \in Nat /\ (value + 1) * order <= (value' + 1) * order'
    BY <1>3, ShiftKeeps DEF ShiftOrder
  <2>2. order' \in Nat /\ order' >= 1
    BY <1>3 DEF ShiftOrder
  <2>3. \A a, b \in Nat : (a + 1) * b \in Nat
    OBVIOUS
  <2>4. nr_pages' <= (value' + 1) * order'
    <3>1. (value + 1) * order \in Nat /\ (value' + 1) * order' \in Nat
      <4> HIDE DEF CtlInv, OrderInv, AllocInv, FillInv, CleanInv
      <4> QED  BY <2>1, <2>2, <2>3
    <3>2. nr_pages' = nr_pages /\ nr_pages \in Nat /\ nr_pages <= (value + 1) * order
      BY <1>3 DEF ShiftOrder
    <3> HIDE DEF MemIInv, MemTypeOK, CtlInv, OrderInv, AllocInv, FillInv, CleanInv
    <3> QED  BY <2>1, <3>1, <3>2
  <2> HIDE DEF OrderInv
  <2>5. OrderInv'
    BY <1>3, <2>2, <2>4 DEF ShiftOrder, OrderInv
  <2> QED  BY <1>3, <2>1, <2>2, <2>5 DEF ShiftOrder
<1>4. CASE alloc_pages
  <2>1. nr_pages <= order
    BY <1>4 DEF alloc_pages
  <2>2. FillInv'
    BY <1>4, FillBegins DEF alloc_pages
  <2> QED  BY <1>4, <2>1, <2>2 DEF alloc_pages, AfterAlloc
<1>5. CASE AllocPagesFails
  <2>1. FillInv'
    BY <1>5, FillBegins DEF AllocPagesFails
  <2> QED  BY <1>5, <2>1 DEF AllocPagesFails, AfterAlloc
<1>6. CASE WritePage
  <2>1. CASE LastPage(mi)
    BY <1>6, <2>1 DEF WritePage, LastPage
  <2>2. CASE ~LastPage(mi)
    BY <1>6, <2>2 DEF WritePage, LastPage
  <2> QED  BY <2>1, <2>2
<1>7. CASE WriteOops
  BY <1>7 DEF WriteOops
<1>8. CASE SpinUntilStop
  BY <1>8 DEF SpinUntilStop, StopSeen
<1> QED  BY <1>1, <1>2, <1>3, <1>4, <1>5, <1>6, <1>7, <1>8 DEF thread_fn

\* rmmod keeps it.
LEMMA MemExitStep ==
  ASSUME MemIInv, StopMemThread \/ kernel_memory_exit
  PROVE  MemIInv'
<1> USE DEF MemIInv, MemTypeOK, CtlInv, OrderInv, AllocInv, FillInv, CleanInv, BeforeAlloc,
      BeforeCheck, sizeVars, pageVars, exitVars
<1>1. CASE StopMemThread
  BY <1>1 DEF StopMemThread
<1>2. CASE JoinMemThread
  BY <1>2 DEF JoinMemThread
<1>3. CASE JoinReleased
  BY <1>3 DEF JoinReleased
<1>4. CASE CheckPage
  <2>1. pages # 0 => me \in filled
    BY <1>4 DEF CheckPage
  <2> QED  BY <1>4, <2>1 DEF CheckPage
<1>5. CASE __free_pages
  BY <1>5 DEF __free_pages, FreeSize
<1>6. CASE ExitOops
  BY <1>6 DEF ExitOops
<1> QED  BY <1>1, <1>2, <1>3, <1>4, <1>5, <1>6 DEF kernel_memory_exit

\* Every step of insmod, rmmod, the thread and the writer of the parameter keeps
\* the invariant.
THEOREM MemInductive == MemSpec => []MemIInv
<1>1. MemIInv /\ [MemNext]_memVars => MemIInv'
  <2> SUFFICES ASSUME MemIInv, [MemNext]_memVars
               PROVE  MemIInv'
    OBVIOUS
  <2>1. CASE MemNext
    BY <2>1, MemInitStep, MemThreadStep, MemExitStep DEF MemNext
  <2>2. CASE UNCHANGED memVars
    BY <2>2 DEF memVars, MemIInv, MemTypeOK, CtlInv, OrderInv, AllocInv, FillInv, CleanInv
  <2> QED  BY <2>1, <2>2
<1> QED  BY <1>1, MemInitial, PTL DEF MemSpec

\* What is left to shift, times what has been shifted, is not above the number of
\* pages, and below it where my_get_order began one lower.  So a round that
\* doubles the order begins below it.
SmallestInv ==
  /\ order \in Powers \/ order > PowerOf2[Width]
  /\ nr_pages < PowerOf2[Width]
  /\ mpc = "order" =>
       value * order <= nr_pages /\ (nr_pages \in Powers => value * order < nr_pages)
  /\ order = 1 \/ order < 2 * nr_pages

\* A shift of the value and of the order does not raise their product.
LEMMA ShiftLowers ==
  ASSUME NEW v \in Nat, NEW o \in Nat
  PROVE  /\ v * o \in Nat /\ (v \div 2) * (2 * o) \in Nat
         /\ (v \div 2) * (2 * o) <= v * o
         /\ v > 0 => o <= v * o
<1> DEFINE w == v \div 2
<1>1. w \in Nat /\ v - 2 * w \in Nat
  OBVIOUS
<1> HIDE DEF w
<1>2. \A a, b \in Nat : a * b \in Nat
  OBVIOUS
<1>3. \A a, b, c \in Nat : (a + b) * c = a * c + b * c
  OBVIOUS
<1>4. w * (2 * o) = (2 * w) * o
  BY <1>1
<1>5. v * o = (2 * w) * o + (v - 2 * w) * o
  <2>1. v = 2 * w + (v - 2 * w) /\ 2 * w \in Nat
    BY <1>1
  <2> QED
    BY <1>1, <1>3, <2>1
<1>6. (2 * w) * o \in Nat /\ (v - 2 * w) * o \in Nat /\ v * o \in Nat
  BY <1>1, <1>2
<1>7. ASSUME v > 0 PROVE o <= v * o
  <2>1. v - 1 \in Nat /\ v = (v - 1) + 1 /\ (v - 1) * o \in Nat
    BY <1>2, <1>7
  <2>2. v * o = (v - 1) * o + 1 * o
    BY <1>3, <2>1
  <2> QED
    BY <2>1, <2>2
<1>8. w * (2 * o) \in Nat /\ w * (2 * o) <= v * o
  BY <1>4, <1>5, <1>6
<1> QED
  BY <1>6, <1>7, <1>8 DEF w

\* There are not more pages than structs.
LEMMA PagesForIsSmall ==
  ASSUME NEW n \in 0..MaxStructs
  PROVE  PagesFor(n) \in Nat /\ PagesFor(n) < PowerOf2[Width]
<1>1. n \in Nat /\ n < PowerOf2[Width] /\ PerPage \in Nat \ {0} /\ PowerOf2[Width] \in Nat
  BY MemAssumption, PowersDouble
<1>2. PagesFor(n) \in Nat /\ (PagesFor(n) - 1) * PerPage < n
  BY <1>1, PagesForIsEnough
<1>3. CASE PagesFor(n) = 0
  BY <1>1, <1>3
<1>4. CASE PagesFor(n) # 0
  <2>1. PICK m \in Nat : m = PagesFor(n) - 1
    BY <1>2, <1>4
  <2>2. PICK d \in Nat : PerPage = 1 + d
    <3>1. PerPage - 1 \in Nat /\ PerPage = 1 + (PerPage - 1)
      BY <1>1
    <3> QED
      BY <3>1
  <2>3. \A a, b \in Nat : a * b \in Nat /\ a * (1 + b) = a + a * b
    OBVIOUS
  <2>4. m * PerPage = m + m * d /\ m * d \in Nat
    BY <2>2, <2>3
  <2>5. PagesFor(n) = m + 1 /\ m * PerPage < n
    BY <1>2, <2>1
  <2> QED
    BY <1>1, <2>4, <2>5
<1> QED
  BY <1>3, <1>4

\* Every step keeps it.
LEMMA SmallestStep ==
  ASSUME MemIInv, MemIInv', SmallestInv, [MemNext]_memVars
  PROVE  SmallestInv'
<1>1. /\ PowerOf2[Width] \in Nat /\ Powers \subseteq Nat \ {0}
      /\ \A p \in Powers : 2 * p \in Powers \/ 2 * p > PowerOf2[Width]
  BY PowersDouble
<1>2. /\ nr_structs \in 0..MaxStructs /\ nr_pages \in Nat /\ order \in Nat /\ value \in Nat
      /\ order >= 1 /\ (mpc = "size" => order = 1)
  BY DEF MemIInv, MemTypeOK, OrderInv, BeforeAlloc
<1>3. CASE UNCHANGED <<nr_pages, order, value>> /\ (mpc' = "order" => mpc = "order")
  BY <1>3 DEF SmallestInv
<1>4. CASE CountPages
  <2>1. nr_pages' \in Nat /\ nr_pages' < PowerOf2[Width]
    BY <1>2, <1>4, PagesForIsSmall DEF CountPages
  <2>2. /\ order = 1 /\ order' = 1
        /\ value' = IF nr_pages' = 0 THEN 0 ELSE StartValue(nr_pages')
    BY <1>2, <1>4 DEF CountPages, sizeVars
  <2>3. value' \in Nat /\ value' <= nr_pages' /\ (nr_pages' \in Powers => value' < nr_pages')
    <3>1. CASE nr_pages' = 0
      BY <1>1, <2>2, <3>1
    <3>2. CASE nr_pages' # 0 /\ nr_pages' \in Powers
      <4>1. \A n \in Nat \ {0} : n - 1 \in Nat /\ n - 1 <= n /\ n - 1 < n
        OBVIOUS
      <4>2. nr_pages' \in Nat \ {0} /\ value' = nr_pages' - 1
        BY <2>1, <2>2, <3>2 DEF StartValue
      <4> QED
        BY <4>1, <4>2, Zenon
    <3>3. CASE nr_pages' # 0 /\ nr_pages' \notin Powers
      BY <2>1, <2>2, <3>3 DEF StartValue
    <3> QED
      BY <3>1, <3>2, <3>3
  <2>4. value' * order' = value'
    BY <2>2, <2>3
  <2> QED
    BY <2>1, <2>2, <2>3, <2>4 DEF SmallestInv
<1>5. CASE ShiftOrder
  <2>1. /\ mpc = "order" /\ value > 0 /\ nr_pages' = nr_pages
        /\ value' = value \div 2 /\ order' = 2 * order
    BY <1>5 DEF ShiftOrder
  <2>2. /\ value * order \in Nat /\ value' * order' \in Nat
        /\ value' * order' <= value * order /\ order <= value * order
    BY <1>2, <2>1, ShiftLowers
  <2>3. value * order <= nr_pages /\ (nr_pages \in Powers => value * order < nr_pages)
    BY <2>1 DEF SmallestInv
  <2>4. order < nr_pages
    BY <1>1, <1>2, <2>2, <2>3 DEF SmallestInv
  <2>5. order' \in Powers \/ order' > PowerOf2[Width]
    BY <1>1, <1>2, <2>1 DEF SmallestInv
  <2>6. order' < 2 * nr_pages'
    BY <1>2, <2>1, <2>4
  <2>7. value' * order' <= nr_pages' /\ (nr_pages' \in Powers => value' * order' < nr_pages')
    BY <1>2, <2>1, <2>2, <2>3
  <2>8. nr_pages' < PowerOf2[Width]
    BY <2>1 DEF SmallestInv
  <2> QED
    BY <2>5, <2>6, <2>7, <2>8 DEF SmallestInv
<1>6. CASE UNCHANGED memVars
  BY <1>3, <1>6 DEF memVars
<1>7. CASE MemNext /\ ~CountPages /\ ~ShiftOrder
  BY <1>3, <1>7 DEF MemNext, SetNrStructs, CreateMemThread, WakeMemThread, thread_fn,
    StartMemThread, alloc_pages, AllocPagesFails, AfterAlloc, WritePage, WriteOops, SpinUntilStop,
    StopMemThread, kernel_memory_exit, JoinMemThread, JoinReleased, CheckPage, __free_pages,
    ExitOops, sizeVars
<1> QED
  BY <1>4, <1>5, <1>6, <1>7

\* Every variable keeps its type; no more pages are freed than were allocated.
THEOREM MemTypeCorrect == MemSpec => []MemTypeOK
<1>1. MemIInv => MemTypeOK
  BY DEF MemIInv
<1> QED  BY <1>1, MemInductive, PTL

\* For any number of structs and any size of a page, thread_fn writes inside its
\* allocation, and half of it would not do.
THEOREM WritesAreInside == MemSpec => []WritesInside
<1>1. MemIInv /\ SmallestInv => WritesInside
  BY DEF MemIInv, MemTypeOK, AllocInv, FillInv, SmallestInv, WritesInside
<1>2. MemInit => SmallestInv
  BY PowersDouble DEF MemInit, SmallestInv
<1>3. MemIInv /\ MemIInv' /\ SmallestInv /\ [MemNext]_memVars => SmallestInv'
  BY SmallestStep
<1> QED  BY <1>1, <1>2, <1>3, MemInductive, PTL DEF MemSpec

\* Whenever the module is removed, kernel_memory_exit finds the pages that were
\* allocated as they should be.
THEOREM PagesAreClean == MemSpec => []PagesClean
<1>1. MemIInv => PagesClean
  BY DEF MemIInv, CleanInv, PagesClean
<1> QED  BY <1>1, MemInductive, PTL

\* A removed module has given back every page and no other.
THEOREM PagesAreReturned == MemSpec => []PagesReturned
<1>1. MemIInv => PagesReturned
  BY DEF MemIInv, AllocInv, PagesReturned
<1> QED  BY <1>1, MemInductive, PTL

\* The pages counted hold all structs and one page less does not, for every number
\* of structs.
THEOREM PagesAreEnough == MemSpec => PagesEnough
<1>1. MemIInv /\ [MemNext]_memVars =>
        [nr_pages' # nr_pages =>
           /\ nr_structs <= nr_pages' * PerPage
           /\ nr_structs > (nr_pages' - 1) * PerPage]_memVars
  <2> SUFFICES ASSUME MemIInv, MemNext, nr_pages' # nr_pages
               PROVE  /\ nr_structs <= nr_pages' * PerPage
                      /\ nr_structs > (nr_pages' - 1) * PerPage
    BY DEF memVars
  <2>1. CASE CountPages
    BY <2>1, PagesForIsEnough DEF CountPages, MemIInv, MemTypeOK
  <2>2. CASE ~CountPages
    BY <2>2 DEF MemNext, SetNrStructs, CreateMemThread, WakeMemThread, thread_fn,
      StartMemThread, ShiftOrder, alloc_pages, AllocPagesFails, WritePage, WriteOops,
      SpinUntilStop, StopMemThread, kernel_memory_exit, JoinMemThread, JoinReleased,
      CheckPage, __free_pages, ExitOops, sizeVars
  <2> QED  BY <2>1, <2>2
<1> QED  BY <1>1, MemInductive, PTL DEF MemSpec, PagesEnough

-----------------------------------------------------------------------------
(* The signals *)

Receiving == rpc \notin {"exit", "killed"}

\* A sender that has not begun its loop has sent nothing.
IdleInv == \A s \in Senders : spc[s] \in {"off", "refused"} => sent[s] = 0

\* The receiver prints when it has seen the last signal.
DoneInv == rpc \in {"print", "exit"} => done

\* A lone sender that has not begun: nothing has happened.
LoneIdle(s) ==
  spc[s] \in {"off", "refused"} =>
    pending = <<>> /\ count = 0 /\ ~done /\ s \notin lost

\* In its loop: what is sent is counted or queued.
LoneSending(s) ==
  spc[s] = "send" /\ Receiving =>
    /\ ~done /\ s \notin lost
    /\ count + Len(pending) = sent[s]
    /\ \A k \in 1..Len(pending) : pending[k] = 0

\* After it: the last signal is at the end of the queue, handled or lost.
LoneSent(s) ==
  spc[s] = "sent" /\ Receiving =>
    /\ sent[s] = sig_nr[s]
    /\ \A k \in 1..Len(pending) : pending[k] = 0 \/ k = Len(pending)
    /\ done => pending = <<>> /\ count = sig_nr[s]
    /\ ~done /\ s \in lost =>
         count + Len(pending) = sig_nr[s] /\ \A k \in 1..Len(pending) : pending[k] = 0
    /\ ~done /\ s \notin lost =>
         /\ count + Len(pending) = sig_nr[s] + 1
         /\ pending # <<>> /\ pending[Len(pending)] = 1

LonePrinted(s) == rpc = "exit" => spc[s] = "sent" /\ printed = sig_nr[s]

Lone(s) ==
  /\ spc[s] \in {"send", "sent"} => sig_nr[s] <= Limit
  /\ LoneIdle(s) /\ LoneSending(s) /\ LoneSent(s) /\ LonePrinted(s)

LoneInv == \A s \in Senders : Alone(s) => Lone(s)

SigIInv == SigTypeOK /\ IdleInv /\ DoneInv /\ LoneInv

-----------------------------------------------------------------------------
\* What Append does to a queue of signals.
LEMMA Queued ==
  ASSUME NEW q \in Seq({0, 1}), NEW v \in {0, 1}
  PROVE  /\ Append(q, v) \in Seq({0, 1})
         /\ Len(Append(q, v)) = Len(q) + 1
         /\ Append(q, v)[Len(q) + 1] = v
         /\ \A k \in 1..Len(q) : Append(q, v)[k] = q[k]
         /\ Append(q, v) # <<>>
<1>1. Append(q, v) \in Seq({0, 1}) /\ Len(Append(q, v)) = Len(q) + 1 /\ Len(q) \in Nat
  OBVIOUS
<1>2. Append(q, v)[Len(q) + 1] = v /\ \A k \in 1..Len(q) : Append(q, v)[k] = q[k]
  OBVIOUS
<1>3. Append(q, v) # <<>>
  BY <1>1
<1> QED  BY <1>1, <1>2, <1>3

LEMMA NextPlace ==
  ASSUME NEW n \in Nat, NEW k \in 1..n - 1, k # n - 1
  PROVE  k + 1 \in 1..n /\ k + 1 # n
  OBVIOUS

\* What is left when its first signal is taken.
LEMMA Dequeued ==
  ASSUME NEW q \in Seq({0, 1}), q # <<>>
  PROVE  /\ Head(q) = q[1] /\ Head(q) \in {0, 1}
         /\ Len(q) \in Nat \ {0}
         /\ Tail(q) \in Seq({0, 1}) /\ Len(Tail(q)) = Len(q) - 1
         /\ \A k \in 1..Len(q) - 1 : Tail(q)[k] = q[k + 1]
         /\ Len(q) = 1 => Tail(q) = <<>>
<1>1. Len(q) \in Nat \ {0}
  OBVIOUS
<1>2. Head(q) = q[1] /\ Head(q) \in {0, 1}
  BY <1>1
<1>3. Tail(q) \in Seq({0, 1}) /\ Len(Tail(q)) = Len(q) - 1
  BY <1>1
<1>4. \A k \in 1..Len(q) - 1 : Tail(q)[k] = q[k + 1]
  BY <1>1, <1>3
<1>5. Len(q) = 1 => Tail(q) = <<>>
  <2> SUFFICES ASSUME Len(q) = 1, Tail(q) # <<>>
               PROVE  FALSE
    OBVIOUS
  <2>1. Len(Tail(q)) = 0
    BY <1>3
  <2>2. Len(Tail(q)) \in Nat \ {0}
    BY <1>3, EmptySeq, Zenon
  <2> QED  BY <2>1, <2>2
<1> QED  BY <1>1, <1>2, <1>3, <1>4, <1>5

\* The invariant holds at the start.
LEMMA SigInitial ==
  ASSUME SigInit
  PROVE  SigIInv
<1>1. SigTypeOK
  <2>1. pending \in Seq({0, 1}) /\ Len(pending) <= Limit
    BY EmptySeq, SigAssumption DEF SigInit
  <2>2. /\ sent \in [Senders -> Nat] /\ sig_nr \in [Senders -> 0..MaxSend]
        /\ \A s \in Senders : sent[s] <= sig_nr[s]
    BY SigAssumption DEF SigInit
  <2>3. spc \in [Senders -> {"off", "refused", "send", "sent"}] /\ lost \subseteq Senders
    BY DEF SigInit
  <2> QED  BY <2>1, <2>2, <2>3 DEF SigInit, SigTypeOK
<1>2. IdleInv /\ DoneInv
  BY DEF SigInit, IdleInv, DoneInv
<1>3. LoneInv
  BY DEF SigInit, LoneInv, Lone, LoneIdle, LoneSending, LoneSent, LonePrinted
<1> QED  BY <1>1, <1>2, <1>3 DEF SigIInv

\* A sender starts.
LEMMA StartStep ==
  ASSUME SigIInv, NEW t \in Senders, StartSender(t)
  PROVE  SigIInv'
<1> USE DEF StartSender, sendVars, recvVars
<1>1. PICK n \in 0..MaxSend :
        /\ sig_nr' = [sig_nr EXCEPT ![t] = n]
        /\ spc' = [spc EXCEPT ![t] = IF Exceeds(n) THEN "refused" ELSE "send"]
  OBVIOUS
<1>2. sent[t] = 0 /\ n >= 0
  BY DEF SigIInv, IdleInv
<1>3. SigTypeOK'
  BY <1>1, <1>2, SigAssumption DEF SigIInv, SigTypeOK
<1>4. IdleInv' /\ DoneInv'
  BY <1>1, <1>2 DEF SigIInv, SigTypeOK, IdleInv, DoneInv
<1>5. ASSUME NEW s \in Senders, Alone(s)'
      PROVE  Lone(s)'
  <2>1. Alone(s)
    BY <1>1, <1>5 DEF SigIInv, SigTypeOK, Alone
  <2>2. Lone(s)
    BY <2>1 DEF SigIInv, LoneInv
  <2>3. CASE s = t
    <3>1. pending = <<>> /\ count = 0 /\ ~done /\ s \notin lost /\ rpc # "exit"
      BY <2>2, <2>3 DEF SigIInv, DoneInv, Lone, LoneIdle
    <3>2. Len(pending) = 0
      BY <3>1
    <3>3. sig_nr'[s] = n /\ spc'[s] = IF Exceeds(n) THEN "refused" ELSE "send"
      BY <1>1, <2>3 DEF SigIInv, SigTypeOK
    <3>4. spc'[s] = "send" => n <= Limit
      BY <3>3, SigAssumption DEF Exceeds
    <3> QED  BY <1>2, <2>3, <3>1, <3>2, <3>3, <3>4
          DEF Lone, LoneIdle, LoneSending, LoneSent, LonePrinted, Receiving
  <2>4. CASE s # t
    <3>1. spc'[s] = spc[s] /\ sig_nr'[s] = sig_nr[s]
      BY <1>1, <2>4 DEF SigIInv, SigTypeOK
    <3> QED  BY <2>2, <3>1
          DEF Lone, LoneIdle, LoneSending, LoneSent, LonePrinted, Receiving
  <2> QED  BY <2>3, <2>4
<1> QED  BY <1>3, <1>4, <1>5 DEF SigIInv, LoneInv

\* sigqueue appends the signal or loses it; a lone sender in its loop does not
\* find the queue full.
LEMMA SendCountedStep ==
  ASSUME SigIInv, NEW t \in Senders, SendCounted(t)
  PROVE  SigIInv'
<1> USE DEF SendCounted, recvVars
<1>1. /\ spc[t] = "send" /\ sent[t] < sig_nr[t]
      /\ sent' = [sent EXCEPT ![t] = @ + 1]
      /\ sent[t] \in Nat /\ sig_nr[t] \in Nat
      /\ UNCHANGED <<spc, sig_nr, rpc, done, count, printed>>
  BY DEF MoreToSend, SigIInv, SigTypeOK
<1>2. pending \in Seq({0, 1}) /\ Len(pending) \in Nat /\ count \in Nat
  BY DEF SigIInv, SigTypeOK
<1>3. \/ /\ Receiving /\ Len(pending) < Limit
         /\ pending' = Append(pending, 0) /\ lost' = lost
      \/ /\ ~Receiving \/ Len(pending) >= Limit
         /\ pending' = pending /\ lost' = lost \cup {t}
  BY DEF sigqueue, Receiving
<1>4. /\ Append(pending, 0) \in Seq({0, 1})
      /\ Len(Append(pending, 0)) = Len(pending) + 1
      /\ Append(pending, 0)[Len(pending) + 1] = 0
      /\ \A k \in 1..Len(pending) : Append(pending, 0)[k] = pending[k]
  BY <1>2, Queued
<1>5. SigTypeOK'
  <2>1. pending' \in Seq({0, 1}) /\ Len(pending') <= Limit
    <3>1. Len(pending) <= Limit /\ Limit \in Nat
      BY SigAssumption DEF SigIInv, SigTypeOK
    <3>2. CASE pending' = pending
      BY <1>2, <3>1, <3>2
    <3>3. CASE Len(pending) < Limit /\ pending' = Append(pending, 0)
      BY <1>2, <1>4, <3>1, <3>3
    <3> QED  BY <1>3, <3>2, <3>3
  <2>2. sent' \in [Senders -> Nat] /\ \A s \in Senders : sent'[s] <= sig_nr'[s]
    BY <1>1 DEF SigIInv, SigTypeOK
  <2>3. lost' \subseteq Senders
    BY <1>3 DEF SigIInv, SigTypeOK
  <2> QED  BY <1>1, <2>1, <2>2, <2>3 DEF SigIInv, SigTypeOK
<1>6. IdleInv' /\ DoneInv'
  BY <1>1 DEF SigIInv, SigTypeOK, IdleInv, DoneInv
<1>7. ASSUME NEW s \in Senders, Alone(s)'
      PROVE  Lone(s)'
  <2>1. Alone(s) /\ s = t
    BY <1>1, <1>7 DEF Alone
  <2>2. Lone(t)
    BY <2>1 DEF SigIInv, LoneInv
  <2>3. sig_nr[t] <= Limit /\ rpc # "exit"
    BY <1>1, <2>2 DEF Lone, LonePrinted
  <2>4. sent'[t] = sent[t] + 1
    BY <1>1 DEF SigIInv, SigTypeOK
  <2>5. CASE Receiving
    <3>1. /\ ~done /\ t \notin lost
          /\ count + Len(pending) = sent[t]
          /\ \A k \in 1..Len(pending) : pending[k] = 0
      BY <1>1, <2>2, <2>5 DEF Lone, LoneSending
    <3>2. Len(pending) < Limit
      BY <1>1, <1>2, <2>3, <3>1, SigAssumption
    <3>3. pending' = Append(pending, 0) /\ lost' = lost
      BY <1>2, <1>3, <2>5, <3>2, SigAssumption
    <3>4. \A k \in 1..Len(pending') : pending'[k] = 0
      BY <1>2, <1>4, <3>1, <3>3
    <3>5. count' + Len(pending') = sent'[t]
      BY <1>1, <1>2, <1>4, <2>4, <3>1, <3>3
    <3> QED  BY <1>1, <2>1, <2>3, <3>1, <3>3, <3>4, <3>5
          DEF Lone, LoneIdle, LoneSending, LoneSent, LonePrinted
  <2>6. CASE ~Receiving
    BY <1>1, <2>1, <2>3, <2>6
      DEF Lone, LoneIdle, LoneSending, LoneSent, LonePrinted, Receiving
  <2> QED  BY <2>5, <2>6
<1> QED  BY <1>5, <1>6, <1>7 DEF SigIInv, LoneInv

\* The last signal is queued behind all others or lost.
LEMMA SendLastStep ==
  ASSUME SigIInv, NEW t \in Senders, SendLast(t)
  PROVE  SigIInv'
<1> USE DEF SendLast, recvVars
<1>1. /\ spc[t] = "send" /\ sent[t] = sig_nr[t]
      /\ spc' = [spc EXCEPT ![t] = "sent"]
      /\ sent[t] \in Nat /\ sig_nr[t] \in Nat
      /\ UNCHANGED <<sent, sig_nr, rpc, done, count, printed>>
  BY DEF MoreToSend, SigIInv, SigTypeOK
<1>2. pending \in Seq({0, 1}) /\ Len(pending) \in Nat /\ count \in Nat
  BY DEF SigIInv, SigTypeOK
<1>3. \/ /\ Receiving /\ Len(pending) < Limit
         /\ pending' = Append(pending, 1) /\ lost' = lost
      \/ /\ ~Receiving \/ Len(pending) >= Limit
         /\ pending' = pending /\ lost' = lost \cup {t}
  BY DEF sigqueue, Receiving
<1>4. /\ Append(pending, 1) \in Seq({0, 1})
      /\ Len(Append(pending, 1)) = Len(pending) + 1
      /\ Append(pending, 1)[Len(pending) + 1] = 1
      /\ \A k \in 1..Len(pending) : Append(pending, 1)[k] = pending[k]
      /\ Append(pending, 1) # <<>>
  BY <1>2, Queued
<1>5. SigTypeOK'
  <2>1. pending' \in Seq({0, 1}) /\ Len(pending') <= Limit
    <3>1. Len(pending) <= Limit /\ Limit \in Nat
      BY SigAssumption DEF SigIInv, SigTypeOK
    <3>2. CASE pending' = pending
      BY <1>2, <3>1, <3>2
    <3>3. CASE Len(pending) < Limit /\ pending' = Append(pending, 1)
      BY <1>2, <1>4, <3>1, <3>3
    <3> QED  BY <1>3, <3>2, <3>3
  <2>2. lost' \subseteq Senders
    BY <1>3 DEF SigIInv, SigTypeOK
  <2> QED  BY <1>1, <2>1, <2>2 DEF SigIInv, SigTypeOK
<1>6. IdleInv' /\ DoneInv'
  BY <1>1 DEF SigIInv, SigTypeOK, IdleInv, DoneInv
<1>7. ASSUME NEW s \in Senders, Alone(s)'
      PROVE  Lone(s)'
  <2>1. spc'[t] = "sent"
    BY <1>1 DEF SigIInv, SigTypeOK
  <2>2. Alone(s) /\ s = t
    BY <1>1, <1>7, <2>1 DEF SigIInv, SigTypeOK, Alone
  <2>3. Lone(t)
    BY <2>2 DEF SigIInv, LoneInv
  <2>4. sig_nr[t] <= Limit /\ rpc # "exit"
    BY <1>1, <2>3 DEF Lone, LonePrinted
  <2>5. CASE Receiving
    <3>1. /\ ~done /\ t \notin lost
          /\ count + Len(pending) = sig_nr[t]
          /\ \A k \in 1..Len(pending) : pending[k] = 0
      BY <1>1, <2>3, <2>5 DEF Lone, LoneSending
    <3>2. CASE pending' = Append(pending, 1) /\ lost' = lost
      <4>1. \A k \in 1..Len(pending') : pending'[k] = 0 \/ k = Len(pending')
        BY <1>2, <1>4, <3>1, <3>2
      <4>2. /\ count + Len(pending') = sig_nr[t] + 1
            /\ pending' # <<>> /\ pending'[Len(pending')] = 1
        BY <1>1, <1>2, <1>4, <3>1, <3>2
      <4> QED  BY <1>1, <2>1, <2>2, <2>4, <3>1, <3>2, <4>1, <4>2
            DEF Lone, LoneIdle, LoneSending, LoneSent, LonePrinted
    <3>3. CASE pending' = pending /\ lost' = lost \cup {t}
      BY <1>1, <2>1, <2>2, <2>4, <3>1, <3>3
        DEF Lone, LoneIdle, LoneSending, LoneSent, LonePrinted
    <3> QED  BY <1>3, <3>2, <3>3
  <2>6. CASE ~Receiving
    BY <1>1, <2>1, <2>2, <2>4, <2>6
      DEF Lone, LoneIdle, LoneSending, LoneSent, LonePrinted, Receiving
  <2> QED  BY <2>5, <2>6
<1> QED  BY <1>5, <1>6, <1>7 DEF SigIInv, LoneInv

\* The handler takes the first signal; the last one leaves the queue of a lone
\* sender empty.
LEMMA HandlerStep ==
  ASSUME SigIInv, sig_handler
  PROVE  SigIInv'
<1> USE DEF sig_handler, sendVars
<1>1. /\ rpc \in {"loop", "print"} /\ pending # <<>>
      /\ pending \in Seq({0, 1}) /\ count \in Nat /\ Len(pending) <= Limit
      /\ done \in BOOLEAN
  BY DEF SigIInv, SigTypeOK
<1>2. /\ Head(pending) = pending[1] /\ Head(pending) \in {0, 1}
      /\ Len(pending) \in Nat \ {0}
      /\ pending' \in Seq({0, 1}) /\ Len(pending') = Len(pending) - 1
      /\ \A k \in 1..Len(pending) - 1 : pending'[k] = pending[k + 1]
      /\ Len(pending) = 1 => pending' = <<>>
  BY <1>1, Dequeued
<1>3. \/ Head(pending) = 0 /\ count' = count + 1 /\ done' = done
      \/ Head(pending) = 1 /\ count' = count /\ done' = TRUE
  <2>1. done' = (done \/ Ends(Head(pending)))
    OBVIOUS
  <2>2. CASE Head(pending) = 0
    <3>1. count' = count + 1 /\ ~Ends(Head(pending))
      BY <2>2 DEF Counted, Ends
    <3>2. done' = done
      BY <1>1, <2>1, <3>1, Zenon
    <3> QED  BY <2>2, <3>1, <3>2
  <2>3. CASE Head(pending) = 1
    <3>1. count' = count /\ Ends(Head(pending))
      BY <2>3 DEF Counted, Ends
    <3>2. done' = TRUE
      BY <2>1, <3>1, Zenon
    <3> QED  BY <2>3, <3>1, <3>2
  <2> QED  BY <1>2, <2>2, <2>3
<1>4. UNCHANGED <<spc, sig_nr, sent, lost, rpc, printed>>
  OBVIOUS
<1>5. SigTypeOK'
  <2>1. count' \in Nat /\ done' \in BOOLEAN
    BY <1>1, <1>3
  <2>2. Len(pending') <= Limit
    BY <1>1, <1>2, SigAssumption
  <2> QED  BY <1>2, <1>4, <2>1, <2>2 DEF SigIInv, SigTypeOK
<1>6. IdleInv' /\ DoneInv'
  BY <1>1, <1>3, <1>4 DEF SigIInv, IdleInv, DoneInv
<1>7. ASSUME NEW s \in Senders, Alone(s)'
      PROVE  Lone(s)'
  <2>1. Lone(s)
    BY <1>4, <1>7 DEF SigIInv, LoneInv, Alone
  <2>2. Receiving /\ Receiving'
    BY <1>1, <1>4 DEF Receiving
  <2>3. spc[s] \in {"send", "sent"} /\ sig_nr[s] \in Nat /\ sent[s] \in Nat
    BY <1>1, <2>1 DEF SigIInv, SigTypeOK, Lone, LoneIdle
  <2>4. CASE spc[s] = "send"
    <3>1. /\ ~done /\ s \notin lost
          /\ count + Len(pending) = sent[s]
          /\ \A k \in 1..Len(pending) : pending[k] = 0
      BY <2>1, <2>2, <2>4 DEF Lone, LoneSending
    <3>2. Head(pending) = 0
      BY <1>2, <3>1
    <3>3. count' + Len(pending') = sent[s]
      BY <1>1, <1>2, <1>3, <3>1, <3>2
    <3>4. \A k \in 1..Len(pending') : pending'[k] = 0
      BY <1>2, <3>1
    <3> QED  BY <1>1, <1>3, <1>4, <2>1, <2>4, <3>1, <3>2, <3>3, <3>4
          DEF Lone, LoneIdle, LoneSending, LoneSent, LonePrinted
  <2>5. CASE spc[s] = "sent"
    <3>1. LoneSent(s) /\ sig_nr[s] <= Limit
      BY <2>1, <2>5 DEF Lone
    <3>2. /\ ~done /\ sent[s] = sig_nr[s]
          /\ \A k \in 1..Len(pending) : pending[k] = 0 \/ k = Len(pending)
      BY <1>1, <2>2, <2>5, <3>1 DEF LoneSent
    <3>3. \A k \in 1..Len(pending') : pending'[k] = 0 \/ k = Len(pending')
      <4> SUFFICES ASSUME NEW k \in 1..Len(pending'), k # Len(pending') PROVE pending'[k] = 0
        OBVIOUS
      <4>1. Len(pending) \in Nat /\ Len(pending') = Len(pending) - 1
        BY <1>2
      <4>2. k + 1 \in 1..Len(pending) /\ k + 1 # Len(pending) /\ k \in 1..Len(pending) - 1
        BY <4>1, NextPlace
      <4> QED
        BY <1>2, <3>2, <4>2
    <3>4. CASE s \in lost
      <4>1. count + Len(pending) = sig_nr[s] /\ \A k \in 1..Len(pending) : pending[k] = 0
        BY <2>2, <2>5, <3>1, <3>2, <3>4 DEF LoneSent
      <4>2. Head(pending) = 0
        BY <1>2, <4>1
      <4>3. count' + Len(pending') = sig_nr[s] /\ \A k \in 1..Len(pending') : pending'[k] = 0
        BY <1>1, <1>2, <1>3, <4>1, <4>2
      <4> QED  BY <1>1, <1>3, <1>4, <2>5, <3>1, <3>2, <3>3, <3>4, <4>2, <4>3
            DEF Lone, LoneIdle, LoneSending, LoneSent, LonePrinted
    <3>5. CASE s \notin lost
      <4>1. count + Len(pending) = sig_nr[s] + 1 /\ pending[Len(pending)] = 1
        BY <2>2, <2>5, <3>1, <3>2, <3>5 DEF LoneSent
      <4>2. CASE Head(pending) = 1
        <5>1. Len(pending) = 1
          <6>1. pending[1] # 0 /\ 1 \in 1..Len(pending)
            BY <1>2, <4>2
          <6> QED  BY <3>2, <6>1
        <5>2. pending' = <<>> /\ count' = sig_nr[s] /\ done'
          BY <1>1, <1>2, <1>3, <2>3, <4>1, <4>2, <5>1
        <5> QED  BY <1>1, <1>4, <2>5, <3>1, <3>2, <3>3, <5>2
              DEF Lone, LoneIdle, LoneSending, LoneSent, LonePrinted
      <4>3. CASE Head(pending) = 0
        <5>1. Len(pending) # 1
          BY <1>2, <4>1, <4>3
        <5>2. pending'[Len(pending')] = 1 /\ Len(pending') \in Nat \ {0}
          BY <1>2, <4>1, <5>1
        <5>3. pending' # <<>>
          BY <5>2, EmptySeq
        <5>4. count' + Len(pending') = sig_nr[s] + 1 /\ ~done'
          <6>1. count' = count + 1 /\ done' = done
            BY <1>3, <4>3
          <6>2. ~done'
            <7>1. done = FALSE
              BY <1>1, <3>2
            <7>2. done' = FALSE
              BY <6>1, <7>1
            <7> QED  BY <7>2
          <6> QED  BY <1>1, <1>2, <2>3, <4>1, <6>1, <6>2
        <5> QED  BY <1>1, <1>4, <2>5, <3>1, <3>2, <3>3, <3>5, <5>2, <5>3, <5>4
              DEF Lone, LoneIdle, LoneSending, LoneSent, LonePrinted
      <4> QED  BY <1>2, <4>2, <4>3
    <3> QED  BY <3>4, <3>5
  <2> QED  BY <2>3, <2>4, <2>5
<1> QED  BY <1>5, <1>6, <1>7 DEF SigIInv, LoneInv

\* The steps of the receiver's main.
LEMMA MainStep ==
  ASSUME SigIInv, sigaction \/ DefaultAction \/ LoopEnds \/ PrintCount
  PROVE  SigIInv'
<1> USE DEF sendVars
<1>1. CASE sigaction
  BY <1>1 DEF sigaction, SigIInv, SigTypeOK, IdleInv, DoneInv, LoneInv, Alone, Lone, LoneIdle,
    LoneSending, LoneSent, LonePrinted, Receiving
<1>2. CASE DefaultAction
  <2>1. pending' \in Seq({0, 1}) /\ Len(pending') <= Limit
    BY <1>2, EmptySeq, SigAssumption DEF DefaultAction
  <2>2. SigTypeOK' /\ IdleInv' /\ DoneInv'
    BY <1>2, <2>1 DEF DefaultAction, SigIInv, SigTypeOK, IdleInv, DoneInv
  <2>3. LoneInv'
    BY <1>2 DEF DefaultAction, SigIInv, LoneInv, Alone, Lone, LoneIdle,
      LoneSending, LoneSent, LonePrinted, Receiving
  <2> QED  BY <2>2, <2>3 DEF SigIInv
<1>3. CASE LoopEnds
  BY <1>3 DEF LoopEnds, Finished, SigIInv, SigTypeOK, IdleInv, DoneInv, LoneInv, Alone, Lone,
    LoneIdle, LoneSending, LoneSent, LonePrinted, Receiving
<1>4. CASE PrintCount
  <2>1. pending' \in Seq({0, 1}) /\ Len(pending') <= Limit
    BY <1>4, EmptySeq, SigAssumption DEF PrintCount
  <2>2. SigTypeOK' /\ IdleInv' /\ DoneInv'
    BY <1>4, <2>1 DEF PrintCount, SigIInv, SigTypeOK, IdleInv, DoneInv
  <2>3. ASSUME NEW s \in Senders, Alone(s)'
        PROVE  Lone(s)'
    <3>1. Lone(s) /\ done /\ Receiving
      BY <1>4, <2>3 DEF PrintCount, SigIInv, LoneInv, DoneInv, Alone, Receiving
    <3>2. spc[s] = "sent"
      BY <3>1 DEF SigIInv, SigTypeOK, Lone, LoneIdle, LoneSending
    <3>3. count = sig_nr[s] /\ sig_nr[s] <= Limit
      BY <3>1, <3>2 DEF Lone, LoneSent
    <3> QED  BY <1>4, <3>2, <3>3 DEF PrintCount, Lone, LoneIdle, LoneSending, LoneSent,
          LonePrinted, Receiving
  <2> QED  BY <2>2, <2>3 DEF SigIInv, LoneInv
<1> QED  BY <1>1, <1>2, <1>3, <1>4

\* Every step of the senders, the receiver and its handler keeps the invariant.
THEOREM SigInductive == SigSpec => []SigIInv
<1>1. SigIInv /\ [SigNext]_sigVars => SigIInv'
  <2> SUFFICES ASSUME SigIInv, [SigNext]_sigVars
               PROVE  SigIInv'
    OBVIOUS
  <2>1. ASSUME NEW s \in Senders, StartSender(s) \/ sender_main(s)
        PROVE  SigIInv'
    BY <2>1, StartStep, SendCountedStep, SendLastStep DEF sender_main
  <2>2. CASE receiver_main
    BY <2>2, HandlerStep, MainStep DEF receiver_main
  <2>3. CASE UNCHANGED sigVars
    BY <2>3 DEF sigVars, SigIInv, SigTypeOK, IdleInv, DoneInv, LoneInv, Alone, Lone, LoneIdle,
      LoneSending, LoneSent, LonePrinted, Receiving
  <2> QED  BY <2>1, <2>2, <2>3 DEF SigNext
<1> QED  BY <1>1, SigInitial, PTL DEF SigSpec

\* Every variable keeps its type: the queue stays inside its limit and no sender
\* sends more than it was asked for.
THEOREM SigTypeCorrect == SigSpec => []SigTypeOK
<1>1. SigIInv => SigTypeOK
  BY DEF SigIInv
<1> QED  BY <1>1, SigInductive, PTL

\* For any limit and any number of signals, the count that is printed is the number
\* a lone sender was asked for.
THEOREM CountIsExact == SigSpec => []PrintedExact
<1>1. SigIInv => PrintedExact
  BY DEF SigIInv, LoneInv, Lone, LonePrinted, PrintedExact
<1> QED  BY <1>1, SigInductive, PTL

\* A lone sender loses no signal but its last one while the receiver is there: the
\* check against the limit is enough.
THEOREM OnlyLastIsLost == SigSpec => []LostOnlyLast
<1>1. SigIInv => LostOnlyLast
  BY DEF SigIInv, SigTypeOK, LoneInv, Lone, LoneIdle, LoneSending, LostOnlyLast, Receiving
<1> QED  BY <1>1, SigInductive, PTL

-----------------------------------------------------------------------------
(* The sort *)

InPartition == qpc \in {"partition", "scan", "killed"}
Apart(c, d) == c[2] < d[1] \/ d[2] < c[1]

\* The ranges still to be sorted and the one in progress have no cell in common.
CallsApart ==
  \A j \in DOMAIN calls :
    /\ calls[j][1] <= calls[j][2]
    /\ \A k \in DOMAIN calls : j # k => Apart(calls[j], calls[k])
CurrentApart ==
  InPartition =>
    /\ start < end
    /\ \A k \in DOMAIN calls : Apart(calls[k], <<start, end>>)

\* The loop of partition: what lies before target is no larger than the pivot,
\* which is at the end, and what lies from there to index is no smaller.
LoopInv ==
  qpc = "scan" =>
    /\ start <= target /\ target <= index /\ index <= end
    /\ A[end] = pivot_val /\ pivot_val % 2 = 0
    /\ \A k \in start..target - 1 : A[k] <= pivot_val
    /\ \A k \in target..index - 1 : A[k] >= pivot_val

\* One number at most has a fraction, wherever it is by now.
OneFraction ==
  \A j, k \in Cells : A[j] % 2 = 1 /\ A[k] % 2 = 1 => j = k
NoneNegative == input[array_size] >= 0 => \A k \in Cells : A[k] >= 0

\* KeepsValues for every number, given or not.
KeepsAll == \A x \in Nat : Occurrences(A, x) = Occurrences(input, x)

SortIInv ==
  /\ SortTypeOK /\ CallsApart /\ CurrentApart /\ LoopInv /\ OneFraction /\ NoneNegative
  /\ RangesInOrder /\ KeepsAll

-----------------------------------------------------------------------------
\* A double as an unsigned number: no fraction, no larger, and never past a
\* whole number.
LEMMA WholePart ==
  ASSUME NEW x \in Int
  PROVE  /\ ToUnsigned(x) \in Nat /\ ToUnsigned(x) % 2 = 0
         /\ ToUnsigned(ToUnsigned(x)) = ToUnsigned(x)
         /\ x >= 0 => ToUnsigned(x) <= x
         /\ x >= 0 /\ x % 2 = 0 => ToUnsigned(x) = x
         /\ \A p \in Nat : x <= p => ToUnsigned(x) <= p
         /\ \A p \in Nat : p % 2 = 0 /\ x >= p => ToUnsigned(x) >= p
         /\ \A p \in Int : p <= x /\ 0 <= p /\ (p % 2 = 1 => x % 2 = 0) => p <= ToUnsigned(x)
<1>1. x % 2 \in {0, 1}
  OBVIOUS
<1> QED
  BY <1>1 DEF ToUnsigned

LEMMA WholePartAbove ==
  ASSUME NEW x \in Int, NEW p \in Nat, p % 2 = 0, x >= p
  PROVE  ToUnsigned(x) >= p
BY WholePart

LEMMA WholePartSame ==
  ASSUME NEW x \in Nat, x % 2 = 0
  PROVE  ToUnsigned(x) = x
BY DEF ToUnsigned

LEMMA UpTo ==
  ASSUME NEW n \in Nat
  PROVE  /\ \A k \in 1..n - 1 : k \in 1..n /\ k # n
         /\ \A k \in 1..n : k \in 1..n - 1 \/ k = n
  OBVIOUS

LEMMA NotBetween ==
  ASSUME NEW lo \in Int, NEW hi \in Int, ~(lo < hi), NEW a \in Int, NEW b \in Int, a < b
  PROVE  ~(lo <= a /\ b <= hi)
  OBVIOUS

LEMMA SwapCells ==
  ASSUME array_size \in Nat, A \in [Cells -> Int], NEW a \in Cells, NEW b \in Cells
  PROVE  /\ Swapped(a, b) \in [Cells -> Int]
         /\ Swapped(a, b)[b] = ToUnsigned(A[a])
         /\ a # b => Swapped(a, b)[a] = A[b]
         /\ \A k \in Cells \ {a, b} : Swapped(a, b)[k] = A[k]
         /\ ToUnsigned(Swapped(a, b)[b]) = ToUnsigned(A[a])
         /\ ToUnsigned(Swapped(a, b)[a]) = ToUnsigned(A[b])
<1>1. A[a] \in Int /\ A[b] \in Int
  OBVIOUS
<1>2. ToUnsigned(A[a]) \in Int /\ ToUnsigned(ToUnsigned(A[a])) = ToUnsigned(A[a])
  BY <1>1, WholePart
<1> QED
  BY <1>1, <1>2 DEF Swapped

\* A swap gives no second number a fraction and makes none negative.
LEMMA SwapKeepsFraction ==
  ASSUME array_size \in Nat, A \in [Cells -> Int], OneFraction,
         NEW a \in Cells, NEW b \in Cells, A' = Swapped(a, b), UNCHANGED array_size
  PROVE  OneFraction'
<1>1. Cells' = Cells
  BY DEF Cells
<1>2. ASSUME NEW k \in Cells, A'[k] % 2 = 1
      PROVE  k # b /\ IF k = a THEN A[b] % 2 = 1 ELSE A[k] % 2 = 1
  <2>1. k # b
    BY <1>2, SwapCells, WholePart
  <2> QED
    BY <1>2, <2>1, SwapCells
<1> SUFFICES ASSUME NEW j \in Cells, NEW k \in Cells, A'[j] % 2 = 1, A'[k] % 2 = 1
             PROVE  j = k
  BY <1>1 DEF OneFraction
<1> QED
  BY <1>2 DEF OneFraction

LEMMA SwapKeepsSign ==
  ASSUME array_size \in Nat, A \in [Cells -> Int], NoneNegative,
         NEW a \in Cells, NEW b \in Cells, A' = Swapped(a, b), UNCHANGED <<array_size, input>>
  PROVE  NoneNegative'
<1> SUFFICES ASSUME input[array_size] >= 0, NEW k \in Cells PROVE A'[k] >= 0
  BY DEF NoneNegative, Cells
<1>1. A[a] \in Int /\ A[b] \in Int /\ A[k] >= 0 /\ A[b] >= 0
  BY DEF NoneNegative
<1>2. ToUnsigned(A[a]) >= 0
  BY <1>1, WholePart
<1>3. A'[k] \in {A[k], A[b], ToUnsigned(A[a])}
  BY SwapCells
<1> QED
  BY <1>1, <1>2, <1>3

\* A swap within a range keeps its order with a cell outside.
LEMMA SwapKeepsOrder ==
  ASSUME array_size \in Nat, A \in [Cells -> Int], OneFraction,
         \A k \in Cells : A[k] >= 0,
         NEW lo \in Cells, NEW hi \in Cells, NEW a \in lo..hi, NEW b \in lo..hi,
         A' = Swapped(a, b), NEW c \in Cells, c \notin lo..hi
  PROVE  /\ (\A r \in lo..hi : A[r] <= A[c]) => \A r \in lo..hi : A'[r] <= A'[c]
         /\ (\A r \in lo..hi : A[c] <= A[r]) => \A r \in lo..hi : A'[c] <= A'[r]
<1>1. lo..hi \subseteq Cells /\ a \in Cells /\ b \in Cells
  BY DEF Cells
<1>2. A'[c] = A[c] /\ A[c] \in Int /\ A[c] >= 0
  BY <1>1, SwapCells
<1>3. ASSUME NEW r \in lo..hi
      PROVE  A'[r] = A[r] \/ (r = a /\ A'[r] = A[b]) \/ A'[r] = ToUnsigned(A[a])
  BY <1>1, <1>3, SwapCells
<1>4. A[a] \in Int /\ A[a] >= 0 /\ (A[c] % 2 = 1 => A[a] % 2 = 0)
  <2>1. A[a] \in Int /\ A[a] >= 0 /\ A[c] \in Int
    BY <1>1, <1>2
  <2>2. A[a] % 2 = 0 \/ A[a] % 2 = 1
    BY <2>1
  <2>3. ~(A[a] % 2 = 1 /\ A[c] % 2 = 1)
    BY <1>1 DEF OneFraction
  <2> QED
    BY <2>1, <2>2, <2>3
<1>5. A[c] <= A[a] => A[c] <= ToUnsigned(A[a])
  BY <1>2, <1>4, WholePart
<1>6. ToUnsigned(A[a]) <= A[a] /\ ToUnsigned(A[a]) \in Nat
  BY <1>4, WholePart
<1>7. ASSUME \A r \in lo..hi : A[r] <= A[c], NEW r \in lo..hi PROVE A'[r] <= A'[c]
  <2>1. A[a] <= A[c] /\ A[b] <= A[c] /\ A[r] <= A[c]
    BY <1>7
  <2>2. ToUnsigned(A[a]) <= A[c]
    BY <1>2, <1>4, <1>6, <2>1
  <2> QED
    BY <1>2, <1>3, <2>1, <2>2
<1>8. ASSUME \A r \in lo..hi : A[c] <= A[r], NEW r \in lo..hi PROVE A'[c] <= A'[r]
  <2>1. A[c] <= A[a] /\ A[c] <= A[b] /\ A[c] <= A[r]
    BY <1>8
  <2> QED
    BY <1>2, <1>3, <1>5, <2>1
<1> QED
  BY <1>7, <1>8

\* A swap neither loses nor invents a number: it renames the cells.
LEMMA SwapKeepsValues ==
  ASSUME array_size \in Nat, A \in [Cells -> Int], NEW a \in Cells, NEW b \in Cells,
         NEW x
  PROVE  Occurrences(Swapped(a, b), x) = Occurrences(A, x)
<1> DEFINE B == Swapped(a, b)
           S == {k \in Cells : ToUnsigned(A[k]) = x}
           T == {k \in Cells : ToUnsigned(B[k]) = x}
           m(k) == IF k = a THEN b ELSE IF k = b THEN a ELSE k
           f == [k \in S |-> m(k)]
<1>1. IsFiniteSet(S)
  <2>1. IsFiniteSet(Cells)
    BY FS_Interval DEF Cells
  <2> QED
    BY <2>1, FS_Subset
<1>2. \A k \in Cells : m(k) \in Cells /\ m(m(k)) = k /\ ToUnsigned(B[m(k)]) = ToUnsigned(A[k])
  BY SwapCells
<1>3. \A k \in Cells : k \in S <=> m(k) \in T
  BY <1>2
<1> HIDE DEF S, T, B
<1>4. f \in Bijection(S, T)
  <2>1. S \subseteq Cells /\ T \subseteq Cells
    BY DEF S, T
  <2>2. f \in [S -> T]
    BY <1>3, <2>1
  <2>3. \A j, k \in S : f[j] = f[k] => j = k
    BY <1>2, <2>1
  <2>4. ASSUME NEW t \in T PROVE \E k \in S : f[k] = t
    <3>1. m(t) \in S /\ m(m(t)) = t
      BY <1>2, <1>3, <2>1
    <3> QED
      BY <3>1
  <2> QED
    BY <2>2, <2>3, <2>4, Fun_IsBij
<1>5. Cardinality(T) = Cardinality(S)
  BY <1>1, <1>4, FS_Bijection DEF ExistsBijection
<1> QED
  BY <1>5 DEF Occurrences, S, T, B

-----------------------------------------------------------------------------
LEMMA SortInitial == SortInit => SortIInv
<1> SUFFICES ASSUME SortInit PROVE SortIInv
  OBVIOUS
<1>1. array_size \in 0..MaxSize /\ MaxSize \in Nat /\ array_size \in Cells /\ 0 \in Cells
  BY SortAssumption DEF SortInit, Cells
<1>2. PICK x \in Behind, f \in [0..array_size - 1 -> Values] :
        input = [k \in 0..array_size |-> IF k = array_size THEN x ELSE f[k]]
  BY DEF SortInit
<1>3. \A k \in Cells : k # array_size => input[k] \in Nat /\ input[k] % 2 = 0
  <2> SUFFICES ASSUME NEW k \in Cells, k # array_size
               PROVE  input[k] \in Nat /\ input[k] % 2 = 0
    OBVIOUS
  <2>1. k \in 0..array_size - 1 /\ k \in 0..array_size /\ k # array_size
    BY <1>1 DEF Cells
  <2>2. input[k] = f[k] /\ f[k] \in Values
    BY <1>2, <2>1
  <2> QED
    BY <2>2, SortAssumption
<1>4. input[array_size] \in Int
  BY <1>1, <1>2, SortAssumption
<1>5. A = input /\ input \in [Cells -> Int]
  BY <1>2, <1>3, <1>4 DEF SortInit, Cells
<1>6. OneFraction /\ NoneNegative
  BY <1>3, <1>5 DEF OneFraction, NoneNegative
<1>7. calls \in Seq(Cells \X Cells) /\ Len(calls) = 1 /\ DOMAIN calls = {1}
      /\ calls[1] = <<0, array_size>>
  BY <1>1 DEF SortInit
<1>8. CallsApart /\ CurrentApart /\ LoopInv
  BY <1>1, <1>7 DEF SortInit, CallsApart, CurrentApart, LoopInv, InPartition
<1>9. RangesInOrder
  <2>1. \A a, b \in Cells : Unsorted(a, b)
    <3> SUFFICES ASSUME NEW a \in Cells, NEW b \in Cells PROVE Unsorted(a, b)
      OBVIOUS
    <3>1. calls[1][1] <= a /\ b <= calls[1][2]
      BY <1>1, <1>7 DEF Cells
    <3> QED
      BY <1>7, <3>1 DEF Unsorted
  <2> QED
    BY <2>1 DEF RangesInOrder
<1>10. SortTypeOK
  BY <1>1, <1>5, <1>7 DEF SortInit, SortTypeOK
<1>11. KeepsAll
  BY <1>5 DEF KeepsAll
<1> QED
  BY <1>6, <1>8, <1>9, <1>10, <1>11 DEF SortIInv

\* A step that swaps two cells of the range in progress, or none: what it does to
\* the numbers, and to the order with the cells outside.
LEMMA SwapStep ==
  ASSUME SortIInv, InPartition, UNCHANGED argVars,
         NEW a \in start..end, NEW b \in start..end, A' = Swapped(a, b)
  PROVE  /\ A' \in [Cells -> Int] /\ OneFraction' /\ NoneNegative' /\ KeepsAll'
         /\ input[array_size] >= 0 =>
              \A c, d \in Cells :
                c < d /\ ~Unsorted(c, d) /\ (c \notin start..end \/ d \notin start..end) =>
                  A'[c] <= A'[d]
<1>1. /\ array_size \in Nat /\ A \in [Cells -> Int] /\ start \in Cells /\ end \in Cells
      /\ OneFraction /\ NoneNegative /\ calls \in Seq(Cells \X Cells)
      /\ UNCHANGED <<array_size, input>> /\ Cells' = Cells
  BY SortAssumption DEF SortIInv, SortTypeOK, argVars, Cells
<1>2. start..end \subseteq Cells /\ a \in Cells /\ b \in Cells
  BY <1>1 DEF Cells
<1>3. A' \in [Cells -> Int] /\ OneFraction' /\ NoneNegative'
  BY <1>1, <1>2, SwapCells, SwapKeepsFraction, SwapKeepsSign
<1>4. KeepsAll'
  <2>1. \A x : Occurrences(A', x) = Occurrences(A, x)
    BY <1>1, <1>2, SwapKeepsValues
  <2>2. \A x : Occurrences(A, x)' = Occurrences(A', x) /\ Occurrences(input, x)' = Occurrences(input, x)
    BY <1>1 DEF Occurrences
  <2> QED
    BY <2>1, <2>2 DEF SortIInv, KeepsAll
<1>5. ASSUME input[array_size] >= 0, NEW c \in Cells, NEW d \in Cells,
             c < d, ~Unsorted(c, d), c \notin start..end \/ d \notin start..end
      PROVE  A'[c] <= A'[d]
  <2>1. \A k \in Cells : A[k] >= 0
    BY <1>5 DEF SortIInv, NoneNegative
  <2>2. /\ start <= end
        /\ \A k \in DOMAIN calls : Apart(calls[k], <<start, end>>)
        /\ DOMAIN calls = 1..Len(calls)
        /\ \A k \in DOMAIN calls : calls[k][1] \in Int /\ calls[k][2] \in Int
        /\ start \in Int /\ end \in Int
    <3>1. DOMAIN calls = 1..Len(calls) /\ \A k \in DOMAIN calls : calls[k] \in Cells \X Cells
      BY <1>1, LenProperties
    <3>2. start < end /\ \A k \in DOMAIN calls : Apart(calls[k], <<start, end>>)
      BY DEF SortIInv, CurrentApart
    <3>3. Cells \subseteq Int
      BY <1>1 DEF Cells
    <3>4. \A k \in DOMAIN calls : calls[k][1] \in Int /\ calls[k][2] \in Int
      BY <3>1, <3>3
    <3>5. start \in Int /\ end \in Int
      BY <1>1, <3>3
    <3>6. start <= end
      BY <3>2, <3>5
    <3> QED
      BY <3>1, <3>2, <3>4, <3>5, <3>6
  <2>3. ASSUME NEW r \in start..end, NEW s \in Cells, s \notin start..end
        PROVE  (s < r => A[s] <= A[r]) /\ (r < s => A[r] <= A[s])
    <3>1. r \in Cells /\ r \in Int /\ s \in Int
      BY <1>2 DEF Cells
    <3>2. ~(start <= s /\ r <= end /\ s < r) /\ ~(start <= r /\ s <= end /\ r < s)
      BY <1>1, <2>3, <3>1 DEF Cells
    <3>3. ASSUME NEW k \in DOMAIN calls
          PROVE  /\ ~(calls[k][1] <= s /\ r <= calls[k][2] /\ s < r)
                 /\ ~(calls[k][1] <= r /\ s <= calls[k][2] /\ r < s)
      <4>1. calls[k][1] \in Int /\ calls[k][2] \in Int /\ start \in Int /\ end \in Int
        BY <2>2
      <4>2. calls[k][2] < start \/ end < calls[k][1]
        BY <2>2 DEF Apart
      <4> QED
        BY <3>1, <4>1, <4>2
    <3>4. s < r => ~Unsorted(s, r)
      BY <2>2, <3>2, <3>3 DEF Unsorted
    <3>5. r < s => ~Unsorted(r, s)
      BY <2>2, <3>2, <3>3 DEF Unsorted
    <3> QED
      BY <1>5, <3>1, <3>4, <3>5 DEF SortIInv, RangesInOrder
  <2>4. CASE c \notin start..end /\ d \notin start..end
    <3>1. c \in Cells \ {a, b} /\ d \in Cells \ {a, b}
      BY <2>4
    <3>2. A'[c] = A[c] /\ A'[d] = A[d]
      BY <1>1, <1>2, <3>1, SwapCells
    <3> QED
      BY <1>5, <3>2 DEF SortIInv, RangesInOrder
  <2>5. CASE c \notin start..end /\ d \in start..end
    <3>1. \A r \in start..end : A[c] <= A[r]
      <4> SUFFICES ASSUME NEW r \in start..end PROVE c < r
        BY <2>3, <2>5
      <4> QED
        BY <1>1, <1>5, <2>5 DEF Cells
    <3>2. \A r \in start..end : A'[c] <= A'[r]
      BY <1>1, <2>1, <2>5, <3>1, SwapKeepsOrder
    <3> QED
      BY <2>5, <3>2
  <2>6. CASE c \in start..end /\ d \notin start..end
    <3>1. \A r \in start..end : A[r] <= A[d]
      <4> SUFFICES ASSUME NEW r \in start..end PROVE r < d
        BY <2>3, <2>6
      <4> QED
        BY <1>1, <1>5, <2>6 DEF Cells
    <3>2. \A r \in start..end : A'[r] <= A'[d]
      BY <1>1, <2>1, <2>6, <3>1, SwapKeepsOrder
    <3> QED
      BY <2>6, <3>2
  <2> QED
    BY <1>5, <2>4, <2>5, <2>6
<1> QED
  BY <1>3, <1>4, <1>5

\* As long as the range in progress stays, two cells of it may be in any order.
LEMMA OrderStep ==
  ASSUME SortIInv, InPartition, InPartition', UNCHANGED <<argVars, start, end, calls>>,
         NEW a \in start..end, NEW b \in start..end, A' = Swapped(a, b)
  PROVE  RangesInOrder'
<1>1. UNCHANGED <<array_size, input, start, end, calls>> /\ Cells' = Cells
  BY DEF argVars, Cells
<1>2. \A c, d \in Cells : Unsorted(c, d)' <=> Unsorted(c, d)
  BY <1>1 DEF Unsorted, InPartition
<1>3. \A c, d \in start..end : Unsorted(c, d)
  BY DEF Unsorted, InPartition, SortIInv, SortTypeOK, Cells
<1> QED
  BY <1>1, <1>2, <1>3, SwapStep DEF RangesInOrder
\* CallsApart of any sequence of ranges, and one more range that is apart of all.
CallsApartIn(s) ==
  \A j \in DOMAIN s :
    /\ s[j][1] <= s[j][2]
    /\ \A k \in DOMAIN s : j # k => Apart(s[j], s[k])

OneMore(u, s, r) ==
  /\ \A k \in DOMAIN u : (\E j \in DOMAIN s : u[k] = s[j]) \/ u[k] = r
  /\ \A j \in DOMAIN s : \E k \in DOMAIN u : u[k] = s[j]
  /\ \E k \in DOMAIN u : u[k] = r

LEMMA OneMoreCall ==
  ASSUME NEW R, NEW s \in Seq(R), CallsApartIn(s), NEW r \in R, r[1] <= r[2],
         \A k \in DOMAIN s : Apart(s[k], r)
  PROVE  /\ s \o <<r>> \in Seq(R)
         /\ CallsApartIn(s \o <<r>>)
         /\ OneMore(s \o <<r>>, s, r)
<1> DEFINE n == Len(s)
           u == s \o <<r>>
<1>1. n \in Nat /\ DOMAIN s = 1..n
  BY LenProperties
<1>2. /\ u \in Seq(R) /\ Len(u) = n + 1
      /\ \A i \in 1..n : u[i] = s[i]
      /\ u[n + 1] = r
  BY <1>1, ConcatProperties
<1>3. DOMAIN u = 1..n + 1
  BY <1>2, LenProperties
<1> HIDE DEF u, n
<1>4. \A k \in DOMAIN u : (k \in DOMAIN s /\ u[k] = s[k]) \/ (k = n + 1 /\ u[k] = r)
  BY <1>1, <1>2, <1>3
<1>5. \A c, d : Apart(c, d) => Apart(d, c)
  BY DEF Apart
<1>6. CallsApartIn(u)
  <2> SUFFICES ASSUME NEW j \in DOMAIN u
               PROVE  u[j][1] <= u[j][2] /\ \A k \in DOMAIN u : j # k => Apart(u[j], u[k])
    BY DEF CallsApartIn
  <2>1. u[j][1] <= u[j][2]
    BY <1>4 DEF CallsApartIn
  <2>2. ASSUME NEW k \in DOMAIN u, j # k PROVE Apart(u[j], u[k])
    BY <1>4, <1>5, <2>2 DEF CallsApartIn
  <2> QED
    BY <2>1, <2>2
<1>7. \A j \in DOMAIN s : j \in DOMAIN u /\ u[j] = s[j]
  BY <1>1, <1>2, <1>3
<1>8. n + 1 \in DOMAIN u
  BY <1>1, <1>3
<1> QED
  BY <1>2, <1>4, <1>6, <1>7, <1>8 DEF u, OneMore

LEMMA SortStep ==
  ASSUME SortIInv, [SortNext]_sortVars PROVE SortIInv'
<1>0. /\ array_size \in Nat /\ A \in [Cells -> Int] /\ start \in Cells /\ end \in Cells
      /\ target \in Cells /\ index \in Cells /\ pivot_val \in Nat
      /\ calls \in Seq(Cells \X Cells) /\ Cells \subseteq Int
      /\ DOMAIN calls = 1..Len(calls) /\ Len(calls) \in Nat
      /\ \A k \in DOMAIN calls : calls[k][1] \in Cells /\ calls[k][2] \in Cells
  <2>1. /\ array_size \in Nat /\ A \in [Cells -> Int] /\ start \in Cells /\ end \in Cells
        /\ target \in Cells /\ index \in Cells /\ pivot_val \in Nat
        /\ calls \in Seq(Cells \X Cells)
    BY SortAssumption DEF SortIInv, SortTypeOK
  <2>2. Cells \subseteq Int
    BY <2>1 DEF Cells
  <2>3. DOMAIN calls = 1..Len(calls) /\ Len(calls) \in Nat
        /\ \A k \in DOMAIN calls : calls[k] \in Cells \X Cells
    BY <2>1, LenProperties
  <2> QED
    BY <2>1, <2>2, <2>3
<1>a. /\ start \in Int /\ end \in Int /\ target \in Int /\ index \in Int
      /\ pivot_val \in Nat /\ Len(calls) \in Nat /\ DOMAIN calls = 1..Len(calls)
  BY <1>0
<1>1. CASE EnterCall
  <2> DEFINE n == Len(calls)
             c == calls[n]
  <2>1. /\ n \in 1..n /\ start' = c[1] /\ end' = c[2]
        /\ qpc = "call" /\ qpc' = IF c[1] < c[2] THEN "partition" ELSE "call"
        /\ calls' = SubSeq(calls, 1, n - 1)
        /\ UNCHANGED <<array_size, input, mapped, A, target, index, pivot_val>>
    BY <1>0, <1>1, EmptySeq DEF EnterCall, argVars
  <2>2. /\ calls' \in Seq(Cells \X Cells) /\ Len(calls') = n - 1
        /\ \A i \in 1..n - 1 : calls'[i] = calls[i]
        /\ DOMAIN calls' = 1..n - 1
    BY <1>0, <2>1, SubSeqProperties, LenProperties
  <2>3. Cells' = Cells /\ c[1] \in Cells /\ c[2] \in Cells /\ c[1] <= c[2]
    BY <1>0, <2>1 DEF Cells, SortIInv, CallsApart
  <2>b. c[1] \in Int /\ c[2] \in Int
    BY <1>0, <2>3
  <2>4. SortTypeOK'
    BY <2>1, <2>2, <2>3 DEF SortIInv, SortTypeOK
  <2>5. CallsApart'
    <3>1. \A i \in DOMAIN calls' : i \in DOMAIN calls /\ calls'[i] = calls[i]
      BY <1>a, <2>2
    <3>2. CallsApart
      BY DEF SortIInv
    <3> QED
      BY <3>1, <3>2 DEF CallsApart, Apart
  <2>6. CurrentApart'
    <3> SUFFICES ASSUME InPartition'
                 PROVE  /\ start' < end'
                        /\ \A k \in DOMAIN calls' : Apart(calls[k], <<c[1], c[2]>>)
      BY <2>1, <2>2 DEF CurrentApart, Apart
    <3>1. \A k \in 1..n - 1 : k \in DOMAIN calls /\ k # n
      BY <1>a, UpTo
    <3>2. \A k \in 1..n - 1 : Apart(calls[k], c)
      BY <1>0, <2>1, <3>1 DEF SortIInv, CallsApart
    <3> QED
      BY <2>1, <2>2, <3>2 DEF InPartition, Apart
  <2>7. LoopInv' /\ OneFraction' /\ NoneNegative' /\ KeepsAll'
    BY <2>1, <2>3 DEF SortIInv, LoopInv, OneFraction, NoneNegative, KeepsAll, Occurrences
  <2>8. RangesInOrder'
    <3> SUFFICES ASSUME input[array_size] >= 0, NEW a \in Cells, NEW b \in Cells,
                        a < b, ~Unsorted(a, b)'
                 PROVE  ~Unsorted(a, b)
      BY <2>1, <2>3 DEF SortIInv, RangesInOrder
    <3>1. ~(c[1] <= a /\ b <= c[2])
      <4>1. CASE c[1] < c[2]
        BY <2>1, <4>1 DEF Unsorted
      <4>2. CASE ~(c[1] < c[2])
        BY <1>0, <2>b, <2>3, <4>2, NotBetween
      <4> QED
        BY <4>1, <4>2
    <3>2. \A k \in 1..n - 1 : ~(calls[k][1] <= a /\ b <= calls[k][2])
      BY <2>2 DEF Unsorted
    <3>3. \A k \in 1..n : k \in 1..n - 1 \/ k = n
      BY <1>a, UpTo
    <3> QED
      BY <2>1, <3>1, <3>2, <3>3 DEF Unsorted
  <2> QED
    BY <2>4, <2>5, <2>6, <2>7, <2>8 DEF SortIInv
<1>2. CASE ChoosePivot
  <2>1. PICK pivot \in start..end - 1 : A' = Swapped(pivot, end)
    BY <1>2 DEF ChoosePivot
  <2>2. /\ qpc = "partition" /\ qpc' = "scan" /\ pivot_val' = ToUnsigned(A'[end])
        /\ target' = start /\ index' = start
        /\ UNCHANGED <<argVars, start, end, calls>> /\ Cells' = Cells
    BY <1>2 DEF ChoosePivot, argVars, Cells
  <2>3. start < end /\ pivot \in start..end /\ end \in start..end /\ pivot \in Cells
    BY <1>0, <2>1, <2>2 DEF SortIInv, CurrentApart, InPartition, Cells
  <2>4. A' \in [Cells -> Int] /\ OneFraction' /\ NoneNegative' /\ KeepsAll'
    BY <2>1, <2>2, <2>3, SwapStep DEF InPartition
  <2>5. RangesInOrder'
    BY <2>1, <2>2, <2>3, OrderStep DEF InPartition
  <2>6. A'[end] = ToUnsigned(A[pivot]) /\ A[pivot] \in Int
    BY <1>0, <2>1, <2>3, SwapCells
  <2>7. A'[end] = pivot_val' /\ pivot_val' \in Nat /\ pivot_val' % 2 = 0
    BY <2>2, <2>6, WholePart
  <2>8. SortTypeOK'
    BY <2>2, <2>4, <2>7 DEF SortIInv, SortTypeOK, argVars
  <2>9. CallsApart' /\ CurrentApart'
    BY <2>2 DEF SortIInv, CallsApart, CurrentApart, InPartition
  <2>10. LoopInv'
    BY <1>0, <2>2, <2>3, <2>7 DEF LoopInv
  <2> QED
    BY <2>4, <2>5, <2>8, <2>9, <2>10 DEF SortIInv
<1>3. CASE PartitionFaults
  <2>1. /\ qpc = "partition" /\ qpc' = "killed" /\ Cells' = Cells
        /\ UNCHANGED <<array_size, input, mapped, A, calls, partVars>>
    BY <1>3 DEF PartitionFaults, argVars, Cells
  <2>2. \A a, b : Unsorted(a, b)' <=> Unsorted(a, b)
    BY <2>1 DEF Unsorted, partVars
  <2> QED
    BY <2>1, <2>2
    DEF partVars, SortIInv, SortTypeOK, CallsApart, CurrentApart, LoopInv, OneFraction,
        NoneNegative, KeepsAll, Occurrences, RangesInOrder, InPartition
<1>4. CASE Scan
  <2>1. /\ qpc = "scan" /\ index < end /\ index' = index + 1
        /\ UNCHANGED <<argVars, calls, qpc, start, end, pivot_val>> /\ Cells' = Cells
    BY <1>4 DEF Scan, argVars, Cells
  <2>2. /\ start <= target /\ target <= index /\ A[end] = pivot_val /\ pivot_val % 2 = 0
        /\ \A k \in start..target - 1 : A[k] <= pivot_val
        /\ \A k \in target..index - 1 : A[k] >= pivot_val
    BY <2>1 DEF SortIInv, LoopInv
  <2>3. /\ target \in start..end /\ index \in start..end /\ start..end \subseteq Cells
        /\ index + 1 \in Cells /\ target + 1 \in Cells
    BY <1>0, <2>1, <2>2 DEF Cells
  <2>4. CallsApart' /\ CurrentApart'
    BY <2>1 DEF SortIInv, CallsApart, CurrentApart, InPartition
  <2>5. CASE A[index] <= pivot_val /\ A' = Swapped(target, index) /\ target' = target + 1
    <3>1. A' \in [Cells -> Int] /\ OneFraction' /\ NoneNegative' /\ KeepsAll'
      BY <2>1, <2>3, <2>5, SwapStep DEF InPartition
    <3>2. RangesInOrder'
      BY <2>1, <2>3, <2>5, OrderStep DEF InPartition
    <3>3. SortTypeOK'
      BY <2>1, <2>3, <2>5, <3>1 DEF SortIInv, SortTypeOK, argVars
    <3>4. A'[end] = pivot_val
      BY <1>0, <2>1, <2>2, <2>3, <2>5, SwapCells
    <3>5. A[index] \in Int /\ A[target] \in Int
      BY <1>0
    <3>6. A'[target] <= pivot_val
      <4>1. CASE target = index
        <5>1. A'[target] = ToUnsigned(A[index])
          BY <1>0, <2>5, <4>1, SwapCells
        <5> QED
          BY <1>0, <2>5, <3>5, <5>1, WholePart
      <4>2. CASE target # index
        BY <1>0, <2>5, <4>2, SwapCells
      <4> QED
        BY <4>1, <4>2
    <3>7. target < index => A'[index] >= pivot_val
      <4>1. target < index => A[target] >= pivot_val
        BY <1>0, <2>2
      <4>2. A'[index] = ToUnsigned(A[target])
        BY <1>0, <2>5, SwapCells
      <4> QED
        BY <1>a, <2>2, <3>5, <4>1, <4>2, WholePartAbove
    <3>8. \A k \in Cells \ {target, index} : A'[k] = A[k]
      BY <1>0, <2>5, SwapCells
    <3>9. \A k \in start..target : A'[k] <= pivot_val
      <4> SUFFICES ASSUME NEW k \in start..target, k # target PROVE A'[k] <= pivot_val
        BY <3>6
      <4>1. k \in start..target - 1 /\ k \in Cells \ {target, index}
        BY <1>0, <2>2, <2>3
      <4> QED
        BY <2>2, <3>8, <4>1
    <3>10. \A k \in target + 1..index : A'[k] >= pivot_val
      <4> SUFFICES ASSUME NEW k \in target + 1..index, k # index PROVE A'[k] >= pivot_val
        BY <1>0, <3>7
      <4>1. k \in target..index - 1 /\ k \in Cells \ {target, index}
        BY <1>0, <2>2, <2>3
      <4> QED
        BY <2>2, <3>8, <4>1
    <3>11. LoopInv'
      <4>1. target' - 1 = target /\ index' - 1 = index
        BY <1>a, <2>1, <2>5
      <4>3. SUFFICES ASSUME qpc' = "scan"
                     PROVE  /\ start' <= target' /\ target' <= index' /\ index' <= end'
                            /\ A'[end'] = pivot_val' /\ pivot_val' % 2 = 0
                            /\ \A k \in start'..target' - 1 : A'[k] <= pivot_val'
                            /\ \A k \in target'..index' - 1 : A'[k] >= pivot_val'
        BY DEF LoopInv
      <4>2. start <= target + 1 /\ target + 1 <= index + 1 /\ index + 1 <= end
        BY <1>a, <2>1, <2>2, <2>5
      <4> QED
        BY <2>1, <2>2, <2>5, <3>4, <3>9, <3>10, <4>1, <4>2, <4>3
    <3> QED
      BY <2>4, <3>1, <3>2, <3>3, <3>11 DEF SortIInv
  <2>6. CASE A[index] > pivot_val /\ UNCHANGED <<A, target>>
    <3>1. UNCHANGED <<array_size, input, mapped>>
      BY <2>1 DEF argVars
    <3>2. \A a, b : Unsorted(a, b)' <=> Unsorted(a, b)
      BY <2>1 DEF Unsorted
    <3>3. RangesInOrder' /\ OneFraction' /\ NoneNegative' /\ KeepsAll'
      BY <2>1, <2>6, <3>1, <3>2
      DEF SortIInv, RangesInOrder, OneFraction, NoneNegative, KeepsAll, Occurrences
    <3>4. SortTypeOK'
      BY <2>1, <2>3, <2>6, <3>1 DEF SortIInv, SortTypeOK
    <3>5. \A k \in target..index : A[k] >= pivot_val
      <4> SUFFICES ASSUME NEW k \in target..index, k # index PROVE A[k] >= pivot_val
        BY <1>0, <2>6
      <4> QED
        BY <1>0, <2>2
    <3>6. LoopInv'
      <4>1. index' - 1 = index /\ target <= index + 1 /\ index + 1 <= end
        BY <1>a, <2>1, <2>2
      <4>3. SUFFICES ASSUME qpc' = "scan"
                     PROVE  /\ start' <= target' /\ target' <= index' /\ index' <= end'
                            /\ A'[end'] = pivot_val' /\ pivot_val' % 2 = 0
                            /\ \A k \in start'..target' - 1 : A'[k] <= pivot_val'
                            /\ \A k \in target'..index' - 1 : A'[k] >= pivot_val'
        BY DEF LoopInv
      <4> QED
        BY <2>1, <2>2, <2>6, <3>5, <4>1, <4>3
    <3> QED
      BY <2>4, <3>3, <3>4, <3>6 DEF SortIInv
  <2> QED
    BY <1>4, <2>5, <2>6 DEF Scan
<1>5. CASE PlacePivot
  <2> DEFINE t == target
             more == calls \o RightCall(t)
  <2>1. /\ qpc = "scan" /\ index = end /\ A' = Swapped(t, end) /\ qpc' = "call"
        /\ calls' = more \o LeftCall(t)
        /\ UNCHANGED <<argVars, partVars>> /\ Cells' = Cells
    BY <1>0, <1>a, <1>5 DEF PlacePivot, PivotPlaced, argVars, Cells
  <2>2. /\ start <= t /\ t <= end /\ A[end] = pivot_val /\ pivot_val % 2 = 0 /\ start < end
        /\ \A k \in start..t - 1 : A[k] <= pivot_val
        /\ \A k \in t..end - 1 : A[k] >= pivot_val
        /\ \A k \in DOMAIN calls : Apart(calls[k], <<start, end>>)
    BY <2>1 DEF SortIInv, LoopInv, CurrentApart, InPartition
  <2>3. t \in start..end /\ end \in start..end /\ start..end \subseteq Cells
    BY <1>0, <1>a, <2>2 DEF Cells
  <2>4. A' \in [Cells -> Int] /\ OneFraction' /\ NoneNegative' /\ KeepsAll'
    BY <2>1, <2>3, SwapStep DEF InPartition
  <2>5. \A k \in start..t - 1 : A'[k] <= pivot_val
    <3> SUFFICES ASSUME NEW k \in start..t - 1 PROVE A'[k] <= pivot_val
      OBVIOUS
    <3>1. k \in Cells \ {t, end}
      BY <1>a, <2>2, <2>3
    <3> QED
      BY <1>0, <2>1, <2>2, <3>1, SwapCells
  <2>6. A'[t] = pivot_val
    <3>1. CASE t = end
      <4>1. A'[t] = ToUnsigned(pivot_val)
        BY <1>0, <2>1, <2>2, <3>1, SwapCells
      <4>2. pivot_val \in Nat /\ pivot_val % 2 = 0
        BY <1>a, <2>2
      <4>3. ToUnsigned(pivot_val) = pivot_val
        BY <4>2, WholePartSame
      <4> QED
        BY <4>1, <4>3, Zenon
    <3>2. CASE t # end
      BY <1>0, <2>1, <2>2, <3>2, SwapCells
    <3> QED
      BY <3>1, <3>2
  <2>7. \A k \in t + 1..end : A'[k] >= pivot_val
    <3> SUFFICES ASSUME NEW k \in t + 1..end PROVE A'[k] >= pivot_val
      OBVIOUS
    <3>1. t \in t..end - 1 /\ A[t] >= pivot_val /\ A[t] \in Int
      BY <1>0, <1>a, <2>2
    <3>2. CASE k = end
      <4>1. A'[k] = ToUnsigned(A[t])
        BY <1>0, <2>1, <3>2, SwapCells
      <4> QED
        BY <1>a, <2>2, <3>1, <4>1, WholePartAbove
    <3>3. CASE k # end
      <4>1. k \in t..end - 1 /\ k \in Cells \ {t, end}
        BY <1>a, <2>2, <2>3, <3>3
      <4> QED
        BY <1>0, <2>1, <2>2, <4>1, SwapCells
    <3> QED
      BY <3>2, <3>3
  <2>8. /\ IF t < end THEN more = calls \o <<<<t + 1, end>>>> ELSE more = calls
        /\ IF t > start THEN calls' = more \o <<<<start, t - 1>>>> ELSE calls' = more
    BY <1>0, <2>1, ConcatEmptySeq DEF LeftCall, RightCall
  <2> HIDE DEF more
  <2>9. /\ t + 1 \in Int /\ t - 1 \in Int
        /\ t < end => t + 1 \in Cells
        /\ t > start => t - 1 \in Cells
    BY <1>0, <1>a, <2>2 DEF Cells
  <2>10. CallsApartIn(calls) /\ \A k \in DOMAIN calls : calls[k][2] < start \/ end < calls[k][1]
    BY <2>2 DEF SortIInv, CallsApart, CallsApartIn, Apart
  <2>11. /\ more \in Seq(Cells \X Cells) /\ CallsApartIn(more)
         /\ \A k \in DOMAIN more : \/ \E j \in DOMAIN calls : more[k] = calls[j]
                                   \/ t < end /\ more[k] = <<t + 1, end>>
         /\ \A j \in DOMAIN calls : \E k \in DOMAIN more : more[k] = calls[j]
         /\ t < end => \E k \in DOMAIN more : more[k] = <<t + 1, end>>
    <3>1. CASE t < end
      <4>1. <<t + 1, end>> \in Cells \X Cells /\ t + 1 <= end
        BY <1>0, <1>a, <2>9, <3>1
      <4>2. \A k \in DOMAIN calls : Apart(calls[k], <<t + 1, end>>)
        <5> SUFFICES ASSUME NEW k \in DOMAIN calls PROVE Apart(calls[k], <<t + 1, end>>)
          OBVIOUS
        <5>1. calls[k][1] \in Int /\ calls[k][2] \in Int
          BY <1>0
        <5> QED
          BY <1>a, <2>2, <2>10, <5>1 DEF Apart
      <4> DEFINE r == <<t + 1, end>>
      <4>3. /\ calls \o <<r>> \in Seq(Cells \X Cells) /\ CallsApartIn(calls \o <<r>>)
            /\ OneMore(calls \o <<r>>, calls, r)
        <5>1. r \in Cells \X Cells /\ r[1] <= r[2] /\ \A k \in DOMAIN calls : Apart(calls[k], r)
          BY <4>1, <4>2
        <5>2. calls \in Seq(Cells \X Cells) /\ CallsApartIn(calls)
          BY <1>0, <2>10
        <5> HIDE DEF r
        <5> QED
          BY ONLY <5>1, <5>2, OneMoreCall, Zenon
      <4> QED
        BY <2>8, <3>1, <4>3 DEF OneMore
    <3>2. CASE ~(t < end)
      BY <1>0, <2>8, <2>10, <3>2
    <3> QED
      BY <3>1, <3>2
  <2>12. /\ calls' \in Seq(Cells \X Cells) /\ CallsApartIn(calls')
         /\ \A j \in DOMAIN more : \E k \in DOMAIN calls' : calls'[k] = more[j]
         /\ t > start => \E k \in DOMAIN calls' : calls'[k] = <<start, t - 1>>
    <3>1. CASE t > start
      <4>1. <<start, t - 1>> \in Cells \X Cells /\ start <= t - 1
        BY <1>0, <1>a, <2>9, <3>1
      <4>2. \A k \in DOMAIN more : Apart(more[k], <<start, t - 1>>)
        <5> SUFFICES ASSUME NEW k \in DOMAIN more PROVE Apart(more[k], <<start, t - 1>>)
          OBVIOUS
        <5>1. CASE more[k] = <<t + 1, end>>
          BY <1>a, <5>1 DEF Apart
        <5>2. CASE \E j \in DOMAIN calls : more[k] = calls[j]
          <6>1. PICK j \in DOMAIN calls : more[k] = calls[j]
            BY <5>2
          <6>2. calls[j][1] \in Int /\ calls[j][2] \in Int
            BY <1>0
          <6> QED
            BY <1>a, <2>2, <2>10, <6>1, <6>2 DEF Apart
        <5> QED
          BY <2>11, <5>1, <5>2
      <4> DEFINE r == <<start, t - 1>>
      <4>3. /\ more \o <<r>> \in Seq(Cells \X Cells) /\ CallsApartIn(more \o <<r>>)
            /\ OneMore(more \o <<r>>, more, r)
        <5>1. r \in Cells \X Cells /\ r[1] <= r[2] /\ \A k \in DOMAIN more : Apart(more[k], r)
          BY <4>1, <4>2
        <5>2. more \in Seq(Cells \X Cells) /\ CallsApartIn(more)
          BY <2>11
        <5> HIDE DEF r
        <5> QED
          BY ONLY <5>1, <5>2, OneMoreCall, Zenon
      <4> QED
        BY <2>8, <2>11, <3>1, <4>3 DEF OneMore
    <3>2. CASE ~(t > start)
      BY <2>8, <2>11, <3>2
    <3> QED
      BY <3>1, <3>2
  <2>13. CallsApart' /\ CurrentApart' /\ LoopInv'
    BY <2>1, <2>12 DEF CallsApart, CallsApartIn, CurrentApart, LoopInv, InPartition
  <2>14. SortTypeOK'
    BY <2>1, <2>4, <2>12 DEF SortIInv, SortTypeOK, argVars, partVars
  <2>15. RangesInOrder'
    <3> SUFFICES ASSUME input[array_size] >= 0, NEW a \in Cells, NEW b \in Cells,
                        a < b, ~Unsorted(a, b)'
                 PROVE  A'[a] <= A'[b]
      BY <2>1 DEF RangesInOrder, argVars
    <3>1. \A k \in DOMAIN calls' : ~(calls'[k][1] <= a /\ b <= calls'[k][2])
      BY <2>12, LenProperties DEF Unsorted
    <3>2. ~(start <= a /\ b <= t - 1)
      <4>1. CASE t > start
        BY <2>12, <3>1, <4>1
      <4>2. CASE ~(t > start)
        BY <1>0, <1>a, <4>2
      <4> QED
        BY <4>1, <4>2
    <3>3. ~(t + 1 <= a /\ b <= end)
      <4>1. CASE t < end
        <5>1. \E k \in DOMAIN calls' : calls'[k] = <<t + 1, end>>
          BY <2>11, <2>12, <4>1
        <5> QED
          BY <3>1, <5>1
      <4>2. CASE ~(t < end)
        BY <1>0, <1>a, <4>2
      <4> QED
        BY <4>1, <4>2
    <3>4. \A j \in DOMAIN calls : ~(calls[j][1] <= a /\ b <= calls[j][2])
      <4> SUFFICES ASSUME NEW j \in DOMAIN calls
                   PROVE  ~(calls[j][1] <= a /\ b <= calls[j][2])
        OBVIOUS
      <4>1. PICK k \in DOMAIN calls' : calls'[k] = calls[j]
        BY <2>11, <2>12
      <4> QED
        BY <3>1, <4>1
    <3>5. CASE a \in start..end /\ b \in start..end
      <4>1. a <= t /\ t <= b /\ a \in Int /\ b \in Int
        BY <1>a, <3>2, <3>3, <3>5
      <4>2. A'[a] <= pivot_val
        <5>1. a \in start..t - 1 \/ a = t
          BY <1>a, <3>5, <4>1
        <5> QED
          BY <1>a, <2>5, <2>6, <5>1
      <4>3. pivot_val <= A'[b]
        <5>1. b \in t + 1..end \/ b = t
          BY <1>a, <3>5, <4>1
        <5> QED
          BY <1>a, <2>6, <2>7, <5>1
      <4>4. A'[a] \in Int /\ A'[b] \in Int
        BY <2>4
      <4> QED
        BY <1>a, <4>2, <4>3, <4>4
    <3>6. CASE a \notin start..end \/ b \notin start..end
      <4>1. ~Unsorted(a, b)
        <5>1. ~(start <= a /\ b <= end)
          <6>1. a \in Int /\ b \in Int
            BY <1>0
          <6> QED
            BY <1>a, <3>6, <6>1
        <5> QED
          BY <1>a, <3>4, <5>1 DEF Unsorted
      <4> QED
        BY <2>1, <2>3, <3>6, <4>1, SwapStep DEF InPartition
    <3> QED
      BY <3>5, <3>6
  <2> QED
    BY <2>4, <2>13, <2>14, <2>15 DEF SortIInv
<1>6. CASE Return \/ UNCHANGED sortVars
  <2>1. /\ UNCHANGED <<array_size, input, mapped, A, calls, partVars>> /\ Cells' = Cells
        /\ (qpc = "call" /\ qpc' = "done") \/ qpc' = qpc
    BY <1>6 DEF Return, argVars, sortVars, partVars, Cells
  <2>2. \A a, b : Unsorted(a, b)' <=> Unsorted(a, b)
    BY <2>1 DEF Unsorted, partVars
  <2> QED
    BY <2>1, <2>2
    DEF partVars, SortIInv, SortTypeOK, CallsApart, CurrentApart, LoopInv, OneFraction,
        NoneNegative, KeepsAll, Occurrences, RangesInOrder, InPartition
<1> QED
  BY <1>1, <1>2, <1>3, <1>4, <1>5, <1>6 DEF SortNext

\* The ranges that quicksort has still to sort share no cell, and the loop of
\* partition keeps the small numbers before target and the large ones behind it.
THEOREM SortInductive == SortSpec => []SortIInv
BY SortInitial, SortStep, PTL DEF SortSpec

\* For an array of any size and any numbers, what the quicksort of sort.c has not
\* yet sorted lies in the ranges still to be sorted, and the numbers are the ones
\* given.
THEOREM SortIsRight == SortSpec => []SortInv
<1>1. SortIInv => SortInv
  <2> SUFFICES ASSUME SortIInv PROVE KeepsValues
    BY DEF SortIInv, SortInv
  <2>1. ASSUME NEW k \in Cells PROVE ToUnsigned(input[k]) \in Nat
    BY <2>1, WholePart DEF SortIInv, SortTypeOK
  <2> QED
    BY <2>1 DEF SortIInv, KeepsAll, KeepsValues
<1> QED
  BY <1>1, SortInductive, PTL
=============================================================================
