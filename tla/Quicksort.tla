----------------------------- MODULE Quicksort -----------------------------
(***************************************************************************)
(* The randomised quicksort of studio 14 (test_programs/sort.c), which       *)
(* labs/lab2/user/sort.c runs on an array in the memory of the paging        *)
(* device.  quicksort takes an inclusive end and main calls it with          *)
(* array_size, so the cell behind the array takes part in the sort.          *)
(*                                                                         *)
(* A double is represented in halves: 2n for the whole number n, an odd      *)
(* number for one with a fraction.  rand gives whole numbers; the cell behind *)
(* the array holds any number below 2^32, or is not mapped, where the array  *)
(* fills its last page of the device.                                       *)
(***************************************************************************)
EXTENDS Integers, Sequences, FiniteSets

CONSTANTS
  MaxSize,  \* bound on array_size
  Values,   \* what rand can give, in halves: even numbers
  Behind    \* what the cell behind the array can hold, in halves

ASSUME SortAssumption ==
  /\ MaxSize \in Nat
  /\ Values \subseteq Nat /\ \A v \in Values : v % 2 = 0
  /\ Behind \subseteq Int

VARIABLES
  array_size,
  input,      \* the array and the cell behind it as main has filled it
  A,
  mapped,     \* there is memory behind the array
  calls,      \* calls of quicksort still to be made, the next one last
  qpc,        \* where the program is
  start, end, \* arguments of the current call
  target, index, pivot_val   \* locals of partition

argVars  == <<array_size, input, mapped>>
partVars == <<start, end, target, index, pivot_val>>
sortVars == <<array_size, input, A, mapped, calls, qpc, start, end, target, index, pivot_val>>

\* The conversion of a double to unsigned, which saturates on the ARM.
ToUnsigned(x) == IF x < 0 THEN 0 ELSE x - (x % 2)

-----------------------------------------------------------------------------
(* Mutated forms of the operators that follow, for showing that a property    *)
(* depends on them; no action uses one.                                      *)

\* partition leaves its pivot at the end.
PivotPlaced_NotMoved(t) == t < 0

-----------------------------------------------------------------------------
\* swap: the temporary is unsigned, so what goes to cell b loses its fraction.
Swapped(a, b) == [A EXCEPT ![a] = A[b], ![b] = ToUnsigned(A[a])]

\* Whether partition moves its pivot to cell t.
PivotPlaced(t) == t >= 0

\* The recursive calls on the two sides of the pivot.
LeftCall(t)  == IF t > start THEN <<<<start, t - 1>>>> ELSE <<>>
RightCall(t) == IF t < end THEN <<<<t + 1, end>>>> ELSE <<>>

SortInit ==
  /\ array_size \in 0..MaxSize
  /\ \E x \in Behind, f \in [0..array_size - 1 -> Values] :
       input = [k \in 0..array_size |-> IF k = array_size THEN x ELSE f[k]]
  /\ A = input
  /\ mapped \in BOOLEAN
  /\ calls = <<<<0, array_size>>>>
  /\ qpc = "call"
  /\ start = 0 /\ end = 0
  /\ target = 0 /\ index = 0 /\ pivot_val = 0

\* quicksort: a range of one cell is sorted.
EnterCall ==
  /\ qpc = "call"
  /\ calls # <<>>
  /\ LET c == calls[Len(calls)] IN
       /\ start' = c[1] /\ end' = c[2]
       /\ qpc' = IF c[1] < c[2] THEN "partition" ELSE "call"
  /\ calls' = SubSeq(calls, 1, Len(calls) - 1)
  /\ UNCHANGED <<argVars, A, target, index, pivot_val>>

\* partition up to its loop: a random pivot, never the last cell, is swapped
\* with the last one.
ChoosePivot ==
  /\ qpc = "partition"
  /\ end < array_size \/ mapped
  /\ \E pivot \in start..end - 1 : A' = Swapped(pivot, end)
  /\ pivot_val' = ToUnsigned(A'[end])
  /\ target' = start
  /\ index' = start
  /\ qpc' = "scan"
  /\ UNCHANGED <<argVars, calls, start, end>>

\* The same with no memory behind the array: SIGSEGV.
PartitionFaults ==
  /\ qpc = "partition"
  /\ end = array_size /\ ~mapped
  /\ qpc' = "killed"
  /\ UNCHANGED <<argVars, A, calls, partVars>>

\* One round of the loop of partition.
Scan ==
  /\ qpc = "scan"
  /\ index < end
  /\ \/ A[index] <= pivot_val /\ A' = Swapped(target, index) /\ target' = target + 1
     \/ A[index] > pivot_val /\ UNCHANGED <<A, target>>
  /\ index' = index + 1
  /\ UNCHANGED <<argVars, calls, qpc, start, end, pivot_val>>

\* The end of partition, and the recursive calls.
PlacePivot ==
  /\ qpc = "scan"
  /\ index = end
  /\ A' = IF PivotPlaced(target) THEN Swapped(target, end) ELSE A
  /\ calls' = calls \o RightCall(target) \o LeftCall(target)
  /\ qpc' = "call"
  /\ UNCHANGED <<argVars, partVars>>

Return ==
  /\ qpc = "call"
  /\ calls = <<>>
  /\ qpc' = "done"
  /\ UNCHANGED <<argVars, A, calls, partVars>>

SortNext ==
  EnterCall \/ ChoosePivot \/ PartitionFaults \/ Scan \/ PlacePivot \/ Return

SortSpec == SortInit /\ [][SortNext]_sortVars

-----------------------------------------------------------------------------
Cells == 0..array_size

SortTypeOK ==
  /\ array_size \in 0..MaxSize
  /\ input \in [Cells -> Int]
  /\ A \in [Cells -> Int]
  /\ mapped \in BOOLEAN
  /\ calls \in Seq(Cells \X Cells)
  /\ qpc \in {"call", "partition", "scan", "done", "killed"}
  /\ start \in Cells /\ end \in Cells
  /\ target \in Cells /\ index \in Cells
  /\ pivot_val \in Nat

\* Cells a and b are in one range that is still to be sorted.
Unsorted(a, b) ==
  \/ qpc \in {"partition", "scan", "killed"} /\ start <= a /\ b <= end
  \/ \E k \in 1..Len(calls) : calls[k][1] <= a /\ b <= calls[k][2]

\* Two cells are in order unless one call that is still to be made or in
\* progress covers both; at the end that is the array, which VERIFY_CORRECT
\* checks.  It takes a cell behind the array that is no negative number.
RangesInOrder ==
  input[array_size] >= 0 =>
    \A a, b \in Cells : a < b /\ ~Unsorted(a, b) => A[a] <= A[b]

\* The cells hold what they held, but for fractions that swap has cut off: the
\* sort loses and invents no number, and what leaves the array for the cell
\* behind it is its largest number.
Occurrences(f, x) == Cardinality({k \in Cells : ToUnsigned(f[k]) = x})
KeepsValues == \A k \in Cells : LET x == ToUnsigned(input[k]) IN
  Occurrences(A, x) = Occurrences(input, x)

\* At every step the numbers are the ones given, and out of order only within
\* the ranges still to be sorted.
SortInv == SortTypeOK /\ RangesInOrder /\ KeepsValues
=============================================================================
