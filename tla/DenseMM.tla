------------------------------ MODULE DenseMM ------------------------------
(***************************************************************************)
(* The matrix programs: dense_mm.c and parallel_dense_mm.c of studio 14, its   *)
(* copy with run-time statistics timed_parallel_dense_mm.c, and the lab 2      *)
(* program, whose matrices lie on the paging device.  They multiply two        *)
(* matrices of matrix_size rows; C is addressed as C[row * matrix_size + col]  *)
(* in unsigned numbers.  Only parallel_dense_mm.c is built with OpenMP: its     *)
(* threads share out the columns.  Doubles are whole numbers here.             *)
(***************************************************************************)
EXTENDS Integers

CONSTANTS
  Sizes,        \* arguments, as unsigned numbers
  Iterations,   \* second arguments of the timed program
  NThreads,     \* threads of OpenMP
  UintValues,   \* numbers an unsigned, unsigned long or size_t holds, 2^32 on the machine
  sqrt_of_UINT32_MAX,
  DoubleSize,   \* sizeof(double), 8 on the machine
  RunTimes,     \* differences of two tv_nsec, which starts again each second
  MatA, MatB    \* numbers in memory; rand() gives them, or the device's pages

\* The programs' sqrt_of_UINT32_MAX, 65536, is the root of 2^32.
ASSUME MatrixAssumption ==
  /\ Sizes \subseteq Nat /\ Iterations \subseteq Int /\ RunTimes \subseteq Int
  /\ NThreads \in Nat \ {0} /\ DoubleSize \in Nat \ {0}
  /\ sqrt_of_UINT32_MAX \in Nat \ {0}
  /\ UintValues = sqrt_of_UINT32_MAX * sqrt_of_UINT32_MAX
  /\ \A i \in 0..UintValues - 1 : MatA[i] \in Nat /\ MatB[i] \in Nat

Mod(i) == i % UintValues

VARIABLES
  mmProg,       \* "serial", "parallel", "timed" or "device"
  matrix_size,
  iterations,   \* 1 in the other programs
  mmPc,         \* "start", "fill", "mult", "stats", "verify", "done", "refused",
                \* "assert" or "oops": a trap, or an access outside a matrix,
                \* where the model stops
  room,         \* cells in each matrix as it was allocated
  C,            \* the product
  C0,           \* what the cells of C held before
  round,        \* the variables of the three loops of each thread
  loaded,       \* the element of C a thread has loaded, -1 for none
  pass,         \* i, the iterations that are done
  maxns, minns, sumns,
  runs          \* the times of all iterations (history)

timeVars == <<pass, maxns, minns, sumns, runs>>
mmVars == <<mmProg, matrix_size, iterations, mmPc, room, C, C0, round, loaded, timeVars>>

rows == matrix_size
squared_size == Mod(rows * rows)
AllThreads == 0..NThreads - 1
Unloaded == -1

-----------------------------------------------------------------------------
(* Mutated forms of the operators that follow. *)
AllocSize_Cells == squared_size

-----------------------------------------------------------------------------
\* The first round of thread t's outermost loop.  The columns are shared out in
\* contiguous parts, one more for the first threads when the division leaves a
\* rest; without OpenMP thread 0 does all rounds.
First(t) ==
  IF mmProg = "parallel"
  THEN t * (rows \div NThreads) + IF t < rows % NThreads THEN t ELSE rows % NThreads
  ELSE IF t = 0 THEN 0 ELSE rows

\* Mutated: a thread goes on into the first column of the next one.
EndOf_Overlaps(t) == IF First(t + 1) < rows THEN First(t + 1) + 1 ELSE rows

\* Where the loop ends, and where all three begin.
EndOf(t) == First(t + 1)
Begin(t) == [outer |-> First(t), inner |-> 0, index |-> 0]

\* The number of bytes asked for.
AllocSize == Mod(DoubleSize * squared_size)

\* The shortest time so far.
NewMin(ns) == IF ns > maxns THEN minns ELSE IF ns < minns THEN ns ELSE minns

\* The columns are outermost in the parallel program and its copy, the rows in the
\* others.
ColumnsFirst == mmProg \in {"parallel", "timed"}
Col(t) == IF ColumnsFirst THEN round[t].outer ELSE round[t].inner
Row(t) == IF ColumnsFirst THEN round[t].inner ELSE round[t].outer
Cell(t) == Mod(Row(t) * rows + Col(t))
AtA(t) == Mod(Row(t) * rows + round[t].index)
AtB(t) == Mod(round[t].index * rows + Col(t))
Inside(t) == {Cell(t), AtA(t), AtB(t)} \subseteq 0..room - 1
Term(t) == MatA[AtA(t)] * MatB[AtB(t)]
Finished(t) == round[t].outer >= EndOf(t)

\* The round after r.
NextRound(r) ==
  IF r.index + 1 < rows THEN [r EXCEPT !.index = @ + 1]
  ELSE IF r.inner + 1 < rows THEN [r EXCEPT !.inner = @ + 1, !.index = 0]
  ELSE [outer |-> r.outer + 1, inner |-> 0, index |-> 0]

-----------------------------------------------------------------------------
MatInit ==
  /\ mmProg \in {"serial", "parallel", "timed", "device"}
  /\ matrix_size \in Sizes
  /\ iterations \in Iterations /\ (mmProg # "timed" => iterations = 1)
  /\ mmPc = "start" /\ room = 0
  /\ C0 \in {0, 5} /\ (mmProg # "device" => C0 = 0)
  /\ C = <<>>
  /\ round = [t \in AllThreads |-> Begin(t)] /\ loaded = [t \in AllThreads |-> Unloaded]
  /\ pass = 0 /\ maxns = 0 /\ minns = 0 /\ sumns = 0 /\ runs = {}

Unchanging == UNCHANGED <<mmProg, matrix_size, iterations, C0>>

\* The test of the argument, and the allocations.
AllocMatrices ==
  /\ mmPc = "start"
  /\ \/ rows > sqrt_of_UINT32_MAX /\ mmPc' = "refused" /\ UNCHANGED room
     \/ rows <= sqrt_of_UINT32_MAX /\ mmPc' = "fill" /\ room' = AllocSize \div DoubleSize
  /\ Unchanging /\ UNCHANGED <<C, round, loaded, timeVars>>

\* The loop over the squared_size elements; on the device there is none.
Fill ==
  /\ mmPc = "fill"
  /\ \/ /\ squared_size <= room \/ mmProg = "device"
        /\ C' = [i \in 0..room - 1 |-> C0]
        /\ mmPc' = IF iterations > 0 THEN "mult" ELSE "stats"
     \/ /\ squared_size > room /\ mmProg # "device"
        /\ mmPc' = "oops" /\ UNCHANGED C
  /\ Unchanging /\ UNCHANGED <<room, round, loaded, timeVars>>

\* C[row*matrix_size + col] += A[row*matrix_size + index] * B[index*matrix_size + col].
LoadC(t) ==
  /\ mmPc = "mult" /\ ~Finished(t) /\ loaded[t] = Unloaded
  /\ \/ Inside(t) /\ loaded' = [loaded EXCEPT ![t] = C[Cell(t)]] /\ UNCHANGED mmPc
     \/ ~Inside(t) /\ mmPc' = "oops" /\ UNCHANGED loaded
  /\ Unchanging /\ UNCHANGED <<room, C, round, timeVars>>

StoreC(t) ==
  /\ mmPc = "mult" /\ loaded[t] # Unloaded
  /\ C' = [C EXCEPT ![Cell(t)] = loaded[t] + Term(t)]
  /\ loaded' = [loaded EXCEPT ![t] = Unloaded]
  /\ round' = [round EXCEPT ![t] = NextRound(@)]
  /\ Unchanging /\ UNCHANGED <<mmPc, room, timeVars>>

\* All threads have left the loops.  The timed program takes the time of the
\* iteration and begins the next.
Join ==
  /\ mmPc = "mult" /\ \A t \in AllThreads : Finished(t)
  /\ \/ mmProg # "timed" /\ mmPc' = "verify" /\ UNCHANGED <<round, timeVars>>
     \/ /\ mmProg = "timed"
        /\ \E ns \in RunTimes :
             /\ runs' = runs \cup {ns}
             /\ sumns' = Mod(sumns + ns)
             /\ \/ pass = 0 /\ maxns' = ns /\ minns' = ns
                \/ /\ pass > 0
                   /\ maxns' = IF ns > maxns THEN ns ELSE maxns
                   /\ minns' = NewMin(ns)
        /\ pass' = pass + 1
        /\ round' = [t \in AllThreads |-> Begin(t)]
        /\ mmPc' = IF pass + 1 < iterations THEN "mult" ELSE "stats"
  /\ Unchanging /\ UNCHANGED <<room, C, loaded>>

\* The statistics are printed: no iteration, no mean.
PrintStats ==
  /\ mmPc = "stats" /\ mmPc' = IF iterations = 0 THEN "oops" ELSE "verify"
  /\ Unchanging /\ UNCHANGED <<room, C, round, loaded, timeVars>>

-----------------------------------------------------------------------------
\* The sum of the first k terms of an element, for each k.
Sums(size, row, col) ==
  LET f[k \in 0..size] ==
        IF k = 0 THEN 0
        ELSE f[k - 1] + MatA[row * size + (k - 1)] * MatB[(k - 1) * size + col]
  IN f
Product(row, col) == Sums(rows, row, col)[rows]

\* With VERIFY_PARALLEL the product is computed once more in D, serially, and every
\* element compared; without it the program is done.
Verify ==
  /\ mmPc = "verify"
  /\ \/ mmPc' = "done"
     \/ /\ ColumnsFirst
        /\ \/ room < rows * rows /\ mmPc' = "oops"
           \/ /\ room >= rows * rows /\ mmPc' = "assert"
              /\ \E row, col \in 0..rows - 1 : C[row * rows + col] # Product(row, col)
  /\ Unchanging /\ UNCHANGED <<room, C, round, loaded, timeVars>>

MatNext ==
  \/ AllocMatrices \/ Fill \/ Join \/ PrintStats \/ Verify
  \/ \E t \in AllThreads : LoadC(t) \/ StoreC(t)

MatSpec == MatInit /\ [][MatNext]_mmVars

-----------------------------------------------------------------------------
MatTypeOK ==
  /\ mmPc \in {"start", "fill", "mult", "stats", "verify", "done", "refused", "oops",
               "assert"}
  /\ room \in Nat /\ \A i \in DOMAIN C : i < room /\ C[i] \in Nat
  /\ round \in [AllThreads -> [outer : Nat, inner : Nat, index : Nat]]
  /\ loaded \in [AllThreads -> Nat \cup {Unloaded}]
  /\ pass \in Nat /\ {maxns, minns} \subseteq Int /\ sumns = Mod(sumns)

\* Each element has the whole sum, in each iteration once more, on top of what
\* was in memory: no thread loses a term of another.
SumRight ==
  mmPc \in {"verify", "done"} /\ iterations > 0 =>
    /\ DOMAIN C = 0..(rows * rows) - 1
    /\ \A row, col \in 0..rows - 1 :
         C[row * rows + col] = C0 + iterations * Product(row, col)

\* In one pass over memory that was cleared a program computes A*B = C, as each
\* of the files says on its first lines, and its own comparison does not fail:
\* in timed_parallel_dense_mm.c with one iteration, in the lab 2 program with
\* pages of zeroes.
ProductRight ==
  iterations = 1 /\ C0 = 0 =>
    /\ mmPc # "assert"
    /\ mmPc \in {"verify", "done"} =>
         /\ DOMAIN C = 0..(rows * rows) - 1
         /\ \A row, col \in 0..rows - 1 : C[row * rows + col] = Product(row, col)

\* The sizes accepted that need no more bytes than a size_t counts are computed
\* without a fault; the test on line 45 accepts more than these.
OopsMeansOverflow ==
  mmPc = "oops" => DoubleSize * rows * rows >= UintValues \/ iterations = 0

\* The statistics bound the time of every iteration; the mean lies between them
\* if no second began during an iteration and the sum is no more than an
\* unsigned long holds.
StatsBound ==
  mmPc = "stats" /\ iterations > 0 =>
    /\ \A ns \in runs : minns <= ns /\ ns <= maxns
    /\ runs \subseteq Nat /\ iterations * maxns < UintValues =>
         minns <= sumns \div iterations /\ sumns \div iterations <= maxns

\* The unsigned numbers of the programs wrap only beyond the limits named: for
\* sizes below them no access is outside a matrix, and no statistic is wrong.
NumbersFit == OopsMeansOverflow /\ StatsBound
=============================================================================
