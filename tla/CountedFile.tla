---------------------------- MODULE CountedFile ----------------------------
(***************************************************************************)
(* Studio 16: appendfile_count.c appends a line to a file, the number of its   *)
(* characters first; readfile.c reads the lines back, with a buffer that it    *)
(* makes as large as the numbers say.  A character of the file is named by its *)
(* line and its place there; place 1 is the number with its blank.            *)
(*                                                                         *)
(* The appenders share the file.  The C library hands a line to the kernel     *)
(* when its buffer is full and at fclose, and the kernel puts what it gets at  *)
(* the end of the file in one go.                                            *)
(***************************************************************************)
EXTENDS Naturals, Sequences

CONSTANTS
  Appenders,   \* runs of appendfile_count, one line each
  LineLens,    \* lengths of lines
  BufSize,     \* the C library's buffer, 4096
  FirstAlloc,  \* what getline allocates when there is no buffer, 120
  Old          \* printed for what the buffer held before

ASSUME FileAssumption ==
  /\ LineLens \subseteq Nat \ {0, 1} /\ BufSize \in Nat \ {0} /\ FirstAlloc \in Nat \ {0}
  /\ Old \notin Appenders

VARIABLES
  lineLen,    \* the length of each appender's line
  appPc,      \* "run", "closed" (the line is handed over) or "dead"
  flushed,    \* how much of the line the kernel has
  text,       \* the file
  rdPc,       \* readfile: "open", "count", "alloc", "getline", "ended" or "dead"
  pos,        \* how much of the file it has read
  eof,        \* feof
  len, maxlen, capacity,   \* its variables, and the size of what data points to
  output,     \* the lines it has printed
  overrun     \* getline has written behind the buffer (history)

appVars  == <<lineLen, appPc, flushed, text>>
readVars == <<rdPc, pos, eof, len, maxlen, capacity, output, overrun>>
fileVars == <<appVars, readVars>>

Fits(a) == lineLen[a] <= BufSize
Piece(a, from, to) == [i \in 1..to - from |-> <<a, from + i>>]

-----------------------------------------------------------------------------
(* Mutated forms of the operators that follow. *)
NextPiece_PerArgument(a) == flushed[a] + 1
Grown_SwappedOrder == maxlen
Feof_Early == pos = Len(text)

-----------------------------------------------------------------------------
\* How far the next write takes the line of a; what malloc and realloc are asked
\* for; the test of the reader's loop.
NextPiece(a) == IF lineLen[a] - flushed[a] > BufSize THEN flushed[a] + BufSize ELSE lineLen[a]
Grown == len
Feof == eof

FileInit ==
  /\ lineLen \in [Appenders -> LineLens]
  /\ appPc = [a \in Appenders |-> "run"] /\ flushed = [a \in Appenders |-> 0]
  /\ text = <<>>
  /\ rdPc = "open" /\ pos = 0 /\ eof = FALSE
  /\ len = 0 /\ maxlen = 0 /\ capacity = 0 /\ output = <<>>
  /\ overrun = FALSE

\* A full buffer on the way, or fclose.
appendfile_count(a) ==
  /\ appPc[a] = "run"
  /\ text' = text \o Piece(a, flushed[a], NextPiece(a))
  /\ flushed' = [flushed EXCEPT ![a] = NextPiece(a)]
  /\ appPc' = [appPc EXCEPT ![a] = IF NextPiece(a) = lineLen[a] THEN "closed" ELSE "run"]
  /\ UNCHANGED <<lineLen, readVars>>

\* A kill, or no file to open: the library's buffer is lost.
AppenderDies(a) ==
  /\ appPc[a] = "run" /\ appPc' = [appPc EXCEPT ![a] = "dead"]
  /\ UNCHANGED <<lineLen, flushed, text, readVars>>

\* readfile opens a file of whole lines.  The result of fopen is not tested.
OpenText ==
  /\ rdPc = "open" /\ \A a \in Appenders : Fits(a)
  /\ rdPc' \in {"count", "dead"}
  /\ UNCHANGED <<appVars, pos, eof, len, maxlen, capacity, output, overrun>>

\* The loop's test, and getLineLen: the number at the beginning of the line, or
\* 0 at the end of the file, which only this attempt to read finds.
getLineLen ==
  /\ rdPc = "count"
  /\ \/ /\ Feof /\ rdPc' = "ended"
        /\ UNCHANGED <<pos, eof, len>>
     \/ /\ ~Feof /\ pos < Len(text)
        /\ rdPc' = "alloc" /\ pos' = pos + 1 /\ len' = lineLen[text[pos + 1][1]] - 1
        /\ UNCHANGED eof
     \/ /\ ~Feof /\ pos = Len(text)
        /\ rdPc' = "alloc" /\ eof' = TRUE /\ len' = 0
        /\ UNCHANGED pos
  /\ UNCHANGED <<appVars, maxlen, capacity, output, overrun>>

GrowData ==
  /\ rdPc = "alloc" /\ rdPc' = "getline"
  /\ \/ len > maxlen /\ maxlen' = len /\ capacity' = Grown
     \/ len <= maxlen /\ UNCHANGED <<maxlen, capacity>>
  /\ UNCHANGED <<appVars, pos, eof, len, output, overrun>>

\* getline takes len for the size of the buffer.  When the line ends behind the
\* library's own buffer its first part is stored there; for the whole line and a
\* null byte the buffer is always too small and becomes twice len, which may be
\* less than it was.  With a len of 0 a new buffer is allocated.  Then data is
\* printed.
getline ==
  /\ rdPc = "getline" /\ rdPc' = "count"
  /\ \/ /\ ~eof
        /\ \E first \in 0..len - 1 : overrun' = (overrun \/ first > capacity)
        /\ pos' = pos + len
        /\ capacity' = 2 * len
        /\ output' = Append(output, text[pos][1])
     \/ /\ eof
        /\ capacity' = FirstAlloc
        /\ output' = Append(output, Old) /\ UNCHANGED <<pos, overrun>>
  /\ UNCHANGED <<appVars, eof, len, maxlen>>

readfile == OpenText \/ getLineLen \/ GrowData \/ getline

FileNext ==
  readfile \/ \E a \in Appenders : appendfile_count(a) \/ AppenderDies(a)

FileSpec == FileInit /\ [][FileNext]_fileVars

-----------------------------------------------------------------------------
FileTypeOK ==
  /\ lineLen \in [Appenders -> LineLens]
  /\ appPc \in [Appenders -> {"run", "closed", "dead"}]
  /\ \A a \in Appenders : flushed[a] \in 0..lineLen[a]
  /\ \A i \in DOMAIN text : text[i] \in Appenders \X Nat
  /\ rdPc \in {"open", "count", "alloc", "getline", "ended", "dead"}
  /\ pos \in 0..Len(text) /\ {eof, overrun} \subseteq BOOLEAN
  /\ {len, maxlen, capacity} \subseteq Nat
  /\ output \in Seq(Appenders \cup {Old})

\* A line that fits the library's buffer is in the file as a whole or not at
\* all, whatever other lines are appended and torn at the same time and whoever
\* is killed.
AppendWhole ==
  \A a \in Appenders : Fits(a) =>
    \/ \A i \in DOMAIN text : text[i][1] # a
    \/ \E i \in 0..Len(text) - lineLen[a] :
         SubSeq(text, i + 1, i + lineLen[a]) = Piece(a, 0, lineLen[a])

\* getline writes behind the buffer only when the line before was less than half
\* as long: maxlen does not know that getline has made the buffer smaller.
BufferFits ==
  overrun => \E k \in 2..Len(output) :
               output[k] # Old /\ 2 * lineLen[output[k - 1]] < lineLen[output[k]]

\* The lines that begin in the first m characters of t, for each m.
LinesIn(t) ==
  LET f[m \in 0..Len(t)] ==
        IF m = 0 THEN <<>> ELSE IF t[m][2] = 1 THEN Append(f[m - 1], t[m][1]) ELSE f[m - 1]
  IN f

\* readfile prints the lines that were there when it saw the end of the file,
\* each once and in order, and then once what its buffer held: feof is true only
\* after an attempt to read has failed.
RoundTrip ==
  rdPc = "ended" => output = Append(LinesIn(text)[pos], Old)
=============================================================================
