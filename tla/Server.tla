------------------------------- MODULE Server -------------------------------
(***************************************************************************)
(* Studio 18 (studios/studio18/serverip.c): a server that takes one client    *)
(* after the other, reads once from each, prints the words of its buffer up   *)
(* to a newline, and stops at the word 418.  The buffer is allocated and freed *)
(* for each client, and the allocator gives the same block each time: what a   *)
(* read does not fill holds the words of an earlier client, but for the first  *)
(* ones, where the allocator has kept a null pointer.  TCP may deliver a       *)
(* message in pieces, cut anywhere.                                          *)
(***************************************************************************)
EXTENDS Naturals, Sequences

CONSTANTS
  Clients,     \* the connections
  BufLen,      \* words in the buffer, 20 in the code
  Clobbered,   \* how many of them the allocator overwrites
  Backlog,     \* LISTEN_QUEUE
  NoClient

ASSUME ServerAssumption ==
  /\ BufLen \in Nat \ {0} /\ Clobbered \in 0..BufLen /\ Backlog \in Nat
  /\ NoClient \notin Clients

Words == {"newline", "418", "zero"}   \* zero stands for any other number
Cells == 1..BufLen

VARIABLES
  srvPc,      \* "socket", "bind", "listen", "accept", "read", "scan", "close",
              \* "down" after 418, "failed" after an error
  cfd,        \* the client served last
  waiting,    \* the connections that wait to be accepted
  conn,       \* each client: "new", "open", "closed" or "reset" by it, "served"
  sent,       \* the words each client has sent
  data,       \* the buffer
  got,        \* the whole words the read has delivered
  cell,       \* the loop's index i
  torn        \* some read has ended inside a word (history)

srvVars == <<srvPc, cfd, waiting, conn, sent, data, got, cell, torn>>

IsStop(w) == w \in {"newline", "418"}

-----------------------------------------------------------------------------
(* Mutated forms of the operators that follow. *)
EndsServer_AnyStop(w) == IsStop(w)
NextClient_Same == waiting

-----------------------------------------------------------------------------
\* The tests of recv_data in the loop and behind it; accept takes the first
\* connection off the queue.
EndsLoop(w) == IsStop(w)
EndsServer(w) == w = "418"
NextClient == Tail(waiting)

SrvInit ==
  /\ srvPc = "socket" /\ cfd = NoClient /\ waiting = <<>>
  /\ conn = [c \in Clients |-> "new"] /\ sent = [c \in Clients |-> <<>>]
  /\ data = [i \in Cells |-> "zero"] /\ got = 0 /\ cell = 1 /\ torn = FALSE

\* An error of a call: the server exits.
SrvFails ==
  /\ srvPc \in {"socket", "bind", "listen"} \/ (srvPc = "accept" /\ waiting # <<>>)
  /\ srvPc' = "failed"
  /\ UNCHANGED <<cfd, waiting, conn, sent, data, got, cell, torn>>

Setup ==
  /\ \/ srvPc = "socket" /\ srvPc' = "bind"
     \/ srvPc = "bind" /\ srvPc' = "listen"
     \/ srvPc = "listen" /\ srvPc' = "accept"
  /\ UNCHANGED <<cfd, waiting, conn, sent, data, got, cell, torn>>

\* accept, and the buffer is allocated.
Accept ==
  /\ srvPc = "accept" /\ waiting # <<>> /\ srvPc' = "read"
  /\ cfd' = Head(waiting) /\ waiting' = NextClient
  /\ data' = [i \in Cells |-> IF i <= Clobbered THEN "zero" ELSE data[i]]
  /\ UNCHANGED <<conn, sent, got, cell, torn>>

\* read waits until there is something, the end, or a reset; it delivers some
\* whole words, and perhaps a piece of the next one.
ReadFails ==
  /\ srvPc = "read" /\ conn[cfd] = "reset" /\ srvPc' = "failed"
  /\ UNCHANGED <<cfd, waiting, conn, sent, data, got, cell, torn>>

read ==
  LET all == sent[cfd] IN
  /\ srvPc = "read" /\ conn[cfd] # "reset"
  /\ srvPc' = "scan" /\ cell' = 1
  /\ \E n \in 0..Len(all), w \in Words, piece \in BOOLEAN :
       /\ n > 0 \/ piece \/ (all = <<>> /\ conn[cfd] = "closed")
       /\ piece => n < Len(all)
       /\ ~piece => w = "zero"   \* w is not used
       /\ got' = n /\ torn' = (torn \/ piece)
       /\ data' = [i \in Cells |-> IF i <= n THEN all[i]
                                   ELSE IF piece /\ i = n + 1 THEN w ELSE data[i]]
  /\ UNCHANGED <<cfd, waiting, conn, sent>>

\* A round of the loop; recv_data is data[cell], also after the loop.
Scan ==
  /\ srvPc = "scan"
  /\ \/ ~EndsLoop(data[cell]) /\ cell < BufLen /\ cell' = cell + 1 /\ UNCHANGED srvPc
     \/ /\ EndsLoop(data[cell]) \/ cell = BufLen
        /\ srvPc' = "close" /\ UNCHANGED cell
  /\ UNCHANGED <<cfd, waiting, conn, sent, data, got, torn>>

\* The buffer is freed and the connection closed; the server ends after 418.
SrvClose ==
  /\ srvPc = "close"
  /\ conn' = [conn EXCEPT ![cfd] = "served"]
  /\ \/ EndsServer(data[cell]) /\ srvPc' = "down" /\ UNCHANGED <<got, cell>>
     \/ ~EndsServer(data[cell]) /\ srvPc' = "accept" /\ got' = 0 /\ cell' = 1
  /\ UNCHANGED <<cfd, waiting, sent, data, torn>>

server_main == SrvFails \/ Setup \/ Accept \/ ReadFails \/ read \/ Scan \/ SrvClose

-----------------------------------------------------------------------------
(* The clients *)

Connect(c) ==
  /\ conn[c] = "new" /\ Len(waiting) <= Backlog
  /\ srvPc \notin {"socket", "bind", "listen", "down", "failed"}
  /\ conn' = [conn EXCEPT ![c] = "open"] /\ waiting' = Append(waiting, c)
  /\ UNCHANGED <<srvPc, cfd, sent, data, got, cell, torn>>

\* The server sees what a client does only at its read: what happens earlier is
\* as if it happened then, and what happens later changes nothing.
Unread(c) == conn[c] = "open" /\ c = cfd /\ srvPc = "read"

Send(c, w) ==
  /\ Unread(c) /\ Len(sent[c]) < BufLen
  /\ sent' = [sent EXCEPT ![c] = Append(@, w)]
  /\ UNCHANGED <<srvPc, cfd, waiting, conn, data, got, cell, torn>>

HangUp(c, how) ==
  /\ Unread(c)
  /\ conn' = [conn EXCEPT ![c] = how]
  /\ UNCHANGED <<srvPc, cfd, waiting, sent, data, got, cell, torn>>

SrvNext ==
  \/ server_main
  \/ \E c \in Clients :
       Connect(c) \/ (\E w \in Words : Send(c, w)) \/ HangUp(c, "closed") \/ HangUp(c, "reset")

\* Clients may keep silent for ever.
SrvSpec == SrvInit /\ [][SrvNext]_srvVars /\ WF_srvVars(server_main)

-----------------------------------------------------------------------------
SrvTypeOK ==
  /\ srvPc \in {"socket", "bind", "listen", "accept", "read", "scan", "close",
                "down", "failed"}
  /\ cfd \in Clients \cup {NoClient}
  /\ waiting \in Seq(Clients)
  /\ conn \in [Clients -> {"new", "open", "closed", "reset", "served"}]
  /\ sent \in [Clients -> Seq(Words)]
  /\ data \in [Cells -> Words]
  /\ got \in 0..BufLen /\ cell \in Cells /\ torn \in BOOLEAN

\* A client that got a newline or 418 through, or a full buffer, has only words
\* of its own printed: the loop does not reach what an earlier one has left.
OwnUntilStop ==
  srvPc = "scan" /\ (got = BufLen \/ \E i \in 1..got : IsStop(data[i])) => cell <= got

\* The server ends only if the client it served has sent 418, or an earlier one
\* has sent it behind its newline, where it stays in the buffer; or if the
\* network has cut a word in two.
StopAsked ==
  srvPc = "down" =>
    \/ torn
    \/ (cell <= got /\ sent[cfd][cell] = "418")
    \/ \E c \in Clients : \E i, j \in DOMAIN sent[c] :
         conn[c] = "served" /\ i < j /\ sent[c][i] = "newline" /\ sent[c][j] = "418"

SilentClient == srvPc = "read" /\ conn[cfd] = "open" /\ sent[cfd] = <<>>

\* Every client that connects is served, in spite of those that hang up, unless
\* the server has ended or waits for ever for a client that says nothing.
EachServed ==
  \/ <>[]SilentClient
  \/ \A c \in Clients :
       conn[c] = "open" ~> conn[c] = "served" \/ srvPc \in {"down", "failed"}
=============================================================================
