------------------------------ MODULE Signals ------------------------------
(***************************************************************************)
(* Studio 20: sender.c queues a number of realtime signals of value 0 for    *)
(* the receiver and a last one of value 1; receiver.c counts the first in    *)
(* its handler, spins until the last one, and prints its count.             *)
(*                                                                         *)
(* Each of Senders is one run of the sender.  The kernel keeps the signals   *)
(* of a process in a queue, in order, at most RLIMIT_SIGPENDING of them; the *)
(* senders read the same limit.  The kernel counts them for each user; no    *)
(* other signals of the user are taken to be queued.  The handler runs on    *)
(* the receiver's only thread, with its signal blocked: it is one step.     *)
(***************************************************************************)
EXTENDS Integers, Sequences

CONSTANTS
  Senders,  \* runs of the sender
  Limit,    \* limit.rlim_cur
  MaxSend   \* bound on the number a sender is asked for

ASSUME SigAssumption ==
  /\ Limit \in Nat \ {0}
  /\ MaxSend \in Nat

VARIABLES
  spc,      \* where each sender is
  sig_nr,   \* the number of signals it was asked for
  sent,     \* its loop index
  lost,     \* senders one of whose signals was not queued
  pending,  \* the signals queued for the receiver: their values
  rpc,      \* where the receiver is
  done,
  count,
  printed   \* the count it has printed

sendVars == <<spc, sig_nr, sent, lost>>
recvVars == <<rpc, done, count, printed>>
sigVars  == <<spc, sig_nr, sent, lost, pending, rpc, done, count, printed>>

-----------------------------------------------------------------------------
(* Mutated forms of the operators that follow, for showing that a property    *)
(* depends on them; no action uses one.                                      *)

\* The sender does not look at the limit.
Exceeds_Unchecked(n) == n < 0

\* The handler counts the last signal too.
Counted_All(v) == v \in {0, 1}

\* The handler does not take the last signal for the end.
Ends_Never(v) == v > 1

-----------------------------------------------------------------------------
Exceeds(n) == n > Limit
MoreToSend(s) == sent[s] < sig_nr[s]
Counted(v) == v = 0
Ends(v) == v = 1
Finished == done

SigInit ==
  /\ spc    = [s \in Senders |-> "off"]
  /\ sig_nr = [s \in Senders |-> 0]
  /\ sent   = [s \in Senders |-> 0]
  /\ lost = {}
  /\ pending = <<>>
  /\ rpc = "start"
  /\ done = FALSE
  /\ count = 0
  /\ printed = 0

-----------------------------------------------------------------------------
(* The sender *)

\* More signals than the limit are refused.
StartSender(s) ==
  /\ spc[s] = "off"
  /\ \E n \in 0..MaxSend :
       /\ sig_nr' = [sig_nr EXCEPT ![s] = n]
       /\ spc' = [spc EXCEPT ![s] = IF Exceeds(n) THEN "refused" ELSE "send"]
  /\ UNCHANGED <<sent, lost, pending, recvVars>>

\* sigqueue fails when the queue is full and when the receiver is gone; its
\* result is not tested.
sigqueue(s, v) ==
  \/ /\ rpc \notin {"exit", "killed"}
     /\ Len(pending) < Limit
     /\ pending' = Append(pending, v)
     /\ UNCHANGED lost
  \/ /\ rpc \in {"exit", "killed"} \/ Len(pending) >= Limit
     /\ lost' = lost \cup {s}
     /\ UNCHANGED pending

SendCounted(s) ==
  /\ spc[s] = "send"
  /\ MoreToSend(s)
  /\ sigqueue(s, 0)
  /\ sent' = [sent EXCEPT ![s] = @ + 1]
  /\ UNCHANGED <<spc, sig_nr, recvVars>>

SendLast(s) ==
  /\ spc[s] = "send"
  /\ ~MoreToSend(s)
  /\ sigqueue(s, 1)
  /\ spc' = [spc EXCEPT ![s] = "sent"]
  /\ UNCHANGED <<sig_nr, sent, recvVars>>

sender_main(s) == SendCounted(s) \/ SendLast(s)

-----------------------------------------------------------------------------
(* The receiver *)

sigaction ==
  /\ rpc = "start"
  /\ rpc' = "loop"
  /\ UNCHANGED <<sendVars, pending, done, count, printed>>

\* Before sigaction the signal has its default action and ends the process.
DefaultAction ==
  /\ rpc = "start"
  /\ pending # <<>>
  /\ rpc' = "killed"
  /\ pending' = <<>>
  /\ UNCHANGED <<sendVars, done, count, printed>>

\* A pending signal is taken from the queue and handled wherever main is.
sig_handler ==
  /\ rpc \in {"loop", "print"}
  /\ pending # <<>>
  /\ pending' = Tail(pending)
  /\ count' = IF Counted(Head(pending)) THEN count + 1 ELSE count
  /\ done' = (done \/ Ends(Head(pending)))
  /\ UNCHANGED <<sendVars, rpc, printed>>

LoopEnds ==
  /\ rpc = "loop"
  /\ Finished
  /\ rpc' = "print"
  /\ UNCHANGED <<sendVars, pending, done, count, printed>>

PrintCount ==
  /\ rpc = "print"
  /\ printed' = count
  /\ rpc' = "exit"
  /\ pending' = <<>>
  /\ UNCHANGED <<sendVars, done, count>>

receiver_main == sigaction \/ DefaultAction \/ sig_handler \/ LoopEnds \/ PrintCount

-----------------------------------------------------------------------------
SigNext ==
  \/ \E s \in Senders : StartSender(s) \/ sender_main(s)
  \/ receiver_main

SigSpec == SigInit /\ [][SigNext]_sigVars

-----------------------------------------------------------------------------
SigTypeOK ==
  /\ spc \in [Senders -> {"off", "refused", "send", "sent"}]
  /\ sig_nr \in [Senders -> 0..MaxSend]
  /\ sent \in [Senders -> Nat] /\ \A s \in Senders : sent[s] <= sig_nr[s]
  /\ lost \subseteq Senders
  /\ pending \in Seq({0, 1}) /\ Len(pending) <= Limit
  /\ rpc \in {"start", "loop", "print", "exit", "killed"}
  /\ done \in BOOLEAN
  /\ count \in Nat
  /\ printed \in Nat

Alone(s) == \A t \in Senders \ {s} : spc[t] \in {"off", "refused"}

\* The receiver prints the exact number of signals it was asked to count when
\* one sender has sent, whatever the limit: the queue keeps the order, so none is
\* counted after the last signal, and none is lost before it.
PrintedExact ==
  \A s \in Senders : rpc = "exit" /\ Alone(s) => printed = sig_nr[s]

\* A signal is lost only at the end: the check against the limit keeps a sender
\* that is alone from filling the queue before its last signal.
LostOnlyLast ==
  \A s \in Senders :
    Alone(s) /\ s \in lost => spc[s] = "sent" \/ rpc \in {"exit", "killed"}

\* A sender that was alone and was asked for less than the limit ends the
\* receiver, where the scheduler runs both and the kernel delivers the signals;
\* at the limit its last signal can find the queue full, and the receiver spins
\* for ever.
ReceiverEnds ==
  \A s \in Senders :
    spc[s] = "sent" /\ Alone(s) /\ sig_nr[s] < Limit ~> rpc \in {"exit", "killed"}
=============================================================================
