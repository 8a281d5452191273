--------------------------- MODULE RecurringTimer ---------------------------
(***************************************************************************)
(* The recurring timer of lab 1 (labs/lab1/mt_recurring_timer.c): a high    *)
(* resolution timer whose callback wakes one kernel thread per core.  With  *)
(* N = 1 it is labs/lab1/recurring_timer.c, which creates and wakes its     *)
(* single thread by kthread_run and does not bind it.                       *)
(*                                                                         *)
(* What interleaves on an SMP preemptible kernel are mod_init or mod_exit,  *)
(* the threads, and the timer callback in its interrupt.  A step reads or   *)
(* writes one thing that two of them share: the state of a task, its stop   *)
(* flag, the timer.                                                         *)
(***************************************************************************)
EXTENDS Integers

CONSTANTS
  N,            \* kernel threads, 4 in mt_recurring_timer.c
  CreateFails,  \* whether kthread_create may fail
  MaxTicks      \* bound on the expirations of the timer

ASSUME TimerAssumption ==
  /\ N \in Nat \ {0}
  /\ CreateFails \in BOOLEAN
  /\ MaxTicks \in Nat

Threads == 1..N

VARIABLES
  ctl,          \* where the module is: in mod_init, loaded, in mod_exit
  index,        \* loop index of mod_init and of mod_exit
  arr_threads,  \* "null", "task" or "error" (an ERR_PTR)
  armed,        \* the timer is queued
  waking,       \* loop index of timer_expire, 0 when it does not run
  ticks,        \* expirations of the timer
  tpc,          \* where each thread is
  state,        \* its task state
  stop,         \* its KTHREAD_SHOULD_STOP flag
  iters

ctlVars    == <<ctl, index, arr_threads>>
timerVars  == <<armed, waking, ticks>>
threadVars == <<tpc, state, stop, iters>>
vars == <<ctl, index, arr_threads, armed, waking, ticks, tpc, state, stop, iters>>

\* wake_up_process: only a task that waits is changed by it.
wake_up_process(t) ==
  state' = [state EXCEPT ![t] =
              IF @ \in {"interruptible", "uninterruptible"} THEN "running" ELSE @]

-----------------------------------------------------------------------------
(* Mutated forms of the operators that follow, for showing that a property    *)
(* depends on them; no action uses one.                                      *)

\* The loop of mod_exit is off by one.
LastStopped_OffByOne(i) == i + 1 >= N

\* mod_exit does not wait for the callback, as with hrtimer_try_to_cancel.
CallbackIdle_NotAwaited == waking \in 0..N

\* The thread calls schedule without set_current_state.
MarkAs_Running(t) == t \in Threads /\ UNCHANGED state

\* The thread does not look at its stop flag.
kthread_should_stop_Ignored(t) == t \notin Threads

-----------------------------------------------------------------------------
LastWoken(i) == i = N
LastStopped(i) == i = N
CallbackIdle == waking = 0
MarkAs(t) == state' = [state EXCEPT ![t] = "interruptible"]
kthread_should_stop(t) == stop[t]

Init ==
  /\ ctl = "create"
  /\ index = 1
  /\ arr_threads = [t \in Threads |-> "null"]
  /\ armed = FALSE
  /\ waking = 0
  /\ ticks = 0
  /\ tpc   = [t \in Threads |-> "none"]
  /\ state = [t \in Threads |-> "none"]
  /\ stop  = [t \in Threads |-> FALSE]
  /\ iters = [t \in Threads |-> 0]

-----------------------------------------------------------------------------
(* mod_init *)

\* The end of one round of a loop that goes on at `here' and leaves to `after'.
Round(last, here, after) ==
  \/ last /\ ctl' = after /\ index' = 1
  \/ ~last /\ ctl' = here /\ index' = index + 1

\* A new thread waits uninterruptibly in its wrapper for its first wake-up.
kthread_create ==
  /\ ctl = "create"
  /\ arr_threads' = [arr_threads EXCEPT ![index] = "task"]
  /\ tpc'   = [tpc   EXCEPT ![index] = "created"]
  /\ state' = [state EXCEPT ![index] = "uninterruptible"]
  /\ ctl' = "bind"
  /\ UNCHANGED <<index, timerVars, stop, iters>>

CreateError ==
  /\ ctl = "create"
  /\ CreateFails
  /\ arr_threads' = [arr_threads EXCEPT ![index] = "error"]
  /\ Round(index = N, "create", "start")
  /\ UNCHANGED <<timerVars, threadVars>>

\* kthread_bind touches nothing the other parties read.
BindAndWake ==
  /\ ctl = "bind"
  /\ wake_up_process(index)
  /\ Round(index = N, "create", "start")
  /\ UNCHANGED <<arr_threads, timerVars, tpc, stop, iters>>

hrtimer_start ==
  /\ ctl = "start"
  /\ armed' = TRUE
  /\ ctl' = "loaded"
  /\ UNCHANGED <<index, arr_threads, waking, ticks, threadVars>>

-----------------------------------------------------------------------------
(* timer_expire, in an interrupt *)

Expire ==
  /\ ctl # "crashed"
  /\ armed
  /\ ticks < MaxTicks
  /\ armed' = FALSE
  /\ waking' = 1
  /\ ticks' = ticks + 1
  /\ UNCHANGED <<ctlVars, threadVars>>

\* One round of the loop; the last one forwards the timer and has it restarted.
WakeNext ==
  /\ ctl # "crashed"
  /\ waking # 0
  /\ arr_threads[waking] = "task"
  /\ wake_up_process(waking)
  /\ \/ LastWoken(waking) /\ waking' = 0 /\ armed' = TRUE
     \/ ~LastWoken(waking) /\ waking' = waking + 1 /\ UNCHANGED armed
  /\ UNCHANGED <<ctlVars, ticks, tpc, stop, iters>>

\* The pointer of a thread that could not be created is not tested.
WakeError ==
  /\ ctl # "crashed"
  /\ waking # 0
  /\ arr_threads[waking] = "error"
  /\ ctl' = "crashed"
  /\ UNCHANGED <<index, arr_threads, timerVars, threadVars>>

-----------------------------------------------------------------------------
(* mod_exit *)

mod_exit ==
  /\ ctl = "loaded"
  /\ ctl' = "cancel"
  /\ UNCHANGED <<index, arr_threads, timerVars, threadVars>>

\* hrtimer_cancel waits for a running callback.
hrtimer_cancel ==
  /\ ctl = "cancel"
  /\ CallbackIdle
  /\ armed' = FALSE
  /\ ctl' = "stop"
  /\ UNCHANGED <<index, arr_threads, waking, ticks, threadVars>>

\* kthread_stop sets the flag, wakes the thread and waits for its end.
StopFlag ==
  /\ ctl = "stop"
  /\ arr_threads[index] = "task"
  /\ stop' = [stop EXCEPT ![index] = TRUE]
  /\ ctl' = "stopwake"
  /\ UNCHANGED <<index, arr_threads, timerVars, tpc, state, iters>>

StopError ==
  /\ ctl = "stop"
  /\ arr_threads[index] = "error"
  /\ ctl' = "crashed"
  /\ UNCHANGED <<index, arr_threads, timerVars, threadVars>>

StopWake ==
  /\ ctl = "stopwake"
  /\ wake_up_process(index)
  /\ ctl' = "join"
  /\ UNCHANGED <<index, arr_threads, timerVars, tpc, stop, iters>>

\* The thread has ended; its task is released.
Join ==
  /\ ctl = "join"
  /\ tpc[index] = "done"
  /\ tpc' = [tpc EXCEPT ![index] = "freed"]
  /\ Round(LastStopped(index), "stop", "removed")
  /\ UNCHANGED <<arr_threads, timerVars, state, stop, iters>>

-----------------------------------------------------------------------------
(* A thread.  Its wrapper does not call spawn_func when the thread was stopped  *)
(* before it ran.                                                            *)

\* A step of thread t; after a crash nothing runs.
Step(t, l) ==
  /\ ctl # "crashed"
  /\ tpc' = [tpc EXCEPT ![t] = l]

\* The thread ends: do_exit.
End(t) ==
  /\ Step(t, "done")
  /\ state' = [state EXCEPT ![t] = "dead"]

Start(t) ==
  /\ tpc[t] = "created"
  /\ state[t] = "running"
  /\ \/ stop[t] /\ End(t)
     \/ ~stop[t] /\ Step(t, "body") /\ UNCHANGED state
  /\ UNCHANGED <<ctlVars, timerVars, stop, iters>>

CountIter(t) ==
  /\ tpc[t] = "body"
  /\ iters' = [iters EXCEPT ![t] = @ + 1]
  /\ Step(t, "mark")
  /\ UNCHANGED <<ctlVars, timerVars, state, stop>>

set_current_state(t) ==
  /\ tpc[t] = "mark"
  /\ MarkAs(t)
  /\ Step(t, "schedule")
  /\ UNCHANGED <<ctlVars, timerVars, stop, iters>>

\* schedule returns once the task is in state running again.
schedule(t) ==
  /\ tpc[t] = "schedule"
  /\ state[t] = "running"
  /\ Step(t, "check")
  /\ UNCHANGED <<ctlVars, timerVars, state, stop, iters>>

Check(t) ==
  /\ tpc[t] = "check"
  /\ \/ kthread_should_stop(t) /\ End(t)
     \/ ~kthread_should_stop(t) /\ Step(t, "body") /\ UNCHANGED state
  /\ UNCHANGED <<ctlVars, timerVars, stop, iters>>

-----------------------------------------------------------------------------
spawn_func(t) ==
  Start(t) \/ CountIter(t) \/ set_current_state(t) \/ schedule(t) \/ Check(t)

timer_expire == WakeNext \/ WakeError

mod_init == kthread_create \/ CreateError \/ BindAndWake \/ hrtimer_start

Unload == hrtimer_cancel \/ StopFlag \/ StopError \/ StopWake \/ Join

\* The machine has crashed, or the module is removed: it has nothing left to run.
Stopped == ctl \in {"crashed", "removed"} /\ UNCHANGED vars

Next ==
  \/ mod_init \/ Expire \/ timer_expire \/ mod_exit \/ Unload
  \/ \E t \in Threads : spawn_func(t)
  \/ Stopped

Spec == Init /\ [][Next]_vars

\* The scheduler runs every runnable thread and the process of insmod or rmmod,
\* and an interrupt runs to its end.  Nobody has to remove the module.
FairSpec ==
  /\ Spec
  /\ WF_vars(mod_init) /\ WF_vars(timer_expire) /\ WF_vars(Unload)
  /\ \A t \in Threads : WF_vars(spawn_func(t))

-----------------------------------------------------------------------------
TypeOK ==
  /\ ctl \in {"create", "bind", "start", "loaded", "cancel", "stop", "stopwake",
              "join", "removed", "crashed"}
  /\ index \in Threads
  /\ arr_threads \in [Threads -> {"null", "task", "error"}]
  /\ armed \in BOOLEAN
  /\ waking \in Threads \cup {0}
  /\ ticks \in 0..MaxTicks
  /\ tpc \in [Threads -> {"none", "created", "body", "mark", "schedule", "check",
                          "done", "freed"}]
  /\ state \in [Threads -> {"none", "running", "interruptible", "uninterruptible",
                            "dead"}]
  /\ stop \in [Threads -> BOOLEAN]
  /\ iters \in [Threads -> Nat]

\* timer_expire never wakes a task that mod_exit has already released: the
\* timer is neither queued nor running from the first kthread_stop on.
TimerSafe ==
  armed \/ waking # 0 => \A t \in Threads : tpc[t] # "freed"

\* A thread counts at most once per expiration, after the first time: a wake-up
\* is never taken twice, whatever state it finds the thread in.
ItersBounded == \A t \in Threads : iters[t] <= ticks + 1

\* When the module's memory goes, none of its threads is left that could run in
\* it and neither is the timer.
ThreadsGone ==
  ctl = "removed" =>
    ~armed /\ waking = 0 /\ \A t \in Threads : tpc[t] = "freed"

\* A thread that is stopped before its check, or while it sleeps, ends, unless
\* the machine crashes on the error pointer of another.
Reached(t) ==
  /\ stop[t]
  /\ \/ tpc[t] = "check"
     \/ tpc[t] = "schedule" /\ (state[t] = "running" \/ ctl = "stopwake")
StopHeard ==
  \A t \in Threads :
    Reached(t) ~> tpc[t] \in {"done", "freed"} \/ ctl = "crashed"

\* mod_exit stops the threads and comes to its end.
UnloadCompletes == ctl = "cancel" ~> ctl = "removed"
=============================================================================
