------------------------ MODULE RecurringTimerProofs ------------------------
(***************************************************************************)
(* Proofs about RecurringTimer, for every number of threads and of timer    *)
(* expirations.                                                            *)
(***************************************************************************)
EXTENDS RecurringTimer, TLAPS

\* What mod_init and mod_exit have done with the threads so far.
CtlInv ==
  /\ ctl \in {"create", "bind"} => \A t \in Threads : t > index => tpc[t] = "none"
  /\ ctl = "create" => tpc[index] = "none"
  /\ ctl = "bind" => tpc[index] = "created" /\ state[index] = "uninterruptible"
  /\ ctl \in {"start", "loaded", "cancel"} => index = 1
  /\ (\E t \in Threads : tpc[t] = "freed") =>
       ctl \in {"stop", "stopwake", "join", "removed", "crashed"}
  /\ ctl \in {"stop", "stopwake", "join"} =>
       \A t \in Threads : t < index => tpc[t] = "freed"
  /\ ctl = "removed" => \A t \in Threads : tpc[t] = "freed"
  /\ ctl \in {"stopwake", "join"} => stop[index]

\* When the timer can be active.
TimerInv ==
  /\ armed \/ waking # 0 => ctl \in {"loaded", "cancel", "crashed"}
  /\ armed \/ waking # 0 => \A t \in Threads : tpc[t] # "freed"
  /\ waking # 0 => ticks # 0 /\ ~armed

\* The expirations that have reached thread t.
Woken(t) == IF waking # 0 /\ waking <= t THEN ticks - 1 ELSE ticks

\* The rounds thread t has counted and may still count.
IterInv ==
  \A t \in Threads :
    /\ iters[t] <= Woken(t) + 1
    /\ tpc[t] \in {"none", "created"} => iters[t] = 0
    /\ tpc[t] = "body" => iters[t] <= Woken(t)
    /\ tpc[t] = "schedule" => state[t] \in {"interruptible", "running"}
    /\ tpc[t] = "check" \/ (tpc[t] = "schedule" /\ state[t] = "running") =>
         iters[t] <= Woken(t) \/ stop[t]

IInv == TypeOK /\ CtlInv /\ TimerInv /\ IterInv

USE DEF Threads

\* Names of single assignments and tests of mt_recurring_timer.c.
USE DEF LastWoken, LastStopped, CallbackIdle, MarkAs, kthread_should_stop

USE DEF ctlVars, timerVars, threadVars

-----------------------------------------------------------------------------
\* What the assumption on the constants gives.
LEMMA ConstFacts ==
  /\ N \in Nat /\ MaxTicks \in Nat /\ 1 <= N
  /\ 1 \in Threads /\ N \in Threads /\ 0 \notin Threads /\ Threads \subseteq Nat
  /\ 0 \in 0..MaxTicks
  BY TimerAssumption

\* Before mod_init creates its first thread.
LEMMA InitIInv == Init => IInv
<1> SUFFICES ASSUME Init PROVE IInv
  OBVIOUS
<1>1. TypeOK
  BY ConstFacts DEF Init, TypeOK
<1>2. CtlInv /\ TimerInv
  BY ConstFacts DEF Init, CtlInv, TimerInv
<1>3. IterInv
  BY DEF Init, IterInv, Woken
<1> QED
  BY <1>1, <1>2, <1>3 DEF IInv

\* Every step keeps the types: no loop index leaves arr_threads.
LEMMA TypeStep ==
  ASSUME IInv, Next
  PROVE  TypeOK'
<1> USE ConstFacts
<1> TypeOK /\ TimerInv
  BY DEF IInv
<1>1. CASE kthread_create
  BY <1>1 DEF kthread_create, TypeOK
<1>2. CASE CreateError
  BY <1>2 DEF CreateError, Round, TypeOK
<1>3. CASE BindAndWake
  BY <1>3 DEF BindAndWake, Round, wake_up_process, TypeOK
<1>4. CASE hrtimer_start
  BY <1>4 DEF hrtimer_start, TypeOK
<1>5. CASE Expire
  <2>1. ticks' \in 0..MaxTicks
    BY <1>5 DEF Expire, TypeOK
  <2> QED
    BY <1>5, <2>1 DEF Expire, TypeOK
<1>6. CASE WakeNext
  <2>1. waking' \in Threads \cup {0} /\ armed' \in BOOLEAN
    <3>1. waking \in 1..N
      BY <1>6 DEF WakeNext, TypeOK
    <3>2. CASE waking = N
      BY <1>6, <3>2 DEF WakeNext, TypeOK
    <3>3. CASE waking # N
      BY <1>6, <3>1, <3>3 DEF WakeNext, TypeOK
    <3> QED
      BY <3>2, <3>3
  <2>2. state' \in [Threads -> {"none", "running", "interruptible", "uninterruptible",
                               "dead"}]
    BY <1>6 DEF WakeNext, wake_up_process, TypeOK
  <2> QED
    BY <1>6, <2>1, <2>2 DEF WakeNext, TypeOK
<1>7. CASE WakeError
  BY <1>7 DEF WakeError, TypeOK
<1>8. CASE mod_exit \/ hrtimer_cancel
  BY <1>8 DEF mod_exit, hrtimer_cancel, TypeOK
<1>9. CASE StopFlag \/ StopError
  BY <1>9 DEF StopFlag, StopError, TypeOK
<1>10. CASE StopWake
  BY <1>10 DEF StopWake, wake_up_process, TypeOK
<1>11. CASE Join
  BY <1>11 DEF Join, Round, TypeOK
<1>12. ASSUME NEW t \in Threads, Start(t) \/ Check(t) PROVE TypeOK'
  <2>1. tpc' \in [Threads -> {"none", "created", "body", "mark", "schedule", "check",
                             "done", "freed"}]
    BY <1>12 DEF Start, Check, End, Step, TypeOK
  <2>2. state' \in [Threads -> {"none", "running", "interruptible", "uninterruptible",
                               "dead"}]
    BY <1>12 DEF Start, Check, End, TypeOK
  <2> QED
    BY <1>12, <2>1, <2>2 DEF Start, Check, TypeOK
<1>13. ASSUME NEW t \in Threads, CountIter(t) PROVE TypeOK'
  BY <1>13 DEF CountIter, Step, TypeOK
<1>14. ASSUME NEW t \in Threads, set_current_state(t) \/ schedule(t) PROVE TypeOK'
  BY <1>14 DEF set_current_state, schedule, Step, TypeOK
<1>15. CASE Stopped
  BY <1>15 DEF Stopped, vars, TypeOK
<1> QED
  BY <1>1, <1>2, <1>3, <1>4, <1>5, <1>6, <1>7, <1>8, <1>9, <1>10, <1>11, <1>12, <1>13,
     <1>14, <1>15
  DEF Next, mod_init, timer_expire, Unload, spawn_func

\* The loops of mod_init and mod_exit stay where they say they are, and the
\* timer is only active in between.
LEMMA CtlStep ==
  ASSUME IInv, Next
  PROVE  CtlInv' /\ TimerInv'
<1> USE ConstFacts
<1> TypeOK /\ CtlInv /\ TimerInv
  BY DEF IInv
<1>1. CASE kthread_create
  BY <1>1 DEF kthread_create, TypeOK, CtlInv, TimerInv
<1>2. CASE CreateError
  BY <1>2 DEF CreateError, Round, TypeOK, CtlInv, TimerInv
<1>3. CASE BindAndWake
  BY <1>3 DEF BindAndWake, Round, TypeOK, CtlInv, TimerInv
<1>4. CASE hrtimer_start
  BY <1>4 DEF hrtimer_start, TypeOK, CtlInv, TimerInv
<1>5. CASE Expire
  BY <1>5 DEF Expire, TypeOK, CtlInv, TimerInv
<1>6. CASE WakeNext
  BY <1>6 DEF WakeNext, TypeOK, CtlInv, TimerInv
<1>7. CASE WakeError
  BY <1>7 DEF WakeError, TypeOK, CtlInv, TimerInv
<1>8. CASE mod_exit \/ hrtimer_cancel
  BY <1>8 DEF mod_exit, hrtimer_cancel, TypeOK, CtlInv, TimerInv
<1>9. CASE StopFlag \/ StopError
  BY <1>9 DEF StopFlag, StopError, TypeOK, CtlInv, TimerInv
<1>10. CASE StopWake
  BY <1>10 DEF StopWake, TypeOK, CtlInv, TimerInv
<1>11. CASE Join
  BY <1>11 DEF Join, Round, TypeOK, CtlInv, TimerInv
<1>12. ASSUME NEW t \in Threads, NEW l \in {"body", "mark", "schedule", "check", "done"},
              tpc[t] \notin {"none", "freed"}, Step(t, l), UNCHANGED <<ctlVars, timerVars, stop>>,
              ctl = "bind" => t # index, \A u \in Threads \ {t} : state'[u] = state[u]
       PROVE  CtlInv' /\ TimerInv'
  <2>1. ctl = "create" => t # index
    BY <1>12 DEF CtlInv
  <2> QED
    BY <1>12, <2>1 DEF Step, TypeOK, CtlInv, TimerInv
<1>13. CASE Stopped
  BY <1>13 DEF Stopped, vars, CtlInv, TimerInv
<1>14. ASSUME NEW t \in Threads, spawn_func(t) PROVE CtlInv' /\ TimerInv'
  <2>1. ctl = "bind" => t # index
    BY <1>14 DEF CtlInv, spawn_func, Start, CountIter, set_current_state, schedule, Check
  <2>2. tpc[t] \in {"created", "body", "mark", "schedule", "check"}
        /\ UNCHANGED <<ctlVars, timerVars, stop>>
    BY <1>14 DEF spawn_func, Start, CountIter, set_current_state, schedule, Check
  <2>3. \E l \in {"body", "mark", "schedule", "check", "done"} : Step(t, l)
    <3>1. CASE Start(t) \/ Check(t)
      BY <3>1 DEF Start, Check, End
    <3>2. CASE CountIter(t) \/ set_current_state(t) \/ schedule(t)
      BY <3>2 DEF CountIter, set_current_state, schedule
    <3> QED
      BY <1>14, <3>1, <3>2 DEF spawn_func
  <2>4. \A u \in Threads \ {t} : state'[u] = state[u]
    <3>1. CASE Start(t) \/ Check(t)
      BY <3>1 DEF Start, Check, End, TypeOK
    <3>2. CASE CountIter(t) \/ set_current_state(t) \/ schedule(t)
      BY <3>2 DEF CountIter, set_current_state, schedule, TypeOK
    <3> QED
      BY <1>14, <3>1, <3>2 DEF spawn_func
  <2> QED
    BY <1>12, <2>1, <2>2, <2>3, <2>4
<1> QED
  BY <1>1, <1>2, <1>3, <1>4, <1>5, <1>6, <1>7, <1>8, <1>9, <1>10, <1>11, <1>13, <1>14
  DEF Next, mod_init, timer_expire, Unload

\* No thread counts a round it was not woken for.
LEMMA IterStep ==
  ASSUME IInv, Next
  PROVE  IterInv'
<1> USE ConstFacts
<1> TypeOK /\ CtlInv /\ TimerInv /\ IterInv
  BY DEF IInv
<1>1. CASE kthread_create
  BY <1>1 DEF kthread_create, TypeOK, CtlInv, IterInv, Woken
<1>2. CASE CreateError
  BY <1>2 DEF CreateError, IterInv, Woken
<1>3. CASE BindAndWake
  BY <1>3 DEF BindAndWake, wake_up_process, TypeOK, CtlInv, IterInv, Woken
<1>4. CASE hrtimer_start
  BY <1>4 DEF hrtimer_start, IterInv, Woken
<1>5. CASE Expire
  <2>1. \A t \in Threads : Woken(t)' = Woken(t)
    BY <1>5 DEF Expire, TypeOK, TimerInv, Woken
  <2> QED
    BY <1>5, <2>1 DEF Expire, IterInv
<1>6. CASE WakeNext
  <2>1. \A t \in Threads : Woken(t)' = IF t = waking THEN Woken(t) + 1 ELSE Woken(t)
    BY <1>6 DEF WakeNext, TypeOK, TimerInv, Woken
  <2>2. \A t \in Threads : Woken(t) \in Int /\ iters[t] \in Int
    BY DEF Woken, TypeOK
  <2>3. UNCHANGED <<tpc, stop, iters>> /\ wake_up_process(waking) /\ waking \in Threads
    BY <1>6 DEF WakeNext, TypeOK
  <2> SUFFICES ASSUME NEW t \in Threads
               PROVE  /\ iters[t] <= Woken(t)' + 1
                      /\ tpc[t] \in {"none", "created"} => iters[t] = 0
                      /\ tpc[t] = "body" => iters[t] <= Woken(t)'
                      /\ tpc[t] = "schedule" => state'[t] \in {"interruptible", "running"}
                      /\ tpc[t] = "check" \/ (tpc[t] = "schedule" /\ state'[t] = "running")
                           => iters[t] <= Woken(t)' \/ stop[t]
    BY <2>3 DEF IterInv
  <2>4. CASE t = waking
    BY <2>1, <2>2, <2>3, <2>4 DEF wake_up_process, TypeOK, IterInv
  <2>5. CASE t # waking
    <3>1. state'[t] = state[t] /\ Woken(t)' = Woken(t)
      BY <2>1, <2>3, <2>5 DEF wake_up_process, TypeOK
    <3> QED
      BY <3>1 DEF IterInv
  <2> QED
    BY <2>4, <2>5
<1>7. CASE WakeError
  BY <1>7 DEF WakeError, IterInv, Woken
<1>8. CASE mod_exit \/ hrtimer_cancel
  BY <1>8 DEF mod_exit, hrtimer_cancel, IterInv, Woken
<1>9. CASE StopFlag \/ StopError
  BY <1>9 DEF StopFlag, StopError, TypeOK, IterInv, Woken
<1>10. CASE StopWake
  BY <1>10 DEF StopWake, wake_up_process, TypeOK, CtlInv, IterInv, Woken
<1>11. CASE Join
  BY <1>11 DEF Join, TypeOK, IterInv, Woken
<1>12. ASSUME NEW t \in Threads, Start(t) \/ Check(t) PROVE IterInv'
  <2>1. Woken(t) \in Int /\ Woken(t) >= 0
    BY DEF Woken, TypeOK, TimerInv
  <2>2. \A u \in Threads : Woken(u)' = Woken(u)
    BY <1>12 DEF Start, Check, Woken
  <2>3. UNCHANGED <<stop, iters>>
    BY <1>12 DEF Start, Check
  <2>4. CASE Step(t, "body") /\ state' = state
    <3>1. iters[t] <= Woken(t)
      BY <1>12, <2>1, <2>4 DEF Start, Check, IterInv, Step, End, TypeOK
    <3> QED
      BY <2>2, <2>3, <2>4, <3>1 DEF Step, TypeOK, IterInv
  <2>5. CASE End(t)
    BY <2>2, <2>3, <2>5 DEF End, Step, TypeOK, IterInv
  <2> QED
    BY <1>12, <2>4, <2>5 DEF Start, Check
<1>13. ASSUME NEW t \in Threads, CountIter(t) PROVE IterInv'
  <2>1. \A u \in Threads : Woken(u)' = Woken(u) /\ Woken(u) \in Int
    BY <1>13 DEF CountIter, Woken, TypeOK
  <2> QED
    BY <1>13, <2>1, SMTT(30) DEF CountIter, Step, TypeOK, IterInv
<1>14. ASSUME NEW t \in Threads, set_current_state(t) \/ schedule(t) PROVE IterInv'
  <2>1. \A u \in Threads : Woken(u)' = Woken(u)
    BY <1>14 DEF set_current_state, schedule, Woken
  <2> QED
    BY <1>14, <2>1 DEF set_current_state, schedule, Step, TypeOK, IterInv
<1>15. CASE Stopped
  BY <1>15 DEF Stopped, vars, IterInv, Woken
<1> QED
  BY <1>1, <1>2, <1>3, <1>4, <1>5, <1>6, <1>7, <1>8, <1>9, <1>10, <1>11, <1>12, <1>13,
     <1>14, <1>15
  DEF Next, mod_init, timer_expire, Unload, spawn_func

-----------------------------------------------------------------------------
(* The theorems *)

\* The inductive invariant the others follow from.
THEOREM Inductive == Spec => []IInv
<1>1. Init => IInv
  BY InitIInv
<1>2. IInv /\ [Next]_vars => IInv'
  <2> SUFFICES ASSUME IInv, [Next]_vars PROVE IInv'
    OBVIOUS
  <2>1. CASE Next
    BY <2>1, TypeStep, CtlStep, IterStep DEF IInv
  <2>2. CASE UNCHANGED vars
    BY <2>2 DEF vars, IInv, TypeOK, CtlInv, TimerInv, IterInv, Woken
  <2> QED
    BY <2>1, <2>2
<1> QED
  BY <1>1, <1>2, PTL DEF Spec

\* Every variable keeps its type; the loop of timer_expire stays in arr_threads.
THEOREM TypeCorrect == Spec => []TypeOK
<1>1. IInv => TypeOK
  BY DEF IInv
<1> QED
  BY <1>1, Inductive, PTL

\* timer_expire never wakes a released task: mod_exit cancels the timer first.
THEOREM TimerIsSafe == Spec => []TimerSafe
<1>1. IInv => TimerSafe
  BY DEF IInv, TimerInv, TimerSafe
<1> QED
  BY <1>1, Inductive, PTL

\* A thread of spawn_func counts at most one round per expiration after its
\* first, for any number of threads and whatever wake-ups mod_exit adds.
THEOREM ItersAreBounded == Spec => []ItersBounded
<1>1. IInv => ItersBounded
  <2> SUFFICES ASSUME IInv, NEW t \in Threads PROVE iters[t] <= ticks + 1
    BY DEF ItersBounded
  <2>1. iters[t] <= Woken(t) + 1 /\ iters[t] \in Nat /\ ticks \in Nat
    BY ConstFacts DEF IInv, IterInv, TypeOK
  <2>2. Woken(t) \in {ticks, ticks - 1}
    BY DEF Woken
  <2> QED
    BY <2>1, <2>2
<1> QED
  BY <1>1, Inductive, PTL

\* A removed module leaves neither a thread nor the timer behind.
THEOREM ThreadsAreGone == Spec => []ThreadsGone
<1>1. IInv => ThreadsGone
  BY ConstFacts DEF IInv, CtlInv, TimerInv, ThreadsGone, TypeOK
<1> QED
  BY <1>1, Inductive, PTL
=============================================================================
