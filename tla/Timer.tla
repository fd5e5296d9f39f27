------------------------------- MODULE Timer -------------------------------
(***************************************************************************)
(* src/src/task/timer.rs: the timer interrupt, the task timer_loop that    *)
(* turns ticks into decrements of every running sleep, and the tasks that  *)
(* use sleep_for.                                                          *)
(*                                                                         *)
(* A Sleep has a fresh id, and a task awaits one Sleep at a time, so the   *)
(* entry of TIMER_TASKS_MANAGER is indexed here by the task that owns it.  *)
(* Handlers never touch that map, so its spin lock is never contended and  *)
(* is left out.  timer_loop adds these places to pc:                       *)
(*   register     the first compare_exchange of poll_next failed           *)
(*   registering  inside WAKER.register                                    *)
(*   recheck      about to do the second compare_exchange                  *)
(*   take         it succeeded, WAKER.take() is next                       *)
(*   decrement    inside decrement_all                                     *)
(***************************************************************************)
EXTENDS Executor, Integers

CONSTANTS TimerTask,    \* the task running timer_loop
          Sleeper,      \* the tasks that await sleep_for
          Durations,    \* the arguments of sleep_for, in milliseconds
          Rounds        \* how many times each of them sleeps, Forever if it
                        \* never ends

Forever == -1
NoSleep == -1

TIMER_FREQUENCY == 250

\* Sleep::new: milliseconds to ticks
TicksFor(ms) ==
  LET msec_freq == 1000 \div TIMER_FREQUENCY
  IN  IF ms < msec_freq THEN 1 ELSE ms \div msec_freq

ASSUME TimerAssumption ==
  /\ TimerTask \in Task
  /\ Sleeper \subseteq Task \ {TimerTask}
  /\ Durations \subseteq Nat
  /\ Rounds \in [Sleeper -> Nat \cup {Forever}]

VARIABLES timer_flag,   \* TIMER_FLAG: "uninit", "clear" or "raised"
          timer_waker,  \* the static WAKER
          ticks,        \* TIMER_TASKS_MANAGER: ticks left, NoSleep if absent
          armed,        \* the sleepers whose entry holds a waker
          todo,         \* the entries decrement_all has yet to visit
          left,         \* how many more times a sleeper will sleep
          owed          \* history: the ticks of the sleep less the timer
                        \* interrupts since it began (not below 0)

timerVars == <<timer_flag, timer_waker, ticks, armed, todo, left, owed>>

TimerTypeOK ==
  /\ timer_flag \in {"uninit", "clear", "raised"}
  /\ timer_waker \in Cell({TimerTask})
  /\ ticks \in [Sleeper -> Nat \cup {NoSleep}]
  /\ armed \subseteq Sleeper
  /\ todo \subseteq Sleeper
  /\ left \in [Sleeper -> Nat \cup {Forever}]
  /\ owed \in [Sleeper -> Nat]

TimerInit ==
  /\ timer_flag = "uninit"
  /\ timer_waker = EmptyCell
  /\ ticks = [t \in Sleeper |-> NoSleep]
  /\ armed = {}
  /\ todo = {}
  /\ left = Rounds
  /\ owed = [t \in Sleeper |-> 0]

\* AtomicBool::compare_exchange, what it returns
CompareExchange(value, expected) ==
  <<IF value = expected THEN "Ok" ELSE "Err", value>>

----------------------------------------------------------------------------
\* raise_timer, called by the handler.  The flag is stored before it is
\* compared, and `Ok(true)` is what the comparison is held against.
RaiseTimer ==
  /\ IF timer_flag = "uninit"
     THEN /\ WakeFromHandler(None)
          /\ log' = "none"
          /\ UNCHANGED <<timer_flag, timer_waker>>
     ELSE /\ timer_flag' = "raised"
          /\ log' = IF CompareExchange("raised", "clear") = <<"Ok", "raised">>
                    THEN "timer_overrun" ELSE "none"
          /\ timer_waker' = Taken(timer_waker)
          /\ WakeFromHandler(Woken(timer_waker))
  /\ owed' = [t \in Sleeper |-> IF owed[t] > 0 THEN owed[t] - 1 ELSE 0]
  /\ UNCHANGED <<ticks, armed, todo, left>>

At(place, t) == pc = place /\ cur = t

\* Within a poll the CPU moves on and the executor's data stay as they are.
GoTo(place) ==
  /\ pc' = place
  /\ UNCHANGED <<tasks, task_queue, waker_cache, STOP, cur, intr>>

\* TimerStream::new, on the first poll of timer_loop
TimerStreamNew ==
  /\ At("poll", TimerTask)
  /\ timer_flag = "uninit"
  /\ timer_flag' = "clear"
  /\ GoTo("poll")
  /\ UNCHANGED <<timer_waker, ticks, armed, todo, left, owed>>

\* a tick was received: timer_loop locks the manager and calls decrement_all
StartDecrement ==
  /\ todo' = {t \in Sleeper : ticks[t] # NoSleep}
  /\ GoTo("decrement")

\* Mutant: the flag is loaded, not exchanged.
TimerFirstTry_KeepsFlag ==
  /\ At("poll", TimerTask)
  /\ timer_flag # "uninit"
  /\ IF timer_flag = "raised"
     THEN StartDecrement
     ELSE GoTo("register") /\ UNCHANGED todo
  /\ UNCHANGED <<timer_flag, timer_waker, ticks, armed, left, owed>>

\* poll_next: the first compare_exchange
TimerFirstTry ==
  /\ At("poll", TimerTask)
  /\ timer_flag # "uninit"
  /\ IF CompareExchange(timer_flag, "raised") = <<"Ok", "raised">>
     THEN timer_flag' = "clear" /\ StartDecrement
     ELSE GoTo("register") /\ UNCHANGED <<timer_flag, todo>>
  /\ UNCHANGED <<timer_waker, ticks, armed, left, owed>>

\* poll_next: WAKER.register, in its two steps
TimerRegister ==
  /\ At("register", TimerTask)
  /\ timer_waker' = BeginRegister(timer_waker)
  /\ GoTo("registering")
  /\ UNCHANGED <<timer_flag, ticks, armed, todo, left, owed>>

TimerRegistered ==
  /\ At("registering", TimerTask)
  /\ timer_waker' = EndRegister(timer_waker, TimerTask)
  /\ IF RegisterWakes(timer_waker)
     THEN /\ WakeTask(TimerTask, "recheck")
          /\ UNCHANGED <<tasks, waker_cache, STOP, cur, intr>>
     ELSE GoTo("recheck")
  /\ UNCHANGED <<timer_flag, ticks, armed, todo, left, owed>>

\* Mutant: Poll::Pending straight after the registration.
TimerSecondTry_Skipped ==
  /\ At("recheck", TimerTask)
  /\ ReturnPending
  /\ UNCHANGED timerVars

\* poll_next: the second compare_exchange
TimerSecondTry ==
  /\ At("recheck", TimerTask)
  /\ IF CompareExchange(timer_flag, "raised") = <<"Ok", "raised">>
     THEN timer_flag' = "clear" /\ GoTo("take")
     ELSE ReturnPending /\ UNCHANGED timer_flag
  /\ UNCHANGED <<timer_waker, ticks, armed, todo, left, owed>>

\* poll_next: WAKER.take() and Poll::Ready
TimerTake ==
  /\ At("take", TimerTask)
  /\ timer_waker' = Taken(timer_waker)
  /\ StartDecrement
  /\ UNCHANGED <<timer_flag, ticks, armed, left, owed>>

\* Mutant: wake_by_ref, the waker stays in the entry.
Decrement_KeepsWaker(t) ==
  /\ At("decrement", TimerTask)
  /\ t \in todo
  /\ todo' = todo \ {t}
  /\ LET n == IF ticks[t] > 0 THEN ticks[t] - 1 ELSE 0 IN
       /\ ticks' = [ticks EXCEPT ![t] = n]
       /\ IF n = 0 /\ t \in armed
          THEN /\ WakeTask(t, "decrement")
               /\ UNCHANGED <<tasks, waker_cache, STOP, cur, intr>>
          ELSE GoTo("decrement")
  /\ UNCHANGED <<timer_flag, timer_waker, armed, left, owed>>

\* one entry of decrement_all: the checked_sub, and the wake of an entry
\* that is at zero
Decrement(t) ==
  /\ At("decrement", TimerTask)
  /\ t \in todo
  /\ todo' = todo \ {t}
  /\ LET n == IF ticks[t] > 0 THEN ticks[t] - 1 ELSE 0 IN
       /\ ticks' = [ticks EXCEPT ![t] = n]
       /\ IF n = 0 /\ t \in armed
          THEN /\ armed' = armed \ {t}
               /\ WakeTask(t, "decrement")
               /\ UNCHANGED <<tasks, waker_cache, STOP, cur, intr>>
          ELSE UNCHANGED armed /\ GoTo("decrement")
  /\ UNCHANGED <<timer_flag, timer_waker, left, owed>>

\* decrement_all is done and timer_loop polls the stream again
DecrementDone ==
  /\ At("decrement", TimerTask)
  /\ todo = {}
  /\ GoTo("poll")
  /\ UNCHANGED timerVars

----------------------------------------------------------------------------
\* Sleep::new, at the next sleep_for of the polled task
SleepNew(t) ==
  /\ At("poll", t)
  /\ ticks[t] = NoSleep
  /\ left[t] # 0
  /\ \E ms \in Durations :
       /\ ticks' = [ticks EXCEPT ![t] = TicksFor(ms)]
       /\ owed' = [owed EXCEPT ![t] = TicksFor(ms)]
  /\ GoTo("poll")
  /\ UNCHANGED <<timer_flag, timer_waker, armed, todo, left>>

\* Sleep::poll: check_task finds the entry at zero and removes it, waker
\* and all; the task goes on behind its await.
SleepReady(t) ==
  /\ At("poll", t)
  /\ ticks[t] = 0
  /\ ticks' = [ticks EXCEPT ![t] = NoSleep]
  /\ owed' = [owed EXCEPT ![t] = 0]
  /\ armed' = armed \ {t}
  /\ left' = [left EXCEPT ![t] = IF @ = Forever THEN @ ELSE @ - 1]
  /\ GoTo("poll")
  /\ UNCHANGED <<timer_flag, timer_waker, todo>>

\* Mutant: the waker is not registered.
SleepPending_NoWaker(t) ==
  /\ At("poll", t)
  /\ ticks[t] > 0
  /\ ReturnPending
  /\ UNCHANGED timerVars

\* Sleep::poll: register_waker and Poll::Pending
SleepPending(t) ==
  /\ At("poll", t)
  /\ ticks[t] > 0
  /\ armed' = armed \cup {t}
  /\ ReturnPending
  /\ UNCHANGED <<timer_flag, timer_waker, ticks, todo, left, owed>>

\* the task has no further sleep_for and its future completes
SleeperDone(t) ==
  /\ At("poll", t)
  /\ ticks[t] = NoSleep
  /\ left[t] = 0
  /\ ReturnReady
  /\ UNCHANGED timerVars

TimerStep ==
  \/ TimerStreamNew
  \/ TimerFirstTry
  \/ TimerRegister
  \/ TimerRegistered
  \/ TimerSecondTry
  \/ TimerTake
  \/ DecrementDone
  \/ \E t \in Sleeper :
       \/ Decrement(t)
       \/ SleepNew(t)
       \/ SleepReady(t)
       \/ SleepPending(t)
       \/ SleeperDone(t)
============================================================================
