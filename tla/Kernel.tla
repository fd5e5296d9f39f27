------------------------------- MODULE Kernel -------------------------------
(***************************************************************************)
(* The running kernel: the executor, the timer and the keyboard on one CPU *)
(* (src/src/main.rs, src/src/interrupts.rs).  The CPU runs one step of the *)
(* code, or, when the interrupt flag is set, a whole interrupt handler.    *)
(*                                                                         *)
(* Interrupts come at any moment and in any number, but no more than       *)
(* MaxIrqs of them between two moments at which run_ready_tasks finds the  *)
(* queue empty: the executor is not starved by handlers.                   *)
(***************************************************************************)
EXTENDS Keyboard, FiniteSets

CONSTANT MaxIrqs

ASSUME KernelAssumption ==
  /\ MaxIrqs \in Nat \ {0}
  /\ Task = Sleeper \cup {TimerTask, KeyTask}
  /\ IsFiniteSet(Task)

VARIABLE irqs   \* interrupts since the queue was last found empty

vars == <<executorVars, timerVars, keyVars, irqs, log>>

Init ==
  /\ ExecutorInit
  /\ TimerInit
  /\ KeyboardInit
  /\ irqs = 0
  /\ log = "none"

\* one step of the code outside handlers
Thread ==
  /\ \/ ExecutorStep /\ UNCHANGED <<timerVars, keyVars>>
     \/ TimerStep /\ UNCHANGED keyVars
     \/ KeyboardStep /\ UNCHANGED timerVars
  /\ irqs' = IF pc = "pop" /\ task_queue = <<>> THEN 0 ELSE irqs
  /\ log' = "none"

\* a handler can start
Interrupt ==
  /\ intr
  /\ irqs < MaxIrqs
  /\ irqs' = irqs + 1

\* timer_interrupt_handler
TimerInterrupt ==
  /\ Interrupt
  /\ RaiseTimer
  /\ UNCHANGED keyVars

\* keyboard_interrupt_handler
KeyboardInterrupt ==
  /\ Interrupt
  /\ \E sc \in Scancode : AddScancode(sc)
  /\ UNCHANGED timerVars

\* the hlt loops of kernel_main and of the panic handler
Stopped ==
  /\ pc \in {"exit", "panic"}
  /\ UNCHANGED vars

Next ==
  \/ Thread
  \/ TimerInterrupt
  \/ KeyboardInterrupt
  \/ Stopped

Spec == Init /\ [][Next]_vars

\* The CPU keeps executing when no handler runs, and the local APIC keeps a
\* timer interrupt pending while the interrupt flag is clear, so one that can
\* be delivered again and again is delivered.
FairSpec == Spec /\ WF_vars(Thread) /\ SF_vars(TimerInterrupt)

----------------------------------------------------------------------------
\* Every variable has its type, and both queues stay within their capacity.
TypeOK ==
  /\ ExecutorTypeOK
  /\ TimerTypeOK
  /\ KeyboardTypeOK
  /\ irqs \in 0 .. MaxIrqs
  /\ log \in {"none", "timer_overrun", "scancode_queue_full",
              "scancode_queue_uninitialized"}

InQueue(t) == \E i \in 1 .. Len(task_queue) : task_queue[i] = t

QueuedOnce(t) ==
  \A i, j \in 1 .. Len(task_queue) :
    task_queue[i] = t /\ task_queue[j] = t => i = j

\* No wake-up is lost: a task that is not being polled either is in the task
\* queue, or has nothing to do and its waker is where the interrupt handler
\* (for the streams of timer.rs and keyboard.rs) or decrement_all (for a
\* Sleep) will find it.
NoLostWakeup ==
  pc # "panic" =>
    /\ timer_flag # "uninit" /\ cur # TimerTask =>
         \/ InQueue(TimerTask)
         \/ timer_flag = "clear" /\ timer_waker.waker = TimerTask
    /\ key_ready /\ cur # KeyTask =>
         \/ InQueue(KeyTask)
         \/ scancode_queue = <<>> /\ key_waker.waker = KeyTask
    /\ \A t \in Sleeper : ticks[t] # NoSleep /\ cur # t =>
         \/ InQueue(t)
         \/ ticks[t] > 0 /\ t \in armed

\* sleep_if_idle halts the CPU only when no task can run: the queue is empty,
\* no tick and no scancode waits to be consumed, and every sleep has ticks to
\* go.  (cli before is_empty, and "sti; hlt" back to back, are what it takes.)
HaltOnlyWhenIdle ==
  pc = "hlt" =>
    /\ task_queue = <<>>
    /\ timer_flag # "raised"
    /\ scancode_queue = <<>>
    /\ \A t \in Sleeper : ticks[t] # 0

\* Wakers do not outlive their task: whatever waits in task_queue or in a
\* waker cell belongs to a task that is still in Executor.tasks (so the
\* `None => continue` of run_ready_tasks is never taken), and its TaskWaker
\* is also held by waker_cache (so a handler that drops a waker never drops
\* the last reference: raise_timer and add_scancode "must not block or
\* allocate").
WakersBelongToLiveTasks ==
  /\ \A t \in Task : InQueue(t) => t \in tasks
  /\ armed \cup ({timer_waker.waker, key_waker.waker} \ {None})
       \subseteq tasks \cap waker_cache

\* task_queue never overflows: it holds at most one entry per task, and one
\* more for each interrupt since it was last empty.  Duplicate entries come
\* from a handler that runs between WAKER.register and the second try.
QueueBound == Len(task_queue) <= Cardinality(Task) + irqs

\* No `expect` on a full task_queue fails when the queue has room for every
\* task and for MaxIrqs interrupts.
NoPanic == Cardinality(Task) + MaxIrqs <= QueueCap => pc # "panic"

\* A sleep does not end early: when its entry reaches zero, at most one of
\* the timer interrupts it was registered for is still to come (the one that
\* was pending in TIMER_FLAG when Sleep::new ran was counted).
SleepNotEarly == \A t \in Sleeper : ticks[t] = 0 => owed[t] <= 1

----------------------------------------------------------------------------
(***************************************************************************)
(* The inductive invariant behind NoLostWakeup and its companions.         *)
(***************************************************************************)

\* Outside a poll no task is current, and each place inside a poll belongs
\* to the tasks whose code it is in; a scancode in hand is a scancode.
PlaceInv ==
  /\ pc \in {"spawn", "while", "pop", "cli", "is_empty", "sti_hlt", "sti",
             "hlt", "exit"} => cur = None
  /\ pc \in {"register", "registering", "recheck", "take"} =>
       cur \in {TimerTask, KeyTask}
  /\ pc = "decrement" => cur = TimerTask
  /\ pc = "key" => cur = KeyTask
  /\ pc = "key" \/ (pc = "take" /\ cur = KeyTask) => key \in Scancode

\* A task has its wakers only while it is live, and a sleeper has exactly one
\* of: an entry in the queue, a registered waker, the CPU.
TokenInv ==
  /\ \A t \in Task : InQueue(t) => t \in tasks
  /\ cur # None => cur \in tasks \cap waker_cache
  /\ timer_waker.waker # None => TimerTask \in tasks \cap waker_cache
  /\ key_waker.waker # None => KeyTask \in tasks \cap waker_cache
  /\ armed \subseteq tasks \cap waker_cache
  /\ \A t \in Sleeper :
       /\ t \in armed => ~InQueue(t) /\ cur # t
       /\ cur = t => ~InQueue(t)
       /\ QueuedOnce(t)

\* Interrupts are disabled just where sleep_if_idle disables them, and the
\* queue it found empty stays empty until hlt.
CpuInv ==
  /\ intr <=> pc \notin {"is_empty", "sti_hlt", "sti"}
  /\ pc \in {"sti_hlt", "hlt"} => task_queue = <<>>

\* poll_next of a stream of task t with cell: a handler that comes during the
\* registration, or after it, leaves something to find for the second try;
\* so the task is never suspended with something pending and no entry in the
\* queue.
StreamInv(t, cell, pending, ready) ==
  /\ cell.state # Waiting <=> pc = "registering" /\ cur = t
  /\ cell.state = RegisteringWaking => pending
  /\ pc = "recheck" /\ cur = t => pending \/ cell.waker = t
  /\ pending => ready
  /\ ready => t \in tasks
  /\ ready /\ cur # t => InQueue(t) \/ (~pending /\ cell.waker = t)

TimerStreamInv == StreamInv(TimerTask, timer_waker, timer_flag = "raised",
                            timer_flag # "uninit")

KeyStreamInv == StreamInv(KeyTask, key_waker, scancode_queue # <<>>, key_ready)

\* A Sleep that decrement_all has yet to bring to zero is owned by a live task,
\* and by one that will be polled again.
SleepInv ==
  \A t \in Sleeper : ticks[t] # NoSleep =>
    /\ t \in tasks
    /\ cur # t => InQueue(t) \/ (ticks[t] > 0 /\ t \in armed)

WakeInv ==
  pc # "panic" => CpuInv /\ TimerStreamInv /\ KeyStreamInv /\ SleepInv

\* decrement_all visits entries that exist, and is over when timer_loop goes on.
TodoInv ==
  /\ todo # {} => pc \in {"decrement", "panic"}
  /\ \A t \in todo : ticks[t] # NoSleep

\* The ticks on their way to the entry of sleeper t: one may be in the flag,
\* one in the hands of timer_loop.
InFlight(t) ==
  (IF timer_flag = "raised" THEN 1 ELSE 0) +
  (IF t \in todo \/ (pc = "take" /\ cur = TimerTask) THEN 1 ELSE 0)

EarlyInv ==
  \A t \in Sleeper : ticks[t] # NoSleep =>
    owed[t] = 0 \/ owed[t] + InFlight(t) <= ticks[t] + 1

----------------------------------------------------------------------------
\* How the consumer of a channel looks from outside: task t, which has or has
\* not created its end.
ConsumerOf(t, ready) ==
  CASE ~ready -> "absent"
    [] ready /\ pc \in {"exit", "panic"} -> "stopped"
    [] ready /\ pc \notin {"exit", "panic"} ->
         IF cur = t \/ InQueue(t) THEN "runnable" ELSE "parked"

TimerChannel == INSTANCE EventChannel WITH
  Event <- {"tick"},
  Cap <- 1,
  pending <- IF timer_flag = "raised" THEN <<"tick">> ELSE <<>>,
  consumer <- ConsumerOf(TimerTask, timer_flag # "uninit")

KeyChannel == INSTANCE EventChannel WITH
  Event <- Scancode,
  Cap <- ScancodeCap,
  pending <- scancode_queue,
  consumer <- ConsumerOf(KeyTask, key_ready)

\* raise_timer and TimerStream implement a channel of capacity one: a tick is
\* never missed by timer_loop, although several may arrive as one, and every
\* pending tick is consumed.
TimerIsChannel == TimerChannel!ChanSpec

\* add_scancode and ScancodeStream implement a bounded channel: scancodes
\* reach print_keypresses in order and only those that find the queue full
\* are dropped, and every pending scancode is consumed.
KeyboardIsChannel == KeyChannel!ChanSpec

\* Every sleep ends, unless the kernel shuts down first: ticks may coalesce
\* in TIMER_FLAG but they never stop reaching decrement_all.
SleepersResume ==
  \A t \in Sleeper : ticks[t] # NoSleep ~> ticks[t] = NoSleep \/ pc = "exit"

\* Once the shell has set STOP the executor leaves its loop, although it
\* tests STOP only after the queue is drained and the CPU was halted again.
ShutdownExits == STOP ~> pc = "exit"

\* "[timer] raised timer flag hasn't been consumed last time!": raise_timer
\* reports a tick that arrives while the previous one is still in TIMER_FLAG.
OverrunReported ==
  [][TimerInterrupt /\ timer_flag = "raised" => log' = "timer_overrun"]_vars

\* No unwrap or expect of the task system fails: not the one on task_queue,
\* and not the one on LOGGER in out!, whatever key is pressed.
UnwrapsSucceed == pc # "panic"
============================================================================
