----------------------------- MODULE Executor -----------------------------
(***************************************************************************)
(* The cooperative executor (src/src/task/executor.rs) on the boot CPU.    *)
(*                                                                         *)
(* pc is the place in the code the CPU is at when no handler runs:         *)
(*   spawn      kernel_main, spawning tasks                                *)
(*   while      the head of the loop in run, about to test STOP            *)
(*   pop        run_ready_tasks, about to pop                              *)
(*   poll       inside the poll of task cur, at its last suspension point  *)
(*   cli        sleep_if_idle entered, interrupts still enabled            *)
(*   is_empty   sleep_if_idle after cli                                    *)
(*   sti_hlt    the queue was empty, about to execute "sti; hlt"           *)
(*   sti        it was not, about to execute "sti"                         *)
(*   hlt        halted by "sti; hlt"                                       *)
(*   exit       run returned                                               *)
(*   panic      the panic handler's hlt loop                               *)
(* The polls of the individual tasks add their own places (Timer,          *)
(* Keyboard).                                                              *)
(***************************************************************************)
EXTENDS Naturals, Sequences, AtomicWaker

CONSTANTS Task,       \* the ids of the tasks kernel_main spawns
          QueueCap    \* capacity of task_queue (100 in Executor::new)

ASSUME ExecutorAssumption ==
  /\ None \notin Task
  /\ QueueCap \in Nat \ {0}

VARIABLES tasks,        \* the keys of Executor.tasks
          task_queue,   \* Executor.task_queue, shared with every TaskWaker
          waker_cache,  \* the keys of Executor.waker_cache
          STOP,         \* the static STOP
          pc,           \* where the CPU is (see above)
          cur,          \* the task being polled
          intr,         \* the interrupt flag of RFLAGS
          log           \* what the last handler logged, "none" after any
                        \* other step

executorVars == <<tasks, task_queue, waker_cache, STOP, pc, cur, intr>>

Place == {"spawn", "while", "pop", "poll", "cli", "is_empty", "sti_hlt",
          "sti", "hlt", "exit", "panic", "register", "registering",
          "recheck", "take", "decrement", "key"}

ExecutorTypeOK ==
  /\ tasks \subseteq Task
  /\ task_queue \in Seq(Task)
  /\ Len(task_queue) <= QueueCap
  /\ waker_cache \subseteq Task
  /\ STOP \in BOOLEAN
  /\ pc \in Place
  /\ cur \in Task \cup {None}
  /\ intr \in BOOLEAN

\* Executor::new, with interrupts already enabled by initialize_apic
ExecutorInit ==
  /\ tasks = {}
  /\ task_queue = <<>>
  /\ waker_cache = {}
  /\ STOP = FALSE
  /\ pc = "spawn"
  /\ cur = None
  /\ intr = TRUE

----------------------------------------------------------------------------
\* TaskWaker::wake_task when the CPU is to continue at next.  A full queue
\* makes `expect` panic.
WakeTask(id, next) ==
  IF Len(task_queue) < QueueCap
  THEN task_queue' = Append(task_queue, id) /\ pc' = next
  ELSE UNCHANGED task_queue /\ pc' = "panic"

\* Executor::spawn
Spawn(t) ==
  /\ pc = "spawn"
  /\ t \notin tasks
  /\ tasks' = tasks \cup {t}
  /\ WakeTask(t, "spawn")
  /\ UNCHANGED <<waker_cache, STOP, cur, intr>>

\* kernel_main calls executor.run() once everything is spawned
Run ==
  /\ pc = "spawn"
  /\ tasks = Task
  /\ pc' = "while"
  /\ UNCHANGED <<tasks, task_queue, waker_cache, STOP, cur, intr>>

\* Mutant: the loop goes on until every task is done.
TestStop_WaitsForTasks ==
  /\ pc = "while"
  /\ pc' = IF STOP /\ tasks = {} THEN "exit" ELSE "pop"
  /\ UNCHANGED <<tasks, task_queue, waker_cache, STOP, cur, intr>>

\* the loop condition of run
TestStop ==
  /\ pc = "while"
  /\ pc' = IF STOP THEN "exit" ELSE "pop"
  /\ UNCHANGED <<tasks, task_queue, waker_cache, STOP, cur, intr>>

\* run_ready_tasks: the next id is popped; the id of a finished task is
\* skipped, otherwise the cached waker is looked up and the poll starts.
PopTask ==
  /\ pc = "pop"
  /\ task_queue # <<>>
  /\ task_queue' = Tail(task_queue)
  /\ LET id == Head(task_queue) IN
       IF id \in tasks
       THEN /\ pc' = "poll"
            /\ cur' = id
            /\ waker_cache' = waker_cache \cup {id}
       ELSE UNCHANGED <<pc, cur, waker_cache>>
  /\ UNCHANGED <<tasks, STOP, intr>>

\* run_ready_tasks returns when the queue is empty
PopNone ==
  /\ pc = "pop"
  /\ task_queue = <<>>
  /\ pc' = "cli"
  /\ UNCHANGED <<tasks, task_queue, waker_cache, STOP, cur, intr>>

\* the poll of cur returns Poll::Pending
ReturnPending ==
  /\ pc' = "pop"
  /\ cur' = None
  /\ UNCHANGED <<tasks, task_queue, waker_cache, STOP, intr>>

\* the poll of cur returns Poll::Ready: the task and its waker are dropped
ReturnReady ==
  /\ tasks' = tasks \ {cur}
  /\ waker_cache' = waker_cache \ {cur}
  /\ pc' = "pop"
  /\ cur' = None
  /\ UNCHANGED <<task_queue, STOP, intr>>

\* Mutant: is_empty is evaluated with interrupts enabled.
DisableInterrupts_NoCli ==
  /\ pc = "cli"
  /\ pc' = "is_empty"
  /\ UNCHANGED <<tasks, task_queue, waker_cache, STOP, cur, intr>>

\* sleep_if_idle: cli
DisableInterrupts ==
  /\ pc = "cli"
  /\ intr' = FALSE
  /\ pc' = "is_empty"
  /\ UNCHANGED <<tasks, task_queue, waker_cache, STOP, cur>>

\* sleep_if_idle: task_queue.is_empty()
CheckIdle ==
  /\ pc = "is_empty"
  /\ pc' = IF task_queue = <<>> THEN "sti_hlt" ELSE "sti"
  /\ UNCHANGED <<tasks, task_queue, waker_cache, STOP, cur, intr>>

\* sleep_if_idle: "sti; hlt" or "sti".  sti takes effect only after the next
\* instruction, so no handler runs between sti and hlt.
EnableInterrupts ==
  /\ pc \in {"sti_hlt", "sti"}
  /\ intr' = TRUE
  /\ pc' = IF pc = "sti_hlt" THEN "hlt" ELSE "while"
  /\ UNCHANGED <<tasks, task_queue, waker_cache, STOP, cur>>

ExecutorStep ==
  \/ \E t \in Task : Spawn(t)
  \/ Run
  \/ TestStop
  \/ PopTask
  \/ PopNone
  \/ DisableInterrupts
  \/ CheckIdle
  \/ EnableInterrupts

\* where the CPU goes on after a handler returns: hlt has ended
Resumed == IF pc = "hlt" THEN "while" ELSE pc

\* What a handler does with the task id a cell hands out (id may be None).
\* A panic inside a handler leaves interrupts disabled.
WakeFromHandler(id) ==
  /\ IF id = None
     THEN UNCHANGED task_queue /\ pc' = Resumed
     ELSE WakeTask(id, Resumed)
  /\ intr' = (pc' # "panic")
  /\ UNCHANGED <<tasks, waker_cache, STOP, cur>>
============================================================================
