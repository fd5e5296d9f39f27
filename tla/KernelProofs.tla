---------------------------- MODULE KernelProofs ----------------------------
(***************************************************************************)
(* Proofs about Kernel, for any tasks, queue capacities, scancodes and     *)
(* numbers of interrupts.                                                  *)
(***************************************************************************)
EXTENDS Kernel, TLAPS

----------------------------------------------------------------------------
(***************************************************************************)
(* Type correctness.                                                       *)
(***************************************************************************)

\* wake_task keeps the queue within its capacity, a full one panics instead.
LEMMA WakeTaskType ==
  ASSUME ExecutorTypeOK, NEW id \in Task, NEW next \in Place,
         WakeTask(id, next)
  PROVE  /\ task_queue' \in Seq(Task)
         /\ Len(task_queue') <= QueueCap
         /\ pc' \in {next, "panic"}
         /\ pc' \in Place
BY ExecutorAssumption DEF WakeTask, ExecutorTypeOK, Place

\* Sleep::new registers at least one tick.
LEMMA TicksForPositive ==
  ASSUME NEW ms \in Nat
  PROVE  TicksFor(ms) \in Nat \ {0}
<1>1. 1000 \div 250 = 4
  OBVIOUS
<1>2. CASE ms < 4
  BY <1>1, <1>2 DEF TicksFor, TIMER_FREQUENCY
<1>3. CASE ~(ms < 4)
  <2>1. ms \div 4 \in Nat \ {0}
    BY <1>3
  <2> QED
    BY <1>1, <1>3, <2>1 DEF TicksFor, TIMER_FREQUENCY
<1> QED
  BY <1>2, <1>3

\* The executor's own steps keep its types.
LEMMA ExecutorStepType ==
  ASSUME ExecutorTypeOK, ExecutorStep
  PROVE  ExecutorTypeOK'
<1>1. ASSUME NEW t \in Task, Spawn(t)
      PROVE  ExecutorTypeOK'
  <2>1. "spawn" \in Place
    BY DEF Place
  <2> QED
    BY <1>1, <2>1, WakeTaskType DEF Spawn, ExecutorTypeOK
<1>2. CASE Run
  BY <1>2 DEF Run, ExecutorTypeOK, Place
<1>3. CASE TestStop
  BY <1>3 DEF TestStop, ExecutorTypeOK, Place
<1>4. CASE PopTask
  BY <1>4, ExecutorAssumption DEF PopTask, ExecutorTypeOK, Place
<1>5. CASE PopNone
  BY <1>5 DEF PopNone, ExecutorTypeOK, Place
<1>6. CASE DisableInterrupts
  BY Zenon, <1>6 DEF DisableInterrupts, ExecutorTypeOK, Place
<1>7. CASE CheckIdle
  BY <1>7 DEF CheckIdle, ExecutorTypeOK, Place
<1>8. CASE EnableInterrupts
  BY <1>8 DEF EnableInterrupts, ExecutorTypeOK, Place
<1> QED
  BY <1>1, <1>2, <1>3, <1>4, <1>5, <1>6, <1>7, <1>8 DEF ExecutorStep

\* A handler wakes at most one task and resumes the code.
LEMMA WakeFromHandlerType ==
  ASSUME ExecutorTypeOK, NEW id \in Task \cup {None}, WakeFromHandler(id)
  PROVE  ExecutorTypeOK'
<1>1. Resumed \in Place
  BY DEF Resumed, ExecutorTypeOK, Place
<1>2. CASE id = None
  BY <1>1, <1>2 DEF WakeFromHandler, ExecutorTypeOK
<1>3. CASE id # None
  BY <1>1, <1>3, WakeTaskType DEF WakeFromHandler, ExecutorTypeOK
<1> QED
  BY <1>2, <1>3

LEMMA GoToType ==
  ASSUME ExecutorTypeOK, NEW place \in Place, GoTo(place)
  PROVE  ExecutorTypeOK'
BY DEF GoTo, ExecutorTypeOK

LEMMA ReturnType ==
  ASSUME ExecutorTypeOK, ReturnPending \/ ReturnReady
  PROVE  ExecutorTypeOK'
BY DEF ReturnPending, ReturnReady, ExecutorTypeOK, Place

\* A cell for the tasks in Id keeps holding one of them or nothing.
LEMMA CellType ==
  ASSUME NEW Id, NEW cell \in Cell(Id), NEW id \in Id
  PROVE  /\ EmptyCell \in Cell(Id)
         /\ BeginRegister(cell) \in Cell(Id)
         /\ EndRegister(cell, id) \in Cell(Id)
         /\ Taken(cell) \in Cell(Id)
         /\ Woken(cell) \in Id \cup {None}
BY DEF Cell, CellState, EmptyCell, BeginRegister, EndRegister, Taken, Woken,
       Waiting, Registering, RegisteringWaking

\* The steps of timer_loop and of the sleepers keep all types.
LEMMA TimerStepType ==
  ASSUME ExecutorTypeOK, TimerTypeOK, TimerStep
  PROVE  ExecutorTypeOK' /\ TimerTypeOK'
<1> USE DEF TimerTypeOK, Place
<1>1. CASE TimerStreamNew
  BY <1>1, GoToType DEF TimerStreamNew
<1>2. CASE TimerFirstTry
  BY <1>2, GoToType DEF TimerFirstTry, StartDecrement
<1>3. CASE TimerRegister
  BY <1>3, GoToType, CellType DEF TimerRegister
<1>4. CASE TimerRegistered
  <2>1. TimerTypeOK'
    BY Zenon, <1>4, CellType DEF TimerRegistered
  <2>2. CASE RegisterWakes(timer_waker)
    BY <1>4, <2>1, <2>2, WakeTaskType, TimerAssumption
       DEF TimerRegistered, ExecutorTypeOK
  <2>3. CASE ~RegisterWakes(timer_waker)
    BY <1>4, <2>1, <2>3, GoToType DEF TimerRegistered
  <2> QED
    BY <2>2, <2>3
<1>5. CASE TimerSecondTry
  BY <1>5, GoToType, ReturnType DEF TimerSecondTry
<1>6. CASE TimerTake
  BY <1>6, GoToType, CellType DEF TimerTake, StartDecrement
<1>7. CASE DecrementDone
  BY <1>7, GoToType DEF DecrementDone, timerVars
<1>8. ASSUME NEW t \in Sleeper, Decrement(t)
      PROVE  ExecutorTypeOK' /\ TimerTypeOK'
  <2> DEFINE n == IF ticks[t] > 0 THEN ticks[t] - 1 ELSE 0
  <2>1. n \in Nat
    BY <1>8 DEF NoSleep
  <2>2. TimerTypeOK'
    BY <1>8, <2>1 DEF Decrement
  <2>3. CASE n = 0 /\ t \in armed
    BY <1>8, <2>2, <2>3, WakeTaskType, TimerAssumption
       DEF Decrement, ExecutorTypeOK
  <2>4. CASE ~(n = 0 /\ t \in armed)
    BY <1>8, <2>2, <2>4, GoToType DEF Decrement
  <2> QED
    BY <2>3, <2>4
<1>9. ASSUME NEW t \in Sleeper, SleepNew(t)
      PROVE  ExecutorTypeOK' /\ TimerTypeOK'
  BY <1>9, GoToType, TicksForPositive, TimerAssumption DEF SleepNew
<1>10. ASSUME NEW t \in Sleeper, SleepReady(t)
       PROVE  ExecutorTypeOK' /\ TimerTypeOK'
  BY <1>10, GoToType DEF SleepReady, Forever, NoSleep
<1>11. ASSUME NEW t \in Sleeper, SleepPending(t)
       PROVE  ExecutorTypeOK' /\ TimerTypeOK'
  BY <1>11, ReturnType DEF SleepPending
<1>12. ASSUME NEW t \in Sleeper, SleeperDone(t)
       PROVE  ExecutorTypeOK' /\ TimerTypeOK'
  BY <1>12, ReturnType DEF SleeperDone, timerVars
<1> QED
  BY Zenon, <1>1, <1>2, <1>3, <1>4, <1>5, <1>6, <1>7, <1>8, <1>9, <1>10, <1>11,
     <1>12 DEF TimerStep

\* The steps of print_keypresses keep all types.
LEMMA KeyboardStepType ==
  ASSUME ExecutorTypeOK, KeyboardTypeOK, PlaceInv, KeyboardStep
  PROVE  ExecutorTypeOK' /\ KeyboardTypeOK'
<1> USE DEF KeyboardTypeOK, Place
<1>1. CASE ScancodeStreamNew
  BY <1>1, GoToType DEF ScancodeStreamNew
<1>2. ASSUME PopScancode, scancode_queue # <<>>
      PROVE  /\ key' \in Scancode
             /\ scancode_queue' \in Seq(Scancode)
             /\ Len(scancode_queue') <= ScancodeCap
  BY <1>2, KeyboardAssumption DEF PopScancode
<1>3. CASE KeyFirstTry
  BY <1>2, <1>3, GoToType DEF KeyFirstTry
<1>4. CASE KeyRegister
  BY <1>4, GoToType, CellType DEF KeyRegister
<1>5. CASE KeyRegistered
  <2>1. KeyboardTypeOK'
    BY Zenon, <1>5, CellType DEF KeyRegistered
  <2>2. CASE RegisterWakes(key_waker)
    BY <1>5, <2>1, <2>2, WakeTaskType, KeyboardAssumption
       DEF KeyRegistered, ExecutorTypeOK
  <2>3. CASE ~RegisterWakes(key_waker)
    BY <1>5, <2>1, <2>3, GoToType DEF KeyRegistered
  <2> QED
    BY <2>2, <2>3
<1>6. CASE KeySecondTry
  BY <1>2, <1>6, GoToType, ReturnType DEF KeySecondTry
<1>7. CASE KeyTake
  BY Zenon, <1>7, GoToType, CellType DEF KeyTake
<1>8. CASE HandleKey
  <2>1. key \in Scancode
    BY <1>8 DEF HandleKey, At, PlaceInv
  <2>2. line' \in Seq(Scancode)
    <3>1. CASE line' = Append(line, key)
      BY <2>1, <3>1
    <3>2. CASE line' = <<>>
      BY <3>2
    <3>3. CASE line' = line
      BY <3>3
    <3> QED
      BY <1>8, <3>1, <3>2, <3>3, Zenon DEF HandleKey, CharInput
  <2>3. STOP' \in BOOLEAN
    BY <1>8, Zenon DEF HandleKey, CharInput, ExecutorTypeOK
  <2> QED
    BY <1>8, <2>2, <2>3 DEF HandleKey, ExecutorTypeOK
<1> QED
  BY <1>1, <1>3, <1>4, <1>5, <1>6, <1>7, <1>8 DEF KeyboardStep

\* The handlers keep all types.
LEMMA InterruptType ==
  ASSUME TypeOK, TimerInterrupt \/ KeyboardInterrupt
  PROVE  TypeOK'
<1>1. irqs' \in 0 .. MaxIrqs
  BY KernelAssumption DEF TypeOK, TimerInterrupt, KeyboardInterrupt, Interrupt
<1>2. CASE TimerInterrupt
  <2>1. PICK id \in Task \cup {None} : WakeFromHandler(id)
    BY <1>2, CellType, TimerAssumption
       DEF TimerInterrupt, RaiseTimer, TypeOK, TimerTypeOK
  <2>2. TimerTypeOK'
    BY <1>2, CellType DEF TimerInterrupt, RaiseTimer, TypeOK, TimerTypeOK
  <2>3. log' \in {"none", "timer_overrun"}
    BY <1>2 DEF TimerInterrupt, RaiseTimer
  <2> QED
    BY <1>1, <1>2, <2>1, <2>2, <2>3, WakeFromHandlerType
       DEF TimerInterrupt, TypeOK, KeyboardTypeOK, keyVars
<1>3. CASE KeyboardInterrupt
  <2>1. PICK sc \in Scancode : AddScancode(sc)
    BY <1>3 DEF KeyboardInterrupt
  <2>2. PICK id \in Task \cup {None} : WakeFromHandler(id)
    BY Zenon, <2>1, CellType, KeyboardAssumption
       DEF AddScancode, TypeOK, KeyboardTypeOK
  <2>3. KeyboardTypeOK'
    <3>1. CASE UNCHANGED keyVars
      BY <3>1 DEF TypeOK, KeyboardTypeOK, keyVars
    <3>2. CASE /\ Len(scancode_queue) < ScancodeCap
               /\ scancode_queue' = Append(scancode_queue, sc)
               /\ key_waker' = Taken(key_waker)
               /\ UNCHANGED <<key_ready, key, line>>
      <4>1. key_waker' \in Cell({KeyTask})
        BY Zenon, <3>2, CellType DEF TypeOK, KeyboardTypeOK
      <4>2. /\ scancode_queue' \in Seq(Scancode)
            /\ Len(scancode_queue') <= ScancodeCap
        BY <3>2, KeyboardAssumption DEF TypeOK, KeyboardTypeOK
      <4> QED
        BY <3>2, <4>1, <4>2 DEF TypeOK, KeyboardTypeOK
    <3> QED
      BY <2>1, <3>1, <3>2, Zenon DEF AddScancode
  <2>4. log' \in {"none", "scancode_queue_full",
                  "scancode_queue_uninitialized"}
    BY <2>1 DEF AddScancode
  <2> QED
    BY <1>1, <1>3, <2>2, <2>3, <2>4, WakeFromHandlerType
       DEF KeyboardInterrupt, TypeOK, TimerTypeOK, timerVars
<1> QED
  BY <1>2, <1>3

\* Every step leaves the CPU at a place of the task that is polled.
LEMMA PlaceStep ==
  ASSUME TypeOK, PlaceInv, Next
  PROVE  PlaceInv'
<1> USE DEF PlaceInv, TypeOK, ExecutorTypeOK
<1>1. ASSUME ExecutorStep, UNCHANGED keyVars
      PROVE  PlaceInv'
  BY <1>1, ExecutorAssumption
     DEF ExecutorStep, Spawn, WakeTask, Run, TestStop, PopTask, PopNone,
         DisableInterrupts, CheckIdle, EnableInterrupts, keyVars
<1>2. ASSUME TimerStep, UNCHANGED keyVars
      PROVE  PlaceInv'
  BY <1>2, TimerAssumption, KeyboardAssumption, ExecutorAssumption
     DEF TimerStep, TimerStreamNew, TimerFirstTry, StartDecrement,
         TimerRegister, TimerRegistered, TimerSecondTry, TimerTake,
         DecrementDone, Decrement, SleepNew, SleepReady, SleepPending,
         SleeperDone, At, GoTo, WakeTask, ReturnPending, ReturnReady, keyVars
<1>3. ASSUME KeyboardStep
      PROVE  PlaceInv'
  BY <1>3, KeyboardAssumption, ExecutorAssumption
     DEF KeyboardStep, KeyboardTypeOK, ScancodeStreamNew, KeyFirstTry,
         PopScancode, KeyRegister, KeyRegistered, KeySecondTry, KeyTake,
         HandleKey, At, GoTo, WakeTask, ReturnPending
<1>4. ASSUME NEW id, WakeFromHandler(id), key' = key
      PROVE  PlaceInv'
  BY <1>4 DEF WakeFromHandler, WakeTask, Resumed
<1>5. CASE TimerInterrupt
  BY <1>4, <1>5 DEF TimerInterrupt, RaiseTimer, keyVars
<1>6. CASE KeyboardInterrupt
  BY <1>4, <1>6 DEF KeyboardInterrupt, AddScancode, keyVars
<1>7. CASE Stopped
  BY <1>7 DEF Stopped, vars, executorVars, keyVars
<1> QED
  BY <1>1, <1>2, <1>3, <1>5, <1>6, <1>7 DEF Next, Thread

\* The variables keep their types, and neither task_queue nor scancode_queue
\* ever holds more than ArrayQueue has room for.
THEOREM TypeCorrect == Spec => [](TypeOK /\ PlaceInv)
<1>1. Init => TypeOK
  <2> SUFFICES ASSUME Init
               PROVE  TypeOK
    OBVIOUS
  <2>1. ExecutorTypeOK
    <3>1. STOP \in BOOLEAN /\ intr \in BOOLEAN
      BY Zenon DEF Init, ExecutorInit
    <3>2. task_queue \in Seq(Task) /\ Len(task_queue) <= QueueCap
      BY ExecutorAssumption DEF Init, ExecutorInit
    <3> QED
      BY <3>1, <3>2 DEF Init, ExecutorInit, ExecutorTypeOK, Place
  <2>2. TimerTypeOK
    BY TimerAssumption
       DEF Init, TimerInit, TimerTypeOK, EmptyCell, Cell, CellState, Waiting,
           NoSleep
  <2>3. KeyboardTypeOK
    <3>1. /\ scancode_queue \in Seq(Scancode)
          /\ Len(scancode_queue) <= ScancodeCap
          /\ line \in Seq(Scancode)
      BY KeyboardAssumption DEF Init, KeyboardInit
    <3>2. key_ready \in BOOLEAN /\ key_waker \in Cell({KeyTask})
      BY Zenon DEF Init, KeyboardInit, EmptyCell, Cell, CellState, Waiting
    <3> QED
      BY <3>1, <3>2 DEF Init, KeyboardInit, KeyboardTypeOK
  <2> QED
    BY <2>1, <2>2, <2>3, KernelAssumption DEF Init, TypeOK
<1>2. Init => PlaceInv
  BY DEF Init, ExecutorInit, PlaceInv
<1>3. TypeOK /\ PlaceInv /\ [Next]_vars => TypeOK' /\ PlaceInv'
  <2> SUFFICES ASSUME TypeOK, PlaceInv, [Next]_vars
               PROVE  TypeOK' /\ PlaceInv'
    OBVIOUS
  <2>1. CASE Thread
    <3>1. irqs' \in 0 .. MaxIrqs /\ log' = "none"
      BY <2>1, KernelAssumption DEF Thread, TypeOK
    <3>2. PlaceInv'
      BY <2>1, PlaceStep DEF Next
    <3>3. CASE ExecutorStep /\ UNCHANGED <<timerVars, keyVars>>
      BY <3>2, <3>1, <3>3, ExecutorStepType
         DEF TypeOK, TimerTypeOK, KeyboardTypeOK, timerVars, keyVars
    <3>4. CASE TimerStep /\ UNCHANGED keyVars
      BY <3>2, <3>1, <3>4, TimerStepType DEF TypeOK, KeyboardTypeOK, keyVars
    <3>5. CASE KeyboardStep /\ UNCHANGED timerVars
      BY <3>2, <3>1, <3>5, KeyboardStepType DEF TypeOK, TimerTypeOK, timerVars
    <3> QED
      BY <2>1, <3>3, <3>4, <3>5 DEF Thread
  <2>2. CASE TimerInterrupt \/ KeyboardInterrupt
    BY <2>2, InterruptType, PlaceStep DEF Next
  <2>3. CASE UNCHANGED vars
    BY <2>3 DEF vars, executorVars, timerVars, keyVars, TypeOK, PlaceInv,
       ExecutorTypeOK, TimerTypeOK, KeyboardTypeOK
  <2> QED
    BY <2>1, <2>2, <2>3 DEF Next, Stopped
<1> QED
  BY <1>1, <1>2, <1>3, PTL DEF Spec

----------------------------------------------------------------------------
(***************************************************************************)
(* The task queue as a collection of tasks.                                *)
(***************************************************************************)

\* A pushed task is in the queue, for the first time if it was not there.
LEMMA PushTask ==
  ASSUME task_queue \in Seq(Task), NEW id \in Task,
         task_queue' = Append(task_queue, id)
  PROVE  /\ task_queue' # <<>>
         /\ \A t : InQueue(t)' <=> InQueue(t) \/ t = id
         /\ \A t : QueuedOnce(t) /\ (t = id => ~InQueue(t)) => QueuedOnce(t)'
<1>1. /\ Len(task_queue') = Len(task_queue) + 1
      /\ Len(task_queue) \in Nat
      /\ task_queue'[Len(task_queue) + 1] = id
      /\ \A i \in 1 .. Len(task_queue) : task_queue'[i] = task_queue[i]
  OBVIOUS
<1>2. task_queue' # <<>>
  BY <1>1
<1>3. \A i \in 1 .. Len(task_queue') :
        i \in 1 .. Len(task_queue) \/ i = Len(task_queue) + 1
  BY <1>1
<1>4. /\ 1 .. Len(task_queue) \subseteq 1 .. Len(task_queue')
      /\ Len(task_queue) + 1 \in 1 .. Len(task_queue')
  BY <1>1
<1>5. \A t : InQueue(t)' <=> InQueue(t) \/ t = id
  BY <1>1, <1>3, <1>4 DEF InQueue
<1>6. \A t : QueuedOnce(t) /\ (t = id => ~InQueue(t)) => QueuedOnce(t)'
  BY <1>1, <1>3, <1>4 DEF InQueue, QueuedOnce
<1> QED
  BY <1>2, <1>5, <1>6

\* Popping takes one entry of the first task away, the only one if it was
\* queued once.
LEMMA PopHead ==
  ASSUME task_queue \in Seq(Task), task_queue # <<>>,
         task_queue' = Tail(task_queue)
  PROVE  /\ Head(task_queue) \in Task
         /\ InQueue(Head(task_queue))
         /\ \A t : InQueue(t)' => InQueue(t)
         /\ \A t : InQueue(t) => InQueue(t)' \/ t = Head(task_queue)
         /\ \A t : QueuedOnce(t) => QueuedOnce(t)'
         /\ \A t : t = Head(task_queue) /\ QueuedOnce(t) => ~InQueue(t)'
<1>1. /\ Len(task_queue) \in Nat \ {0}
      /\ Len(task_queue') = Len(task_queue) - 1
      /\ Head(task_queue) = task_queue[1]
      /\ \A i \in 1 .. Len(task_queue') : task_queue'[i] = task_queue[i + 1]
  OBVIOUS
<1>2. 1 \in 1 .. Len(task_queue)
  BY <1>1
<1>3. \A i \in 1 .. Len(task_queue') :
        i + 1 \in 1 .. Len(task_queue) /\ i + 1 # 1
  BY <1>1
<1>4. \A i \in 1 .. Len(task_queue) :
        i = 1 \/ (i - 1 \in 1 .. Len(task_queue')
                  /\ task_queue'[i - 1] = task_queue[i])
  BY <1>1
<1>5. Head(task_queue) \in Task /\ InQueue(Head(task_queue))
  BY <1>1, <1>2 DEF InQueue
<1>6. \A t : InQueue(t)' => InQueue(t)
  BY <1>1, <1>3 DEF InQueue
<1>7. \A t : InQueue(t) => InQueue(t)' \/ t = Head(task_queue)
  BY Zenon, <1>1, <1>4 DEF InQueue
<1>8. \A t : QueuedOnce(t) => QueuedOnce(t)'
  <2> SUFFICES ASSUME NEW t, QueuedOnce(t),
                      NEW i \in 1 .. Len(task_queue'),
                      NEW j \in 1 .. Len(task_queue'),
                      task_queue'[i] = t, task_queue'[j] = t
               PROVE  i = j
    BY DEF QueuedOnce
  <2>1. i + 1 = j + 1
    BY <1>1, <1>3 DEF QueuedOnce
  <2> QED
    BY <2>1, <1>1
<1>9. \A t : t = Head(task_queue) /\ QueuedOnce(t) => ~InQueue(t)'
  BY <1>1, <1>2, <1>3 DEF QueuedOnce, InQueue
<1> QED
  BY <1>5, <1>6, <1>7, <1>8, <1>9

\* A step that leaves the queue alone leaves every task where it was.
LEMMA SameQueue ==
  ASSUME task_queue' = task_queue
  PROVE  \A t : /\ InQueue(t)' <=> InQueue(t)
                /\ QueuedOnce(t)' <=> QueuedOnce(t)
BY DEF InQueue, QueuedOnce

\* What WakeTask leaves behind, panic or not.
LEMMA WakeEffect ==
  ASSUME task_queue \in Seq(Task), NEW id \in Task, NEW next,
         WakeTask(id, next)
  PROVE  \/ /\ pc' = next
            /\ \A t : InQueue(t)' <=> InQueue(t) \/ t = id
            /\ \A t : QueuedOnce(t) /\ (t = id => ~InQueue(t))
                        => QueuedOnce(t)'
         \/ /\ pc' = "panic"
            /\ \A t : /\ InQueue(t)' <=> InQueue(t)
                      /\ QueuedOnce(t)' <=> QueuedOnce(t)
BY PushTask, SameQueue DEF WakeTask

\* What the operations on a waker cell do to its state and to its waker.
LEMMA CellEffect ==
  ASSUME NEW id, id # None, NEW cell \in Cell({id})
  PROVE  /\ BeginRegister(cell).waker = cell.waker
         /\ BeginRegister(cell).state = Registering
         /\ EndRegister(cell, id).state = Waiting
         /\ EndRegister(cell, id).waker \in {None, id}
         /\ ~RegisterWakes(cell) => EndRegister(cell, id).waker = id
         /\ RegisterWakes(cell) <=> cell.state = RegisteringWaking
         /\ cell.waker \in {None, id}
         /\ Woken(cell) \in {None, id}
         /\ Woken(cell) # None => cell.waker # None
         /\ Taken(cell).waker \in {None, cell.waker}
         /\ cell.state = Waiting =>
              /\ Taken(cell).waker = None
              /\ Taken(cell).state = Waiting
              /\ Woken(cell) = cell.waker
         /\ cell.state # Waiting =>
              /\ Taken(cell).waker = cell.waker
              /\ Taken(cell).state = RegisteringWaking
              /\ Woken(cell) = None
BY DEF Cell, CellState, BeginRegister, EndRegister, RegisterWakes, Taken,
       Woken, EmptyCell, Waiting, Registering, RegisteringWaking

----------------------------------------------------------------------------
(***************************************************************************)
(* Tokens: who holds the waker of a task, and whether the task is live.    *)
(***************************************************************************)

\* A step inside a poll that changes neither the queue nor a waker.
LEMMA TokenSame ==
  ASSUME TokenInv, task_queue' = task_queue, tasks' = tasks,
         waker_cache' = waker_cache, cur' \in {cur, None}, armed' = armed,
         timer_waker'.waker \in {None, timer_waker.waker},
         key_waker'.waker \in {None, key_waker.waker}
  PROVE  TokenInv'
BY SameQueue, ExecutorAssumption, TimerAssumption DEF TokenInv

LEMMA TokenExecutor ==
  ASSUME TypeOK, PlaceInv, TokenInv, ExecutorStep,
         UNCHANGED <<timerVars, keyVars>>
  PROVE  TokenInv'
<1>1. ASSUME NEW t \in Task, Spawn(t)
      PROVE  TokenInv'
  <2>1. /\ task_queue \in Seq(Task)
        /\ WakeTask(t, "spawn")
        /\ t \notin tasks
        /\ tasks' = tasks \cup {t}
        /\ cur = None
        /\ UNCHANGED <<waker_cache, cur, armed, timer_waker, key_waker>>
    BY <1>1 DEF TypeOK, ExecutorTypeOK, PlaceInv, Spawn, timerVars, keyVars
  <2> QED
    BY <2>1, WakeEffect, ExecutorAssumption, TimerAssumption DEF TokenInv
<1>2. CASE Run \/ TestStop \/ PopNone \/ DisableInterrupts \/ CheckIdle
             \/ EnableInterrupts
  BY <1>2, TokenSame
     DEF Run, TestStop, PopNone, DisableInterrupts, CheckIdle,
         EnableInterrupts, timerVars, keyVars
<1>3. CASE PopTask
  <2> DEFINE id == Head(task_queue)
  <2>1. /\ task_queue \in Seq(Task)
        /\ task_queue # <<>>
        /\ task_queue' = Tail(task_queue)
        /\ cur = None
        /\ UNCHANGED <<tasks, armed, timer_waker, key_waker>>
    BY <1>3 DEF TypeOK, ExecutorTypeOK, PlaceInv, PopTask, timerVars, keyVars
  <2>2. id \in tasks
    BY <2>1, PopHead DEF TokenInv
  <2>3. cur' = id /\ waker_cache' = waker_cache \cup {id}
    BY <1>3, <2>2 DEF PopTask
  <2>4. /\ \A t : InQueue(t)' => InQueue(t)
        /\ \A t : QueuedOnce(t) => QueuedOnce(t)'
        /\ QueuedOnce(id) => ~(\E t : t = id /\ InQueue(t)')
        /\ InQueue(id)
    BY <2>1, PopHead
  <2> HIDE DEF id
  <2> QED
    BY <2>1, <2>2, <2>3, <2>4, TimerAssumption DEF TokenInv
<1> QED
  BY <1>1, <1>2, <1>3 DEF ExecutorStep

LEMMA TokenTimer ==
  ASSUME TypeOK, PlaceInv, TokenInv, TimerStep, UNCHANGED keyVars
  PROVE  TokenInv'
<1>0. /\ task_queue \in Seq(Task)
      /\ timer_waker \in Cell({TimerTask})
      /\ TimerTask \in Task /\ TimerTask # None /\ TimerTask \notin Sleeper
      /\ Sleeper \subseteq Task /\ None \notin Sleeper
      /\ key_waker' = key_waker
      /\ armed \subseteq Sleeper
  BY ExecutorAssumption, TimerAssumption
     DEF TypeOK, ExecutorTypeOK, TimerTypeOK, keyVars
<1>1. CASE TimerStreamNew \/ TimerFirstTry \/ TimerSecondTry \/ DecrementDone
  BY <1>0, <1>1, TokenSame
     DEF TimerStreamNew, TimerFirstTry, TimerSecondTry, DecrementDone,
         StartDecrement, GoTo, ReturnPending, timerVars
<1>2. CASE TimerRegister \/ TimerTake
  <2>1. timer_waker'.waker \in {None, timer_waker.waker}
    <3>1. CASE TimerRegister
      <4>1. timer_waker' = BeginRegister(timer_waker)
        BY <3>1 DEF TimerRegister
      <4> QED
        BY Zenon, <1>0, <4>1, CellEffect
    <3>2. CASE TimerTake
      <4>1. timer_waker' = Taken(timer_waker)
        BY <3>2 DEF TimerTake
      <4> QED
        BY ZenonT(30), <1>0, <4>1, CellEffect
    <3> QED
      BY <1>2, <3>1, <3>2
  <2> QED
    BY <1>0, <1>2, <2>1, TokenSame
       DEF TimerRegister, TimerTake, StartDecrement, GoTo
<1>3. CASE TimerRegistered
  <2>1. /\ cur = TimerTask
        /\ timer_waker'.waker \in {None, TimerTask}
        /\ UNCHANGED <<tasks, waker_cache, cur, armed>>
    BY <1>0, <1>3, CellEffect DEF TimerRegistered, At, GoTo
  <2>2. CASE WakeTask(TimerTask, "recheck")
    BY <1>0, <2>1, <2>2, WakeEffect DEF TokenInv
  <2>3. CASE GoTo("recheck")
    BY <1>0, <2>1, <2>3, SameQueue DEF TokenInv, GoTo
  <2> QED
    BY <1>3, <2>2, <2>3 DEF TimerRegistered
<1>4. ASSUME NEW t \in Sleeper, Decrement(t)
      PROVE  TokenInv'
  <2>1. /\ UNCHANGED <<tasks, waker_cache, cur, timer_waker>>
        /\ \/ armed' = armed /\ task_queue' = task_queue
           \/ t \in armed /\ armed' = armed \ {t} /\ WakeTask(t, "decrement")
    BY <1>4 DEF Decrement, GoTo
  <2>2. CASE armed' = armed /\ task_queue' = task_queue
    BY <1>0, <2>1, <2>2, TokenSame
  <2>3. CASE t \in armed /\ armed' = armed \ {t} /\ WakeTask(t, "decrement")
    BY <1>0, <2>1, <2>3, WakeEffect DEF TokenInv
  <2> QED
    BY <2>1, <2>2, <2>3
<1>5. ASSUME NEW t \in Sleeper, SleepNew(t) \/ SleepReady(t)
      PROVE  TokenInv'
  <2>1. t \notin armed
    BY <1>5 DEF SleepNew, SleepReady, At, TokenInv
  <2> QED
    BY ZenonT(30), <1>0, <1>5, <2>1, TokenSame DEF SleepNew, SleepReady, GoTo
<1>6. ASSUME NEW t \in Sleeper, SleepPending(t)
      PROVE  TokenInv'
  BY <1>0, <1>6, SameQueue DEF SleepPending, ReturnPending, At, TokenInv
<1>7. ASSUME NEW t \in Sleeper, SleeperDone(t)
      PROVE  TokenInv'
  <2>1. /\ UNCHANGED <<task_queue, timer_waker, armed>>
        /\ tasks' = tasks \ {t}
        /\ waker_cache' = waker_cache \ {t}
        /\ cur = t
        /\ cur' = None
    BY <1>7 DEF SleeperDone, ReturnReady, At, timerVars
  <2> QED
    BY <1>0, <2>1, SameQueue, KeyboardAssumption DEF TokenInv
<1> QED
  BY <1>1, <1>2, <1>3, <1>4, <1>5, <1>6, <1>7 DEF TimerStep

LEMMA TokenKeyboard ==
  ASSUME TypeOK, PlaceInv, TokenInv, KeyboardStep, UNCHANGED timerVars
  PROVE  TokenInv'
<1>0. /\ task_queue \in Seq(Task)
      /\ key_waker \in Cell({KeyTask})
      /\ KeyTask \in Task /\ KeyTask # None /\ KeyTask \notin Sleeper
      /\ Sleeper \subseteq Task /\ None \notin Sleeper
      /\ timer_waker' = timer_waker
      /\ armed' = armed
  BY ExecutorAssumption, TimerAssumption, KeyboardAssumption
     DEF TypeOK, ExecutorTypeOK, KeyboardTypeOK, timerVars
<1>1. CASE ScancodeStreamNew \/ KeyFirstTry \/ KeySecondTry \/ HandleKey
  BY <1>0, <1>1, TokenSame
     DEF ScancodeStreamNew, KeyFirstTry, KeySecondTry, HandleKey, GoTo,
         ReturnPending
<1>2. CASE KeyRegister \/ KeyTake
  <2>1. key_waker'.waker \in {None, key_waker.waker}
    <3>1. CASE KeyRegister
      <4>1. key_waker' = BeginRegister(key_waker)
        BY <3>1 DEF KeyRegister
      <4> QED
        BY Zenon, <1>0, <4>1, CellEffect
    <3>2. CASE KeyTake
      <4>1. key_waker' = Taken(key_waker)
        BY <3>2 DEF KeyTake
      <4> QED
        BY ZenonT(30), <1>0, <4>1, CellEffect
    <3> QED
      BY <1>2, <3>1, <3>2
  <2> QED
    BY <1>0, <1>2, <2>1, TokenSame DEF KeyRegister, KeyTake, GoTo
<1>3. CASE KeyRegistered
  <2>1. /\ cur = KeyTask
        /\ key_waker'.waker \in {None, KeyTask}
        /\ UNCHANGED <<tasks, waker_cache, cur, armed>>
    BY <1>0, <1>3, CellEffect DEF KeyRegistered, At, GoTo
  <2>2. CASE WakeTask(KeyTask, "recheck")
    BY <1>0, <2>1, <2>2, WakeEffect DEF TokenInv
  <2>3. CASE GoTo("recheck")
    BY <1>0, <2>1, <2>3, SameQueue DEF TokenInv, GoTo
  <2> QED
    BY <1>3, <2>2, <2>3 DEF KeyRegistered
<1> QED
  BY <1>1, <1>2, <1>3 DEF KeyboardStep

\* What a handler does to the queue: the task of the cell, if it was there,
\* is pushed, or the CPU panics.
LEMMA HandlerEffect ==
  ASSUME task_queue \in Seq(Task), NEW id \in Task \cup {None},
         WakeFromHandler(id)
  PROVE  /\ UNCHANGED <<tasks, waker_cache, STOP, cur>>
         /\ intr' = (pc' # "panic")
         /\ \/ /\ pc' = Resumed
               /\ \A t : InQueue(t)' <=> InQueue(t) \/ (t = id /\ id # None)
               /\ \A t : QueuedOnce(t) /\ t # id => QueuedOnce(t)'
               /\ id = None => task_queue' = task_queue
            \/ /\ pc' = "panic"
               /\ id # None
               /\ \A t : /\ InQueue(t)' <=> InQueue(t)
                         /\ QueuedOnce(t)' <=> QueuedOnce(t)
<1>1. CASE id = None
  BY <1>1, SameQueue, ExecutorAssumption DEF WakeFromHandler
<1>2. CASE id # None
  BY <1>2, WakeEffect DEF WakeFromHandler
<1> QED
  BY <1>1, <1>2

\* A handler that wakes a live task other than a sleeper keeps the tokens in
\* order.
LEMMA TokenHandler ==
  ASSUME TypeOK, TokenInv, NEW id \in Task \cup {None},
         id \notin Sleeper, id # None => id \in tasks,
         WakeFromHandler(id), armed' = armed,
         timer_waker'.waker \in {None, timer_waker.waker},
         key_waker'.waker \in {None, key_waker.waker}
  PROVE  TokenInv'
<1>1. task_queue \in Seq(Task)
  BY DEF TypeOK, ExecutorTypeOK
<1>2. /\ UNCHANGED <<tasks, waker_cache, cur>>
      /\ \A t : InQueue(t)' => InQueue(t) \/ (t = id /\ id # None)
      /\ \A t : QueuedOnce(t) /\ t # id => QueuedOnce(t)'
  BY <1>1, HandlerEffect
<1>a. /\ \A t \in Task : InQueue(t) => t \in tasks
      /\ \A t \in Sleeper : /\ t \in armed => ~InQueue(t) /\ cur # t
                            /\ cur = t => ~InQueue(t)
                            /\ QueuedOnce(t)
  BY DEF TokenInv
<1>3. \A t \in Task : InQueue(t)' => t \in tasks'
  <2> SUFFICES ASSUME NEW t \in Task, InQueue(t)'
               PROVE  t \in tasks
    BY <1>2
  <2>1. InQueue(t) \/ (t = id /\ id # None)
    BY <1>2
  <2> QED
    BY <1>a, <2>1
<1>4. \A t \in Sleeper :
        /\ t \in armed' => ~InQueue(t)' /\ cur' # t
        /\ cur' = t => ~InQueue(t)'
        /\ QueuedOnce(t)'
  <2> SUFFICES ASSUME NEW t \in Sleeper
               PROVE  /\ t \in armed => ~InQueue(t)' /\ cur # t
                      /\ cur = t => ~InQueue(t)'
                      /\ QueuedOnce(t)'
    BY <1>2
  <2>1. t # id
    OBVIOUS
  <2>2. /\ InQueue(t)' => InQueue(t)
        /\ QueuedOnce(t) => QueuedOnce(t)'
    BY <1>2, <2>1
  <2> QED
    BY <1>a, <2>2
<1> QED
  BY <1>2, <1>3, <1>4 DEF TokenInv

LEMMA TokenInterrupt ==
  ASSUME TypeOK, PlaceInv, TokenInv, TimerInterrupt \/ KeyboardInterrupt
  PROVE  TokenInv'
<1>0. /\ task_queue \in Seq(Task)
      /\ timer_waker \in Cell({TimerTask})
      /\ key_waker \in Cell({KeyTask})
      /\ None \notin Sleeper \cup {TimerTask, KeyTask}
      /\ Sleeper \subseteq Task
      /\ {TimerTask, KeyTask} \subseteq Task \ Sleeper
  BY ExecutorAssumption, TimerAssumption, KeyboardAssumption
     DEF TypeOK, ExecutorTypeOK, TimerTypeOK, KeyboardTypeOK
<1>1. ASSUME WakeFromHandler(None), armed' = armed,
             timer_waker' = timer_waker, key_waker' = key_waker
      PROVE  TokenInv'
  BY <1>0, <1>1, HandlerEffect, TokenSame
<1>2. CASE TimerInterrupt
  <2>1. CASE timer_flag = "uninit"
    BY <1>1, <1>2, <2>1 DEF TimerInterrupt, RaiseTimer, keyVars
  <2>2. CASE timer_flag # "uninit"
    <3>1. /\ WakeFromHandler(Woken(timer_waker))
          /\ timer_waker' = Taken(timer_waker)
          /\ UNCHANGED <<armed, key_waker>>
      BY <1>2, <2>2 DEF TimerInterrupt, RaiseTimer, keyVars
    <3>2. /\ Woken(timer_waker) \in {None, TimerTask}
          /\ Woken(timer_waker) # None => timer_waker.waker # None
          /\ timer_waker'.waker \in {None, timer_waker.waker}
      BY Zenon, <1>0, <3>1, CellEffect
    <3> QED
      BY Zenon, <1>0, <3>1, <3>2, TokenHandler DEF TokenInv
  <2> QED
    BY <2>1, <2>2
<1>3. CASE KeyboardInterrupt
  <2>1. PICK sc \in Scancode : AddScancode(sc)
    BY <1>3 DEF KeyboardInterrupt
  <2>2. armed' = armed /\ timer_waker' = timer_waker
    BY <1>3 DEF KeyboardInterrupt, timerVars
  <2>3. CASE ~key_ready \/ Len(scancode_queue) = ScancodeCap
    <3>1. WakeFromHandler(None) /\ key_waker' = key_waker
      BY <2>1, <2>3, KeyboardAssumption
         DEF AddScancode, keyVars, TypeOK, KeyboardTypeOK
    <3> QED
      BY <1>1, <2>2, <3>1
  <2>4. CASE key_ready /\ Len(scancode_queue) # ScancodeCap
    <3>1. /\ WakeFromHandler(Woken(key_waker))
          /\ key_waker' = Taken(key_waker)
      BY Zenon, <2>1, <2>4 DEF AddScancode
    <3>2. /\ Woken(key_waker) \in {None, KeyTask}
          /\ Woken(key_waker) # None => key_waker.waker # None
          /\ key_waker'.waker \in {None, key_waker.waker}
      <4>1. /\ Woken(key_waker) \in {None, KeyTask}
            /\ Woken(key_waker) # None => key_waker.waker # None
        BY Zenon, <1>0, CellEffect
      <4>2. key_waker'.waker \in {None, key_waker.waker}
        BY Zenon, <1>0, <3>1, CellEffect
      <4> QED
        BY <4>1, <4>2
    <3> QED
      BY <1>0, <2>2, <3>1, <3>2, TokenHandler DEF TokenInv
  <2> QED
    BY <2>3, <2>4
<1> QED
  BY <1>2, <1>3

\* Every waker belongs to a live task, and a sleeper has one token.
LEMMA TokenStep ==
  ASSUME TypeOK, PlaceInv, TokenInv, [Next]_vars
  PROVE  TokenInv'
<1>1. CASE Thread
  BY <1>1, TokenExecutor, TokenTimer, TokenKeyboard DEF Thread
<1>2. CASE TimerInterrupt \/ KeyboardInterrupt
  BY <1>2, TokenInterrupt
<1>3. CASE UNCHANGED vars
  BY Zenon, <1>3, TokenSame DEF vars, executorVars, timerVars, keyVars
<1> QED
  BY <1>1, <1>2, <1>3 DEF Next, Stopped

\* The tasks' wakers never outlive them (WakersBelongToLiveTasks): an id in
\* task_queue is always that of a task in Executor.tasks, and a waker that a
\* handler drops is never the last reference to its TaskWaker.
THEOREM WakersLive == Spec => [](TokenInv /\ WakersBelongToLiveTasks)
<1>1. Init => TokenInv
  <2>1. ASSUME Init PROVE \A t : ~InQueue(t) /\ QueuedOnce(t)
    <3>1. Len(task_queue) = 0
      BY <2>1 DEF Init, ExecutorInit
    <3> QED
      BY <3>1 DEF InQueue, QueuedOnce
  <2>2. ASSUME Init
        PROVE  /\ cur = None /\ armed = {}
               /\ timer_waker.waker = None /\ key_waker.waker = None
    BY <2>2 DEF Init, ExecutorInit, TimerInit, KeyboardInit, EmptyCell
  <2> QED
    BY <2>1, <2>2, ExecutorAssumption, TimerAssumption DEF TokenInv
<1>2. TypeOK /\ PlaceInv /\ TokenInv /\ [Next]_vars => TokenInv'
  BY TokenStep
<1>3. TypeOK /\ TokenInv => WakersBelongToLiveTasks
  BY DEF TypeOK, TimerTypeOK, KeyboardTypeOK, Cell, TokenInv,
         WakersBelongToLiveTasks
<1> QED
  BY <1>1, <1>2, <1>3, TypeCorrect, PTL DEF Spec

----------------------------------------------------------------------------
(***************************************************************************)
(* sleep_if_idle: interrupts are off just between cli and sti.             *)
(***************************************************************************)

\* Where the interrupt handlers may come, and where they return to.
LEMMA HandlerPlace ==
  ASSUME TypeOK, TimerInterrupt \/ KeyboardInterrupt
  PROVE  /\ intr
         /\ \E id \in Task \cup {None} : WakeFromHandler(id)
<1>1. intr
  BY DEF TimerInterrupt, KeyboardInterrupt, Interrupt
<1>2. /\ timer_waker \in Cell({TimerTask}) /\ key_waker \in Cell({KeyTask})
      /\ {TimerTask, KeyTask} \subseteq Task /\ None \notin Task
  BY ExecutorAssumption, TimerAssumption, KeyboardAssumption
     DEF TypeOK, TimerTypeOK, KeyboardTypeOK
<1>3. Woken(timer_waker) \in {None, TimerTask}
  BY Zenon, <1>2, CellEffect
<1>4. Woken(key_waker) \in {None, KeyTask}
  BY <1>2, CellEffect
<1>5. \/ WakeFromHandler(None)
      \/ WakeFromHandler(Woken(timer_waker))
      \/ WakeFromHandler(Woken(key_waker))
  BY DEF TimerInterrupt, RaiseTimer, KeyboardInterrupt, AddScancode
<1> QED
  BY <1>1, <1>2, <1>3, <1>4, <1>5

LEMMA CpuStep ==
  ASSUME TypeOK, pc # "panic" => CpuInv, [Next]_vars, pc' # "panic"
  PROVE  CpuInv'
<1>1. CASE ExecutorStep
  <2>1. ASSUME NEW t \in Task, Spawn(t) PROVE CpuInv'
    BY <2>1 DEF CpuInv, Spawn, WakeTask
  <2>2. CASE Run \/ TestStop \/ PopTask \/ PopNone
    BY <2>2 DEF CpuInv, Run, TestStop, PopTask, PopNone
  <2>3. CASE DisableInterrupts \/ CheckIdle \/ EnableInterrupts
    BY <2>3 DEF CpuInv, DisableInterrupts, CheckIdle, EnableInterrupts
  <2> QED
    BY <1>1, <2>1, <2>2, <2>3 DEF ExecutorStep
<1>2. CASE TimerStep \/ KeyboardStep
  <2>1. /\ pc \in {"poll", "register", "registering", "recheck", "take",
                   "decrement", "key"}
        /\ pc' \in {"poll", "register", "registering", "recheck", "take",
                    "decrement", "key", "pop"}
        /\ intr' = intr
    <3>1. CASE TimerStep
      BY <3>1 DEF TimerStep, TimerStreamNew, TimerFirstTry, TimerRegister,
         TimerRegistered, TimerSecondTry, TimerTake, DecrementDone,
         StartDecrement, Decrement, SleepNew, SleepReady, SleepPending,
         SleeperDone, At, GoTo, WakeTask, ReturnPending, ReturnReady
    <3>2. CASE KeyboardStep
      BY Zenon, <3>2 DEF KeyboardStep, ScancodeStreamNew, KeyFirstTry, KeyRegister,
         KeyRegistered, KeySecondTry, KeyTake, HandleKey, At, GoTo, WakeTask,
         ReturnPending
    <3> QED
      BY <1>2, <3>1, <3>2
  <2> QED
    BY <2>1 DEF CpuInv
<1>3. CASE TimerInterrupt \/ KeyboardInterrupt
  <2>1. PICK id \in Task \cup {None} : WakeFromHandler(id)
    BY <1>3, HandlerPlace
  <2>2. intr /\ intr' /\ pc' \in {Resumed, "panic"}
    BY <1>3, <2>1, HandlerPlace, HandlerEffect
       DEF TypeOK, ExecutorTypeOK
  <2> QED
    BY <2>2 DEF CpuInv, Resumed
<1>4. CASE UNCHANGED vars
  BY <1>4 DEF vars, executorVars, CpuInv
<1> QED
  BY <1>1, <1>2, <1>3, <1>4 DEF Next, Thread, Stopped

----------------------------------------------------------------------------
(***************************************************************************)
(* No wake-up is lost.                                                     *)
(***************************************************************************)

\* A step that is not task t's own: t stays live, stays queued or is polled,
\* and stays where it is inside its poll.
Undisturbed(t) ==
  /\ t \in tasks => t \in tasks'
  /\ InQueue(t) => InQueue(t)' \/ cur' = t
  /\ cur = t => cur' = t
  /\ cur = t /\ pc = "registering" => pc' = "registering"
  /\ cur' = t /\ pc' \in {"registering", "recheck"} => cur = t /\ pc' = pc

LEMMA ExecutorUndisturbed ==
  ASSUME TypeOK, PlaceInv, TokenInv, ExecutorStep, pc' # "panic",
         NEW t \in Task
  PROVE  Undisturbed(t)
<1>0. task_queue \in Seq(Task) /\ None \notin Task
  BY ExecutorAssumption DEF TypeOK, ExecutorTypeOK
<1>1. ASSUME NEW s \in Task, Spawn(s) PROVE Undisturbed(t)
  <2>1. InQueue(t) => InQueue(t)'
    BY <1>0, <1>1, WakeEffect DEF Spawn
  <2> QED
    BY <1>0, <1>1, <2>1 DEF Spawn, WakeTask, PlaceInv, Undisturbed
<1>2. CASE PopTask
  <2> DEFINE id == Head(task_queue)
  <2>1. /\ id \in Task /\ InQueue(id)
        /\ InQueue(t) => InQueue(t)' \/ t = id
    BY <1>0, <1>2, PopHead DEF PopTask
  <2>2. id \in tasks
    BY <2>1 DEF TokenInv
  <2>3. cur = None /\ tasks' = tasks /\ pc' = "poll" /\ cur' = id
    BY <1>2, <2>2 DEF PopTask, PlaceInv
  <2> HIDE DEF id
  <2> QED
    BY <1>0, <2>1, <2>3 DEF Undisturbed
<1>3. CASE Run \/ TestStop \/ PopNone \/ DisableInterrupts \/ CheckIdle
             \/ EnableInterrupts
  <2>1. UNCHANGED <<tasks, task_queue, cur>> /\ cur = None
    BY <1>3 DEF Run, TestStop, PopNone, DisableInterrupts, CheckIdle,
       EnableInterrupts, PlaceInv
  <2> QED
    BY <1>0, <2>1, SameQueue DEF Undisturbed
<1> QED
  BY <1>1, <1>2, <1>3 DEF ExecutorStep

\* The steps of another task's poll.
LEMMA PollUndisturbed ==
  ASSUME TypeOK, TimerStep \/ KeyboardStep, pc' # "panic",
         NEW t \in Task, cur # t
  PROVE  Undisturbed(t)
<1>0. /\ task_queue \in Seq(Task)
      /\ None \notin Task /\ TimerTask \in Task /\ KeyTask \in Task
      /\ Sleeper \subseteq Task
  BY ExecutorAssumption, TimerAssumption, KeyboardAssumption
     DEF TypeOK, ExecutorTypeOK
<1>1. /\ cur' \in {cur, None}
      /\ tasks' \in {tasks, tasks \ {cur}}
      /\ \/ task_queue' = task_queue
         \/ \E id \in Task : \E next : WakeTask(id, next)
  <2>1. CASE TimerStreamNew \/ TimerFirstTry \/ TimerRegister
               \/ TimerRegistered \/ TimerSecondTry \/ TimerTake
               \/ DecrementDone
    BY <1>0, <2>1 DEF TimerStreamNew, TimerFirstTry, TimerRegister,
       TimerRegistered, TimerSecondTry, TimerTake, DecrementDone,
       StartDecrement, GoTo, ReturnPending
  <2>2. ASSUME NEW s \in Sleeper,
               \/ Decrement(s) \/ SleepNew(s) \/ SleepReady(s)
               \/ SleepPending(s) \/ SleeperDone(s)
        PROVE  <1>1!:
    BY <1>0, <2>2 DEF Decrement, SleepNew, SleepReady, SleepPending,
       SleeperDone, GoTo, ReturnPending, ReturnReady
  <2>3. CASE KeyboardStep
    BY <1>0, <2>3 DEF KeyboardStep, ScancodeStreamNew, KeyFirstTry,
       KeyRegister, KeyRegistered, KeySecondTry, KeyTake, HandleKey, GoTo,
       ReturnPending
  <2> QED
    BY <2>1, <2>2, <2>3 DEF TimerStep
<1>2. InQueue(t) => InQueue(t)'
  BY <1>0, <1>1, SameQueue, WakeEffect
<1> QED
  BY <1>0, <1>1, <1>2 DEF Undisturbed

LEMMA HandlerUndisturbed ==
  ASSUME TypeOK, TimerInterrupt \/ KeyboardInterrupt, pc' # "panic",
         NEW t \in Task
  PROVE  Undisturbed(t)
<1>1. PICK id \in Task \cup {None} : WakeFromHandler(id)
  BY HandlerPlace
<1>2. /\ UNCHANGED <<tasks, cur>> /\ pc' = Resumed
      /\ InQueue(t) => InQueue(t)'
  BY <1>1, HandlerEffect DEF TypeOK, ExecutorTypeOK
<1> QED
  BY <1>2 DEF Undisturbed, Resumed

\* The timer stream is safe when its task, its flag and its cell are left alone.
LEMMA TimerStreamFrame ==
  ASSUME TimerStreamInv, Undisturbed(TimerTask),
         UNCHANGED <<timer_flag, timer_waker>>
  PROVE  TimerStreamInv'
BY DEF TimerStreamInv, StreamInv, Undisturbed

LEMMA KeyStreamFrame ==
  ASSUME KeyStreamInv, Undisturbed(KeyTask),
         UNCHANGED <<key_ready, scancode_queue, key_waker>>
  PROVE  KeyStreamInv'
BY DEF KeyStreamInv, StreamInv, Undisturbed

\* poll_next of TimerStream, raise_timer, and everything around them.
LEMMA TimerStreamStep ==
  ASSUME TypeOK, PlaceInv, TokenInv, TimerStreamInv, [Next]_vars,
         pc' # "panic"
  PROVE  TimerStreamInv'
<1>0. /\ task_queue \in Seq(Task)
      /\ timer_flag \in {"uninit", "clear", "raised"}
      /\ timer_waker \in Cell({TimerTask})
      /\ TimerTask \in Task /\ TimerTask # None /\ TimerTask # KeyTask
      /\ TimerTask \notin Sleeper
  BY ExecutorAssumption, TimerAssumption, KeyboardAssumption
     DEF TypeOK, ExecutorTypeOK, TimerTypeOK
<1>1. CASE ExecutorStep /\ UNCHANGED <<timerVars, keyVars>>
  BY <1>0, <1>1, ExecutorUndisturbed, TimerStreamFrame DEF timerVars
<1>2. CASE KeyboardStep /\ UNCHANGED timerVars
  <2>1. cur = KeyTask
    BY <1>2 DEF KeyboardStep, ScancodeStreamNew, KeyFirstTry, KeyRegister,
       KeyRegistered, KeySecondTry, KeyTake, HandleKey, At
  <2> QED
    BY <1>0, <1>2, <2>1, PollUndisturbed, TimerStreamFrame DEF timerVars
<1>3. CASE KeyboardInterrupt
  BY <1>0, <1>3, HandlerUndisturbed, TimerStreamFrame
     DEF KeyboardInterrupt, timerVars
<1>4. CASE TimerInterrupt
  <2>1. Undisturbed(TimerTask)
    BY <1>0, <1>4, HandlerUndisturbed
  <2>2. CASE timer_flag = "uninit"
    BY <1>4, <2>1, <2>2, TimerStreamFrame DEF TimerInterrupt, RaiseTimer
  <2>3. CASE timer_flag # "uninit"
    <3>1. /\ WakeFromHandler(Woken(timer_waker))
          /\ timer_waker' = Taken(timer_waker)
          /\ timer_flag' = "raised"
      BY <1>4, <2>3 DEF TimerInterrupt, RaiseTimer
    <3>2. /\ Woken(timer_waker) \in {None, TimerTask}
          /\ timer_waker.state = Waiting =>
               /\ Woken(timer_waker) = timer_waker.waker
               /\ timer_waker'.state = Waiting
          /\ timer_waker.state # Waiting => timer_waker'.state # Waiting
      <4>1. CASE timer_waker.state = Waiting
        BY Zenon, <1>0, <3>1, <4>1, CellEffect
      <4>2. CASE timer_waker.state # Waiting
        <5>1. /\ Taken(timer_waker).state = RegisteringWaking
              /\ Woken(timer_waker) = None
          BY ZenonT(30), <1>0, <4>2, CellEffect
        <5> QED
          BY <3>1, <4>2, <5>1 DEF Waiting, RegisteringWaking
      <4> QED
        BY <4>1, <4>2
    <3>3. /\ UNCHANGED <<tasks, cur>>
          /\ Woken(timer_waker) = TimerTask => InQueue(TimerTask)'
          /\ InQueue(TimerTask) => InQueue(TimerTask)'
      BY <1>0, <3>1, <3>2, HandlerEffect
    <3> QED
      BY <1>0, <2>1, <2>3, <3>1, <3>2, <3>3
         DEF TimerStreamInv, StreamInv, Undisturbed
  <2> QED
    BY <2>2, <2>3
<1>5. CASE TimerStep /\ cur # TimerTask
  <2>1. UNCHANGED <<timer_flag, timer_waker>>
    BY <1>5 DEF TimerStep, TimerStreamNew, TimerFirstTry, TimerRegister,
       TimerRegistered, TimerSecondTry, TimerTake, DecrementDone, Decrement,
       SleepNew, SleepReady, SleepPending, SleeperDone, At, timerVars
  <2> QED
    BY <1>0, <1>5, <2>1, PollUndisturbed, TimerStreamFrame
<1>6. CASE TimerStep /\ cur = TimerTask
  <2>0. TimerTask \in tasks
    BY <1>0, <1>6 DEF TokenInv
  <2>1. CASE TimerStreamNew \/ TimerFirstTry \/ TimerTake \/ DecrementDone
    <3>1. /\ tasks' = tasks /\ cur' = cur
          /\ pc' \in {"poll", "register", "decrement"}
          /\ pc # "registering"
          /\ timer_flag' \in {timer_flag, "clear"}
          /\ timer_flag # "uninit" => timer_flag' # "uninit"
      BY <2>1 DEF TimerStreamNew, TimerFirstTry, TimerTake, DecrementDone,
         StartDecrement, At, GoTo, timerVars
    <3>2. timer_waker.state = Waiting
      BY <3>1 DEF TimerStreamInv, StreamInv
    <3>3. timer_waker' \in {timer_waker, Taken(timer_waker)}
      BY <2>1 DEF TimerStreamNew, TimerFirstTry, TimerTake, DecrementDone,
         timerVars
    <3>4. timer_waker'.state = Waiting
      <4>1. Taken(timer_waker).state = Waiting
        BY ZenonT(30), <1>0, <3>2, CellEffect
      <4> QED
        BY <3>2, <3>3, <4>1
    <3> QED
      BY Zenon, <1>0, <1>6, <2>0, <3>1, <3>4
         DEF TimerStreamInv, StreamInv, Waiting, RegisteringWaking
  <2>2. CASE TimerRegister
    <3>1. timer_waker'.state = Registering
      BY ZenonT(30), <1>0, <2>2, CellEffect DEF TimerRegister
    <3> QED
      BY <1>0, <1>6, <2>0, <2>2, <3>1
         DEF TimerStreamInv, StreamInv, TimerRegister, GoTo, Waiting,
             Registering, RegisteringWaking
  <2>3. CASE TimerRegistered
    <3>1. /\ timer_waker'.state = Waiting
          /\ timer_waker.state # RegisteringWaking
               => timer_waker'.waker = TimerTask
      BY Zenon, <1>0, <2>3, CellEffect DEF TimerRegistered
    <3>2. UNCHANGED <<tasks, cur, timer_flag>> /\ pc' = "recheck"
      BY <2>3 DEF TimerRegistered, WakeTask, GoTo
    <3> QED
      BY <1>0, <1>6, <2>0, <3>1, <3>2
         DEF TimerStreamInv, StreamInv, Waiting, RegisteringWaking
  <2>4. CASE TimerSecondTry
    <3>1. CASE timer_flag = "raised"
      BY <1>0, <1>6, <2>0, <2>4, <3>1
         DEF TimerStreamInv, StreamInv, TimerSecondTry, CompareExchange, At,
             GoTo, Waiting, RegisteringWaking
    <3>2. CASE timer_flag # "raised"
      BY <1>0, <1>6, <2>0, <2>4, <3>2
         DEF TimerStreamInv, StreamInv, TimerSecondTry, CompareExchange, At,
             ReturnPending, Waiting, RegisteringWaking
    <3> QED
      BY <3>1, <3>2
  <2>5. ASSUME NEW t \in Sleeper, Decrement(t) PROVE TimerStreamInv'
    <3>1. /\ UNCHANGED <<tasks, cur, timer_flag, timer_waker>>
          /\ pc = "decrement" /\ pc' = "decrement"
      BY <2>5 DEF Decrement, At, GoTo, WakeTask
    <3> QED
      BY <1>0, <1>6, <3>1 DEF TimerStreamInv, StreamInv
  <2> QED
    BY <1>0, <1>6, <2>1, <2>2, <2>3, <2>4, <2>5
       DEF TimerStep, SleepNew, SleepReady, SleepPending, SleeperDone, At
<1>7. CASE UNCHANGED vars
  BY <1>7, SameQueue
     DEF vars, executorVars, timerVars, TimerStreamInv, StreamInv
<1> QED
  BY <1>1, <1>2, <1>3, <1>4, <1>5, <1>6, <1>7 DEF Next, Thread, Stopped

\* poll_next of ScancodeStream, add_scancode, and everything around them.
LEMMA KeyStreamStep ==
  ASSUME TypeOK, PlaceInv, TokenInv, KeyStreamInv, [Next]_vars,
         pc' # "panic"
  PROVE  KeyStreamInv'
<1>0. /\ task_queue \in Seq(Task)
      /\ key_waker \in Cell({KeyTask})
      /\ KeyTask \in Task /\ KeyTask # None /\ TimerTask # KeyTask
      /\ KeyTask \notin Sleeper
  BY ExecutorAssumption, TimerAssumption, KeyboardAssumption
     DEF TypeOK, ExecutorTypeOK, KeyboardTypeOK
<1>1. CASE ExecutorStep /\ UNCHANGED <<timerVars, keyVars>>
  BY <1>0, <1>1, ExecutorUndisturbed, KeyStreamFrame DEF keyVars
<1>2. CASE TimerStep /\ UNCHANGED keyVars
  <2>1. cur # KeyTask
    BY <1>0, <1>2 DEF TimerStep, TimerStreamNew, TimerFirstTry,
       TimerRegister, TimerRegistered, TimerSecondTry, TimerTake,
       DecrementDone, Decrement, SleepNew, SleepReady, SleepPending,
       SleeperDone, At
  <2> QED
    BY <1>0, <1>2, <2>1, PollUndisturbed, KeyStreamFrame DEF keyVars
<1>3. CASE TimerInterrupt
  BY <1>0, <1>3, HandlerUndisturbed, KeyStreamFrame
     DEF TimerInterrupt, keyVars
<1>4. CASE KeyboardInterrupt
  <2>1. Undisturbed(KeyTask)
    BY <1>0, <1>4, HandlerUndisturbed
  <2>2. PICK sc \in Scancode : AddScancode(sc)
    BY <1>4 DEF KeyboardInterrupt
  <2>3. CASE UNCHANGED keyVars
    BY <2>1, <2>3, KeyStreamFrame DEF keyVars
  <2>4. CASE ~UNCHANGED keyVars
    <3>1. /\ WakeFromHandler(Woken(key_waker))
          /\ key_waker' = Taken(key_waker)
          /\ scancode_queue' = Append(scancode_queue, sc)
          /\ key_ready /\ key_ready' = key_ready
      BY <2>2, <2>4 DEF AddScancode
    <3>2. scancode_queue' # <<>>
      BY <3>1 DEF TypeOK, KeyboardTypeOK
    <3>3. /\ Woken(key_waker) \in {None, KeyTask}
          /\ key_waker.state = Waiting =>
               /\ Woken(key_waker) = key_waker.waker
               /\ key_waker'.state = Waiting
          /\ key_waker.state # Waiting => key_waker'.state # Waiting
      <4>1. CASE key_waker.state = Waiting
        BY ZenonT(30), <1>0, <3>1, <4>1, CellEffect
      <4>2. CASE key_waker.state # Waiting
        <5>1. /\ Taken(key_waker).state = RegisteringWaking
              /\ Woken(key_waker) = None
          BY ZenonT(30), <1>0, <4>2, CellEffect
        <5> QED
          BY <3>1, <4>2, <5>1 DEF Waiting, RegisteringWaking
      <4> QED
        BY <4>1, <4>2
    <3>4. /\ UNCHANGED <<tasks, cur>>
          /\ Woken(key_waker) = KeyTask => InQueue(KeyTask)'
          /\ InQueue(KeyTask) => InQueue(KeyTask)'
      BY Zenon, <1>0, <3>1, <3>3, HandlerEffect
    <3>5. key_ready /\ key_ready'
      BY <3>1
    <3> QED
      BY Zenon, <1>0, <2>1, <3>2, <3>3, <3>4, <3>5
         DEF KeyStreamInv, StreamInv, Undisturbed
  <2> QED
    BY <2>3, <2>4
<1>5. CASE KeyboardStep /\ UNCHANGED timerVars
  <2>0. cur = KeyTask /\ KeyTask \in tasks
    <3>1. cur = KeyTask
      BY <1>5 DEF KeyboardStep, ScancodeStreamNew, KeyFirstTry, KeyRegister,
         KeyRegistered, KeySecondTry, KeyTake, HandleKey, At
    <3> QED
      BY <1>0, <3>1 DEF TokenInv
  <2>1. CASE ScancodeStreamNew \/ KeyFirstTry \/ KeyTake \/ HandleKey
    <3>1. /\ tasks' = tasks /\ cur' = cur
          /\ pc' \in {"poll", "register", "key"}
          /\ pc # "registering"
      BY <2>1 DEF ScancodeStreamNew, KeyFirstTry, KeyTake, HandleKey, At, GoTo
    <3>2. scancode_queue' # <<>> => key_ready'
      BY <2>1 DEF ScancodeStreamNew, KeyFirstTry, KeyTake, HandleKey,
         PopScancode, KeyStreamInv, StreamInv
    <3>3. key_waker.state = Waiting
      BY <3>1 DEF KeyStreamInv, StreamInv
    <3>4. key_waker' \in {key_waker, Taken(key_waker)}
      BY <2>1 DEF ScancodeStreamNew, KeyFirstTry, KeyTake, HandleKey
    <3>5. key_waker'.state = Waiting
      <4>1. Taken(key_waker).state = Waiting
        BY ZenonT(30), <1>0, <3>3, CellEffect
      <4> QED
        BY <3>3, <3>4, <4>1
    <3> QED
      BY <1>0, <2>0, <3>1, <3>2, <3>5
         DEF KeyStreamInv, StreamInv, Waiting, RegisteringWaking
  <2>2. CASE KeyRegister
    <3>1. key_waker'.state = Registering
      BY ZenonT(30), <1>0, <2>2, CellEffect DEF KeyRegister
    <3> QED
      BY Zenon, <1>0, <2>0, <2>2, <3>1
         DEF KeyStreamInv, StreamInv, KeyRegister, GoTo, Waiting,
             Registering, RegisteringWaking
  <2>3. CASE KeyRegistered
    <3>1. /\ key_waker'.state = Waiting
          /\ key_waker.state # RegisteringWaking
               => key_waker'.waker = KeyTask
      BY Zenon, <1>0, <2>3, CellEffect DEF KeyRegistered
    <3>2. /\ UNCHANGED <<tasks, cur, scancode_queue, key_ready>>
          /\ pc' = "recheck"
      BY <2>3 DEF KeyRegistered, WakeTask, GoTo
    <3> QED
      BY ZenonT(30), <1>0, <2>0, <3>1, <3>2
         DEF KeyStreamInv, StreamInv, Waiting, RegisteringWaking
  <2>4. CASE KeySecondTry
    <3>0. /\ UNCHANGED <<tasks, key_ready, key_waker>>
          /\ pc = "recheck"
      BY <2>4 DEF KeySecondTry, At, GoTo, ReturnPending
    <3>1. CASE scancode_queue # <<>>
      <4>1. cur' = cur /\ pc' = "take" /\ key_ready
        BY <2>4, <3>1 DEF KeySecondTry, GoTo, KeyStreamInv, StreamInv
      <4> QED
        BY <1>0, <2>0, <3>0, <3>1, <4>1
           DEF KeyStreamInv, StreamInv, Waiting, RegisteringWaking
    <3>2. CASE scancode_queue = <<>>
      <4>1. cur' = None /\ pc' = "pop" /\ scancode_queue' = <<>>
        BY <2>4, <3>2 DEF KeySecondTry, ReturnPending
      <4> QED
        BY <1>0, <2>0, <3>0, <3>2, <4>1
           DEF KeyStreamInv, StreamInv, Waiting, RegisteringWaking
    <3> QED
      BY <3>1, <3>2
  <2> QED
    BY <1>5, <2>1, <2>2, <2>3, <2>4 DEF KeyboardStep
<1>6. CASE UNCHANGED vars
  BY <1>6, SameQueue DEF vars, executorVars, keyVars, KeyStreamInv, StreamInv
<1> QED
  BY <1>1, <1>2, <1>3, <1>4, <1>5, <1>6 DEF Next, Thread, Stopped

\* decrement_all is never interleaved with another task's poll.
LEMMA TodoStep ==
  ASSUME TypeOK, TodoInv, [Next]_vars
  PROVE  TodoInv'
<1>0. ticks \in [Sleeper -> Nat \cup {-1}] /\ todo \subseteq Sleeper
  BY DEF TypeOK, TimerTypeOK, NoSleep
<1>1. CASE TimerInterrupt \/ KeyboardInterrupt
  <2>1. PICK id \in Task \cup {None} : WakeFromHandler(id)
    BY <1>1, HandlerPlace
  <2>2. pc' \in {Resumed, "panic"}
    BY <2>1, HandlerEffect DEF TypeOK, ExecutorTypeOK
  <2>3. todo' = todo /\ ticks' = ticks
    BY <1>1 DEF TimerInterrupt, RaiseTimer, KeyboardInterrupt, timerVars
  <2> QED
    BY <2>2, <2>3 DEF Resumed, TodoInv
<1>2. CASE (ExecutorStep \/ KeyboardStep) /\ UNCHANGED timerVars
  <2>1. pc \notin {"decrement", "panic"}
    BY <1>2 DEF ExecutorStep, Spawn, Run, TestStop, PopTask, PopNone,
       DisableInterrupts, CheckIdle, EnableInterrupts, KeyboardStep,
       ScancodeStreamNew, KeyFirstTry, KeyRegister, KeyRegistered,
       KeySecondTry, KeyTake, HandleKey, At
  <2> QED
    BY <1>2, <2>1 DEF TodoInv, timerVars
<1>3. CASE TimerStep
  <2>1. CASE TimerFirstTry \/ TimerTake
    BY <2>1 DEF TimerFirstTry, TimerTake, StartDecrement, GoTo, At, TodoInv
  <2>2. CASE TimerStreamNew \/ TimerRegister \/ TimerRegistered
               \/ TimerSecondTry \/ DecrementDone
    BY <2>2 DEF TimerStreamNew, TimerRegister, TimerRegistered,
       TimerSecondTry, DecrementDone, At, TodoInv, timerVars
  <2>3. ASSUME NEW t \in Sleeper, Decrement(t)
        PROVE  TodoInv'
    BY <1>0, <2>3
       DEF Decrement, WakeTask, GoTo, TodoInv, NoSleep
  <2>4. ASSUME NEW t \in Sleeper,
               \/ SleepNew(t) \/ SleepReady(t) \/ SleepPending(t)
               \/ SleeperDone(t)
        PROVE  TodoInv'
    BY <2>4 DEF SleepNew, SleepReady, SleepPending, SleeperDone, At, TodoInv,
       timerVars
  <2> QED
    BY <1>3, <2>1, <2>2, <2>3, <2>4 DEF TimerStep
<1>4. CASE UNCHANGED vars
  BY <1>4 DEF vars, executorVars, timerVars, TodoInv
<1> QED
  BY <1>1, <1>2, <1>3, <1>4 DEF Next, Thread, Stopped

\* Sleep::poll and decrement_all: whoever sleeps is woken.
LEMMA SleepStep ==
  ASSUME TypeOK, PlaceInv, TokenInv, TodoInv, SleepInv, [Next]_vars,
         pc' # "panic"
  PROVE  SleepInv'
<1>0. /\ task_queue \in Seq(Task)
      /\ ticks \in [Sleeper -> Nat \cup {-1}]
      /\ Sleeper \subseteq Task
      /\ TimerTask \notin Sleeper /\ KeyTask \notin Sleeper
      /\ None \notin Sleeper
  BY ExecutorAssumption, TimerAssumption, KeyboardAssumption
     DEF TypeOK, ExecutorTypeOK, TimerTypeOK, NoSleep
<1>1. ASSUME NEW t \in Sleeper, Undisturbed(t), ticks[t]' = ticks[t],
             t \in armed => t \in armed'
      PROVE  ticks'[t] # NoSleep =>
               /\ t \in tasks'
               /\ cur' # t => InQueue(t)' \/ (ticks'[t] > 0 /\ t \in armed')
  BY <1>1 DEF SleepInv, Undisturbed
<1>2. CASE \/ ExecutorStep /\ UNCHANGED <<timerVars, keyVars>>
           \/ KeyboardStep /\ UNCHANGED timerVars
           \/ TimerInterrupt \/ KeyboardInterrupt
  <2>1. UNCHANGED <<ticks, armed>>
    BY <1>2 DEF TimerInterrupt, RaiseTimer, KeyboardInterrupt, timerVars
  <2>2. ASSUME KeyboardStep PROVE cur = KeyTask
    BY <2>2 DEF KeyboardStep, ScancodeStreamNew, KeyFirstTry, KeyRegister,
       KeyRegistered, KeySecondTry, KeyTake, HandleKey, At
  <2>3. ASSUME NEW t \in Sleeper PROVE Undisturbed(t)
    BY <1>0, <1>2, <2>2, ExecutorUndisturbed, PollUndisturbed,
       HandlerUndisturbed
  <2> QED
    BY <1>1, <2>1, <2>3 DEF SleepInv
<1>3. CASE TimerStreamNew \/ TimerFirstTry \/ TimerRegister
             \/ TimerRegistered \/ TimerSecondTry \/ TimerTake
             \/ DecrementDone
  <2>1. UNCHANGED <<ticks, armed>> /\ cur = TimerTask /\ TimerStep
    BY <1>3 DEF TimerStep, TimerStreamNew, TimerFirstTry, TimerRegister,
       TimerRegistered, TimerSecondTry, TimerTake, DecrementDone, At,
       timerVars
  <2>2. ASSUME NEW t \in Sleeper PROVE Undisturbed(t)
    BY <1>0, <2>1, PollUndisturbed
  <2> QED
    BY <1>1, <2>1, <2>2 DEF SleepInv
<1>4. ASSUME NEW s \in Sleeper,
             \/ Decrement(s) \/ SleepNew(s) \/ SleepReady(s)
             \/ SleepPending(s) \/ SleeperDone(s)
      PROVE  SleepInv'
  <2>0. TimerStep /\ cur \in {s, TimerTask}
    BY <1>4 DEF TimerStep, Decrement, SleepNew, SleepReady, SleepPending,
       SleeperDone, At
  <2>1. ASSUME NEW t \in Sleeper, t # s
        PROVE  ticks[t]' = ticks[t] /\ (t \in armed => t \in armed')
    BY <1>0, <1>4, <2>1 DEF Decrement, SleepNew, SleepReady, SleepPending,
       SleeperDone, timerVars
  <2>2. ASSUME NEW t \in Sleeper, t # s PROVE Undisturbed(t)
    BY <1>0, <2>0, <2>2, PollUndisturbed
  <2>3. ticks'[s] # NoSleep =>
          /\ s \in tasks'
          /\ cur' # s => InQueue(s)' \/ (ticks'[s] > 0 /\ s \in armed')
    <3>1. CASE Decrement(s)
      <4>1. /\ ticks[s] # NoSleep /\ cur # s /\ cur' = cur /\ tasks' = tasks
            /\ s \in tasks
        BY <1>0, <3>1 DEF Decrement, At, GoTo, TodoInv, SleepInv
      <4>2. CASE InQueue(s)
        <5>1. Undisturbed(s)
          BY <1>0, <2>0, <4>1, PollUndisturbed
        <5> QED
          BY <4>1, <4>2, <5>1 DEF Undisturbed
      <4>3. CASE ~InQueue(s)
        <5>1. ticks[s] > 0 /\ s \in armed
          BY <4>1, <4>3 DEF SleepInv
        <5>2. CASE ticks[s] = 1
          <6>1. WakeTask(s, "decrement")
            BY <1>0, <3>1, <5>1, <5>2 DEF Decrement
          <6> QED
            BY <1>0, <4>1, <6>1, WakeEffect
        <5>3. CASE ticks[s] # 1
          BY <1>0, <3>1, <4>1, <5>1, <5>3 DEF Decrement
        <5> QED
          BY <5>2, <5>3
      <4> QED
        BY <4>2, <4>3
    <3>2. CASE SleepNew(s) \/ SleepReady(s) \/ SleepPending(s)
                 \/ SleeperDone(s)
      <4>1. cur = s /\ s \in tasks
        BY <1>0, <3>2 DEF SleepNew, SleepReady, SleepPending, SleeperDone, At,
           TokenInv
      <4> QED
        BY <1>0, <3>2, <4>1 DEF SleepNew, SleepReady, SleepPending,
           SleeperDone, GoTo, ReturnPending, timerVars
    <3> QED
      BY <1>4, <3>1, <3>2
  <2> QED
    BY ZenonT(30), <1>1, <2>1, <2>2, <2>3 DEF SleepInv
<1>5. CASE UNCHANGED vars
  BY <1>5, SameQueue DEF vars, executorVars, timerVars, SleepInv
<1> QED
  BY <1>2, <1>3, <1>4, <1>5 DEF Next, Thread, Stopped, TimerStep

\* The panic handler's loop is never left.
LEMMA PanicStays ==
  ASSUME TypeOK, [Next]_vars, pc = "panic"
  PROVE  pc' = "panic"
<1>1. CASE TimerInterrupt \/ KeyboardInterrupt
  <2>1. PICK id \in Task \cup {None} : WakeFromHandler(id)
    BY <1>1, HandlerPlace
  <2>2. pc' \in {Resumed, "panic"}
    BY <2>1, HandlerEffect DEF TypeOK, ExecutorTypeOK
  <2> QED
    BY <2>2 DEF Resumed
<1>2. ~Thread
  BY Zenon DEF Thread, ExecutorStep, Spawn, Run, TestStop, PopTask, PopNone,
     DisableInterrupts, CheckIdle, EnableInterrupts, KeyboardStep,
     ScancodeStreamNew, KeyFirstTry, KeyRegister, KeyRegistered,
     KeySecondTry, KeyTake, HandleKey, TimerStep, TimerStreamNew,
     TimerFirstTry, TimerRegister, TimerRegistered, TimerSecondTry,
     TimerTake, DecrementDone, Decrement, SleepNew, SleepReady,
     SleepPending, SleeperDone, At
<1> QED
  BY <1>1, <1>2 DEF Next, Stopped, vars, executorVars

\* The inductive invariant of the wake-ups.
LEMMA WakeCorrect == Spec => [](WakeInv /\ TodoInv)
<1>1. Init => WakeInv /\ TodoInv
  <2> SUFFICES ASSUME Init PROVE WakeInv /\ TodoInv
    OBVIOUS
  <2>1. /\ pc = "spawn" /\ cur = None /\ intr /\ todo = {} /\ ~key_ready
        /\ timer_flag = "uninit" /\ scancode_queue = <<>>
        /\ timer_waker.state = Waiting /\ key_waker.state = Waiting
        /\ \A t \in Sleeper : ticks[t] = NoSleep
    BY DEF Init, ExecutorInit, TimerInit, KeyboardInit, EmptyCell
  <2>2. CpuInv /\ TodoInv /\ SleepInv
    BY Zenon, <2>1 DEF CpuInv, TodoInv, SleepInv
  <2>3. TimerStreamInv /\ KeyStreamInv
    BY <2>1 DEF TimerStreamInv, KeyStreamInv, StreamInv, Waiting,
       RegisteringWaking
  <2> QED
    BY <2>2, <2>3 DEF WakeInv
<1>2. TypeOK /\ PlaceInv /\ TokenInv /\ WakeInv /\ TodoInv /\ [Next]_vars
        => WakeInv' /\ TodoInv'
  BY PanicStays, CpuStep, TimerStreamStep, KeyStreamStep, SleepStep, TodoStep
     DEF WakeInv
<1> QED
  BY <1>1, <1>2, TypeCorrect, WakersLive, PTL DEF Spec

\* No wake-up is lost (NoLostWakeup), for any number of sleeping tasks, any
\* queue capacities and any interrupts: the second try in poll_next, together
\* with AtomicWaker, covers every moment at which a handler can run.
THEOREM NoWakeupIsLost == Spec => []NoLostWakeup
<1>1. TypeOK /\ WakeInv => NoLostWakeup
  BY DEF TypeOK, TimerTypeOK, WakeInv, TimerStreamInv, KeyStreamInv,
         StreamInv, SleepInv, NoLostWakeup
<1> QED
  BY <1>1, TypeCorrect, WakeCorrect, PTL

\* The CPU is halted only when nothing can run (HaltOnlyWhenIdle): cli before
\* is_empty and the atomic "sti; hlt" of sleep_if_idle leave no gap.
THEOREM HaltsOnlyWhenIdle == Spec => []HaltOnlyWhenIdle
<1>1. TypeOK /\ PlaceInv /\ WakeInv => HaltOnlyWhenIdle
  <2> SUFFICES ASSUME TypeOK, PlaceInv, WakeInv, pc = "hlt"
               PROVE  /\ task_queue = <<>>
                      /\ timer_flag # "raised"
                      /\ scancode_queue = <<>>
                      /\ \A t \in Sleeper : ticks[t] # 0
    BY DEF HaltOnlyWhenIdle
  <2>1. task_queue = <<>> /\ cur = None
    BY DEF WakeInv, CpuInv, PlaceInv
  <2>2. \A t : ~InQueue(t)
    <3>1. Len(task_queue) = 0
      BY <2>1
    <3> QED
      BY <3>1 DEF InQueue
  <2>3. timer_flag # "raised"
    BY <2>1, <2>2, ExecutorAssumption, TimerAssumption
       DEF WakeInv, TimerStreamInv, StreamInv
  <2>4. scancode_queue = <<>>
    BY <2>1, <2>2, ExecutorAssumption, KeyboardAssumption
       DEF WakeInv, KeyStreamInv, StreamInv
  <2>5. \A t \in Sleeper : ticks[t] # 0
    BY <2>1, <2>2, ExecutorAssumption, TimerAssumption
       DEF WakeInv, SleepInv, NoSleep
  <2> QED
    BY <2>1, <2>3, <2>4, <2>5
<1> QED
  BY <1>1, TypeCorrect, WakeCorrect, PTL

----------------------------------------------------------------------------
(***************************************************************************)
(* Sleeps do not end early.                                                *)
(***************************************************************************)

\* A step that brings no new tick on its way and leaves the entries alone.
LEMMA EarlyFrame ==
  ASSUME TypeOK, EarlyInv, ticks' = ticks, owed' = owed, todo' = todo,
         timer_flag' = "raised" => timer_flag = "raised",
         pc' = "take" /\ cur' = TimerTask => pc = "take" /\ cur = TimerTask
  PROVE  EarlyInv'
BY DEF TypeOK, TimerTypeOK, EarlyInv, InFlight, NoSleep

LEMMA EarlyStep ==
  ASSUME TypeOK, PlaceInv, TodoInv, EarlyInv, [Next]_vars
  PROVE  EarlyInv'
<1>0. /\ ticks \in [Sleeper -> Nat \cup {-1}]
      /\ owed \in [Sleeper -> Nat]
      /\ timer_flag \in {"uninit", "clear", "raised"}
      /\ TimerTask # KeyTask
  BY KeyboardAssumption DEF TypeOK, TimerTypeOK, NoSleep
<1>1. CASE ExecutorStep /\ UNCHANGED <<timerVars, keyVars>>
  <2>1. pc' # "take"
    BY <1>1 DEF ExecutorStep, Spawn, WakeTask, Run, TestStop, PopTask,
       PopNone, DisableInterrupts, CheckIdle, EnableInterrupts
  <2> QED
    BY <1>1, <2>1, EarlyFrame DEF timerVars
<1>2. CASE KeyboardStep /\ UNCHANGED timerVars
  <2>1. cur' # TimerTask \/ pc' # "take"
    BY Zenon, <1>0, <1>2 DEF KeyboardStep, ScancodeStreamNew, KeyFirstTry,
       KeyRegister, KeyRegistered, KeySecondTry, KeyTake, HandleKey, At, GoTo,
       WakeTask, ReturnPending
  <2> QED
    BY <1>2, <2>1, EarlyFrame DEF timerVars
<1>3. CASE TimerInterrupt \/ KeyboardInterrupt
  <2>1. PICK id \in Task \cup {None} : WakeFromHandler(id)
    BY <1>3, HandlerPlace
  <2>2. pc' \in {Resumed, "panic"} /\ cur' = cur
    BY <2>1, HandlerEffect DEF TypeOK, ExecutorTypeOK
  <2>3. pc' = "take" => pc = "take"
    BY <2>2 DEF Resumed
  <2>4. CASE KeyboardInterrupt
    BY <2>2, <2>3, <2>4, EarlyFrame DEF KeyboardInterrupt, timerVars
  <2>5. CASE TimerInterrupt
    <3>1. /\ ticks' = ticks /\ todo' = todo
          /\ owed' = [t \in Sleeper |-> IF owed[t] > 0 THEN owed[t] - 1 ELSE 0]
      BY <2>5 DEF TimerInterrupt, RaiseTimer
    <3> SUFFICES ASSUME NEW t \in Sleeper, ticks[t] # NoSleep, owed'[t] # 0
                 PROVE  owed'[t] + InFlight(t)' <= ticks[t] + 1
      BY <3>1 DEF EarlyInv
    <3>2. owed[t] > 0 /\ owed'[t] = owed[t] - 1
      BY <1>0, <3>1
    <3>a. t \in todo' \/ (pc' = "take" /\ cur' = TimerTask)
            => t \in todo \/ (pc = "take" /\ cur = TimerTask)
      BY <2>2, <2>3, <3>1
    <3>3. InFlight(t)' <= InFlight(t) + 1 /\ InFlight(t) \in Nat
             /\ InFlight(t)' \in Nat
      BY <3>a DEF InFlight
    <3>4. owed[t] + InFlight(t) <= ticks[t] + 1
      BY <3>2, <1>0 DEF EarlyInv
    <3> QED
      BY <1>0, <3>2, <3>3, <3>4
  <2> QED
    BY <1>3, <2>4, <2>5
<1>4. CASE TimerStreamNew \/ TimerRegister \/ TimerRegistered \/ DecrementDone
  BY <1>4, EarlyFrame
     DEF TimerStreamNew, TimerRegister, TimerRegistered, DecrementDone, GoTo,
         WakeTask, timerVars
<1>5. CASE TimerFirstTry \/ TimerSecondTry \/ TimerTake
  <2>1. todo = {} /\ ticks' = ticks /\ owed' = owed
    BY <1>5 DEF TimerFirstTry, TimerSecondTry, TimerTake, At, TodoInv
  <2>2. ASSUME NEW t \in Sleeper, ticks[t] # NoSleep
        PROVE  InFlight(t)' = InFlight(t)
    <3>1. CASE TimerFirstTry
      BY <2>1, <2>2, <3>1 DEF TimerFirstTry, CompareExchange, StartDecrement,
         GoTo, At, InFlight
    <3>2. CASE TimerSecondTry
      BY <2>1, <2>2, <3>2 DEF TimerSecondTry, CompareExchange, GoTo,
         ReturnPending, At, InFlight
    <3>3. CASE TimerTake
      BY <2>1, <2>2, <3>3 DEF TimerTake, StartDecrement, GoTo, At, InFlight
    <3> QED
      BY <1>5, <3>1, <3>2, <3>3
  <2> QED
    BY <2>1, <2>2 DEF EarlyInv
<1>6. ASSUME NEW s \in Sleeper, Decrement(s)
      PROVE  EarlyInv'
  <2>1. /\ pc = "decrement" /\ pc' \in {"decrement", "panic"}
        /\ s \in todo /\ todo' = todo \ {s}
        /\ owed' = owed /\ timer_flag' = timer_flag
        /\ ticks[s] \in Nat
    BY <1>0, <1>6
       DEF Decrement, At, GoTo, WakeTask, TodoInv, NoSleep
  <2>2. ticks' = [ticks EXCEPT ![s] = IF ticks[s] > 0 THEN ticks[s] - 1 ELSE 0]
    BY <1>6 DEF Decrement
  <2>3. /\ InFlight(s) = InFlight(s)' + 1 /\ InFlight(s)' \in Nat
        /\ \A t \in Sleeper \ {s} : InFlight(t)' = InFlight(t)
    BY <2>1 DEF InFlight
  <2>a. ticks[s] # NoSleep
    BY <2>1 DEF NoSleep
  <2>4. owed[s] = 0 \/ owed[s] + InFlight(s) <= ticks[s] + 1
    BY <2>a DEF EarlyInv
  <2>5. owed'[s] = 0 \/ owed'[s] + InFlight(s)' <= ticks'[s] + 1
    BY <1>0, <2>1, <2>2, <2>3, <2>4
  <2> QED
    BY <1>0, <2>1, <2>2, <2>3, <2>5 DEF EarlyInv
<1>7. ASSUME NEW s \in Sleeper, SleepNew(s)
      PROVE  EarlyInv'
  <2>1. PICK ms \in Durations :
          /\ ticks' = [ticks EXCEPT ![s] = TicksFor(ms)]
          /\ owed' = [owed EXCEPT ![s] = TicksFor(ms)]
    BY Zenon, <1>7 DEF SleepNew
  <2>2. /\ pc = "poll" /\ pc' = "poll" /\ todo = {} /\ todo' = todo
        /\ timer_flag' = timer_flag
    BY <1>7 DEF SleepNew, At, GoTo, TodoInv
  <2>3. TicksFor(ms) \in Nat
    BY TicksForPositive, TimerAssumption
  <2>4. \A t \in Sleeper : InFlight(t)' = InFlight(t) /\ InFlight(t) \in 0 .. 1
    BY <2>2 DEF InFlight
  <2> QED
    BY <1>0, <2>1, <2>3, <2>4 DEF EarlyInv
<1>8. ASSUME NEW s \in Sleeper, SleepReady(s)
      PROVE  EarlyInv'
  <2>1. \A t \in Sleeper : InFlight(t)' = InFlight(t)
    BY <1>8 DEF SleepReady, At, GoTo, InFlight
  <2> QED
    BY <1>0, <1>8, <2>1 DEF SleepReady, EarlyInv
<1>9. ASSUME NEW s \in Sleeper, SleepPending(s) \/ SleeperDone(s)
      PROVE  EarlyInv'
  BY <1>9, EarlyFrame
     DEF SleepPending, SleeperDone, ReturnPending, ReturnReady, timerVars
<1>10. CASE UNCHANGED vars
  BY <1>10, EarlyFrame DEF vars, executorVars, timerVars
<1> QED
  BY <1>1, <1>2, <1>3, <1>4, <1>5, <1>6, <1>7, <1>8, <1>9, <1>10
     DEF Next, Thread, Stopped, TimerStep

\* A sleep never ends more than one timer interrupt early (SleepNotEarly),
\* however many ticks coalesce in TIMER_FLAG.
THEOREM SleepsNotEarly == Spec => []SleepNotEarly
<1>1. Init => EarlyInv
  BY DEF Init, TimerInit, EarlyInv
<1>2. TypeOK /\ PlaceInv /\ TodoInv /\ EarlyInv /\ [Next]_vars => EarlyInv'
  BY EarlyStep
<1>3. TypeOK /\ EarlyInv => SleepNotEarly
  <2> SUFFICES ASSUME TypeOK, EarlyInv, NEW t \in Sleeper, ticks[t] = 0
               PROVE  owed[t] <= 1
    BY DEF SleepNotEarly
  <2>1. owed[t] \in Nat /\ InFlight(t) \in Nat
    BY DEF TypeOK, TimerTypeOK, InFlight
  <2> QED
    BY <2>1 DEF EarlyInv, NoSleep
<1> QED
  BY <1>1, <1>2, <1>3, TypeCorrect, WakeCorrect, PTL DEF Spec
============================================================================
