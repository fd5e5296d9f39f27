------------------------ MODULE KernelChannelProofs ------------------------
(***************************************************************************)
(* Proofs about Kernel that count: task_queue never overflows, and, with   *)
(* the room it then has, the timer and the keyboard are the channels that  *)
(* EventChannel describes.                                                 *)
(***************************************************************************)
EXTENDS KernelProofs, FiniteSetTheorems

----------------------------------------------------------------------------
(***************************************************************************)
(* The bound on task_queue.  Every entry that can still be pushed without  *)
(* a further interrupt is pledged to something that is there to be counted *)
(* before it is pushed.                                                    *)
(***************************************************************************)

\* tasks that kernel_main has yet to spawn
Unspawned == IF pc = "spawn" THEN Task \ tasks ELSE {}

\* the task being polled may arm its sleep or, through a stream, its cell
Polled == IF cur = None THEN 0 ELSE 1

\* a wake that came during register is delivered by register
Waking(cell) == IF cell.state = RegisteringWaking THEN 1 ELSE 0

Pledged == Cardinality(Unspawned) + Cardinality(armed) + Polled
             + Waking(timer_waker) + Waking(key_waker)

\* The inductive invariant behind QueueBound.
QueueInv == Len(task_queue) + Pledged <= Cardinality(Task) + irqs

\* What the counts are made of, in numbers.
LEMMA CountType ==
  ASSUME TypeOK
  PROVE  /\ IsFiniteSet(Task) /\ IsFiniteSet(armed) /\ IsFiniteSet(Unspawned)
         /\ Cardinality(Task) \in Nat
         /\ Cardinality(armed) \in Nat
         /\ Cardinality(Unspawned) \in Nat
         /\ Len(task_queue) \in Nat /\ irqs \in Nat
         /\ Polled \in {0, 1}
         /\ Waking(timer_waker) \in {0, 1}
         /\ Waking(key_waker) \in {0, 1}
<1>1. armed \subseteq Task /\ Unspawned \subseteq Task
  BY TimerAssumption DEF TypeOK, TimerTypeOK, Unspawned
<1>2. IsFiniteSet(Task)
  BY KernelAssumption
<1>3. IsFiniteSet(armed) /\ IsFiniteSet(Unspawned)
  BY <1>1, <1>2, FS_Subset
<1>4. /\ Cardinality(Task) \in Nat
      /\ Cardinality(armed) \in Nat
      /\ Cardinality(Unspawned) \in Nat
  BY <1>2, <1>3, FS_CardinalityType
<1>5. Len(task_queue) \in Nat /\ irqs \in Nat
  BY KernelAssumption DEF TypeOK, ExecutorTypeOK
<1> QED
  BY <1>2, <1>3, <1>4, <1>5 DEF Polled, Waking

\* One element more or less.
LEMMA CountOne ==
  ASSUME NEW S, IsFiniteSet(S), NEW x
  PROVE  /\ Cardinality(S) \in Nat
         /\ Cardinality(S \cup {x}) \in Nat
         /\ Cardinality(S \cup {x}) <= Cardinality(S) + 1
         /\ Cardinality(S \ {x}) \in Nat
         /\ Cardinality(S \ {x}) <= Cardinality(S)
         /\ x \in S => Cardinality(S \ {x}) + 1 = Cardinality(S)
<1>1. Cardinality(S) \in Nat
  BY FS_CardinalityType
<1>2. /\ IsFiniteSet(S \cup {x})
      /\ Cardinality(S \cup {x}) \in {Cardinality(S), Cardinality(S) + 1}
  BY FS_AddElement
<1>3. /\ IsFiniteSet(S \ {x})
      /\ Cardinality(S \ {x}) =
           IF x \in S THEN Cardinality(S) - 1 ELSE Cardinality(S)
  BY FS_RemoveElement
<1>4. Cardinality(S \ {x}) \in Nat /\ Cardinality(S \cup {x}) \in Nat
  BY <1>2, <1>3, FS_CardinalityType
<1> QED
  BY <1>1, <1>2, <1>3, <1>4

\* wake_task pushes one entry, or none into a full queue.
LEMMA WakeCount ==
  ASSUME TypeOK, NEW id \in Task, NEW next, WakeTask(id, next)
  PROVE  /\ Len(task_queue') \in Nat
         /\ Len(task_queue') <= Len(task_queue) + 1
         /\ pc' = next \/ (pc' = "panic" /\ Len(task_queue) >= QueueCap)
<1>0. task_queue \in Seq(Task) /\ QueueCap \in Nat
  BY ExecutorAssumption DEF TypeOK, ExecutorTypeOK
<1>1. CASE Len(task_queue) < QueueCap
  BY <1>0, <1>1 DEF WakeTask
<1>2. CASE ~(Len(task_queue) < QueueCap)
  BY <1>0, <1>2 DEF WakeTask
<1> QED
  BY <1>1, <1>2

\* A step changes the length of the queue by at most l, and what is pledged by
\* u for tasks to spawn, a for armed sleeps, p for the polled task, t and k
\* for the cells of the timer and of the keyboard.
Changes(l, u, a, p, t, k) ==
  /\ Len(task_queue)' \in Nat /\ Len(task_queue)' <= Len(task_queue) + l
  /\ Cardinality(Unspawned)' \in Nat
  /\ Cardinality(Unspawned)' <= Cardinality(Unspawned) + u
  /\ Cardinality(armed)' \in Nat
  /\ Cardinality(armed)' <= Cardinality(armed) + a
  /\ Polled' \in Nat /\ Polled' <= Polled + p
  /\ Waking(timer_waker)' \in Nat
  /\ Waking(timer_waker)' <= Waking(timer_waker) + t
  /\ Waking(key_waker)' \in Nat
  /\ Waking(key_waker)' <= Waking(key_waker) + k

\* The invariant survives a step that pledges no more than the interrupts it
\* counts.
LEMMA Balance ==
  ASSUME TypeOK, QueueInv, irqs' \in Nat,
         NEW l \in Int, NEW u \in Int, NEW a \in Int, NEW p \in Int,
         NEW t \in Int, NEW k \in Int, Changes(l, u, a, p, t, k),
         irqs + l + u + a + p + t + k <= irqs'
  PROVE  QueueInv'
<1> DEFINE l0 == Len(task_queue)          l1 == Len(task_queue)'
           u0 == Cardinality(Unspawned)   u1 == Cardinality(Unspawned)'
           a0 == Cardinality(armed)       a1 == Cardinality(armed)'
           p0 == Polled                   p1 == Polled'
           t0 == Waking(timer_waker)      t1 == Waking(timer_waker)'
           k0 == Waking(key_waker)        k1 == Waking(key_waker)'
           n == Cardinality(Task)         i0 == irqs
           i1 == irqs'
<1>0. Polled \in Nat /\ Waking(timer_waker) \in Nat /\ Waking(key_waker) \in Nat
  BY DEF Polled, Waking
<1>1. /\ l0 \in Nat /\ u0 \in Nat /\ a0 \in Nat /\ p0 \in Nat /\ t0 \in Nat
      /\ k0 \in Nat /\ n \in Nat /\ i0 \in Nat /\ i1 \in Nat
  BY <1>0, CountType
<1>2. /\ l1 \in Nat /\ l1 <= l0 + l /\ u1 \in Nat /\ u1 <= u0 + u
      /\ a1 \in Nat /\ a1 <= a0 + a /\ p1 \in Nat /\ p1 <= p0 + p
      /\ t1 \in Nat /\ t1 <= t0 + t /\ k1 \in Nat /\ k1 <= k0 + k
  BY DEF Changes
<1>3. /\ l0 + (u0 + a0 + p0 + t0 + k0) <= n + i0
      /\ i0 + l + u + a + p + t + k <= i1
  BY DEF QueueInv, Pledged
<1>4. l1 + (u1 + a1 + p1 + t1 + k1) <= n + i1
  <2> HIDE DEF l0, u0, a0, p0, t0, k0, n, i0, i1, l1, u1, a1, p1, t1, k1
  <2> QED
    BY <1>1, <1>2, <1>3
<1> QED
  BY <1>4 DEF QueueInv, Pledged

\* What a step does not touch keeps its count.
LEMMA SameCounts ==
  ASSUME TypeOK
  PROVE  /\ task_queue' = task_queue =>
              /\ Len(task_queue)' \in Nat
              /\ Len(task_queue)' <= Len(task_queue) + 0
         /\ pc # "spawn" /\ pc' # "spawn" =>
              /\ Cardinality(Unspawned)' \in Nat
              /\ Cardinality(Unspawned)' <= Cardinality(Unspawned) + 0
         /\ armed' = armed =>
              /\ Cardinality(armed)' \in Nat
              /\ Cardinality(armed)' <= Cardinality(armed) + 0
         /\ cur' = cur => Polled' \in Nat /\ Polled' <= Polled + 0
         /\ timer_waker' = timer_waker =>
              /\ Waking(timer_waker)' \in Nat
              /\ Waking(timer_waker)' <= Waking(timer_waker) + 0
         /\ key_waker' = key_waker =>
              /\ Waking(key_waker)' \in Nat
              /\ Waking(key_waker)' <= Waking(key_waker) + 0
<1>1. /\ Len(task_queue) \in Nat /\ Cardinality(armed) \in Nat
      /\ Cardinality(Unspawned) \in Nat
  BY CountType
<1>2. Polled \in Nat /\ (cur' = cur => Polled' = Polled)
  BY DEF Polled
<1>3. /\ Waking(timer_waker) \in Nat
      /\ timer_waker' = timer_waker =>
           Waking(timer_waker)' = Waking(timer_waker)
  BY DEF Waking
<1>4. /\ Waking(key_waker) \in Nat
      /\ key_waker' = key_waker => Waking(key_waker)' = Waking(key_waker)
  BY DEF Waking
<1>5. pc # "spawn" /\ pc' # "spawn" => Unspawned' = Unspawned
  BY DEF Unspawned
<1> QED
  BY <1>1, <1>2, <1>3, <1>4, <1>5

\* spawn and run: an entry is pushed for a task that had none.
LEMMA QueueExecutor ==
  ASSUME TypeOK, PlaceInv, WakeInv, QueueInv, ExecutorStep,
         UNCHANGED <<timerVars, keyVars>>,
         irqs' = IF pc = "pop" /\ task_queue = <<>> THEN 0 ELSE irqs
  PROVE  QueueInv'
<1>0. irqs \in Nat /\ IsFiniteSet(Unspawned)
  BY CountType
<1>1. UNCHANGED <<armed, timer_waker, key_waker>>
  BY DEF timerVars, keyVars
<1>2. ASSUME NEW t \in Task, Spawn(t) PROVE QueueInv'
  <2>1. cur' = cur /\ irqs' = irqs
    BY <1>2 DEF Spawn
  <2>2. /\ Cardinality(Unspawned)' \in Nat
        /\ Cardinality(Unspawned)' <= Cardinality(Unspawned) + (-1)
    <3>1. t \in Unspawned
      BY <1>2 DEF Spawn, Unspawned
    <3>2. Unspawned' \subseteq Unspawned \ {t}
      BY <1>2 DEF Spawn, Unspawned
    <3>3. /\ IsFiniteSet(Unspawned \ {t})
          /\ Cardinality(Unspawned \ {t}) = Cardinality(Unspawned) - 1
      BY <1>0, <3>1, FS_RemoveElement
    <3>4. /\ Cardinality(Unspawned') <= Cardinality(Unspawned \ {t})
          /\ IsFiniteSet(Unspawned')
      BY <3>2, <3>3, FS_Subset
    <3>5. Cardinality(Unspawned') \in Nat /\ Cardinality(Unspawned) \in Nat
      BY <1>0, <3>4, FS_CardinalityType
    <3> QED
      BY <3>3, <3>4, <3>5
  <2>3. Len(task_queue)' \in Nat /\ Len(task_queue)' <= Len(task_queue) + 1
    BY <1>2, WakeCount DEF Spawn
  <2>4. Changes(1, -1, 0, 0, 0, 0)
    BY <1>1, <2>1, <2>2, <2>3, SameCounts DEF Changes
  <2>5. irqs + 1 + (-1) + 0 + 0 + 0 + 0 <= irqs' /\ irqs' \in Nat
    BY <1>0, <2>1
  <2> QED
    BY <2>4, <2>5, Balance
<1>3. CASE Run \/ TestStop \/ DisableInterrupts \/ CheckIdle \/ EnableInterrupts
  <2>1. UNCHANGED <<cur, irqs, task_queue>>
    BY <1>3 DEF Run, TestStop, DisableInterrupts, CheckIdle, EnableInterrupts
  <2>2. Unspawned' = Unspawned
    BY <1>3 DEF Unspawned, Run, TestStop, DisableInterrupts, CheckIdle,
                EnableInterrupts
  <2>3. Changes(0, 0, 0, 0, 0, 0)
    BY <1>1, <2>1, <2>2, SameCounts, CountType DEF Changes
  <2>4. irqs + 0 + 0 + 0 + 0 + 0 + 0 <= irqs' /\ irqs' \in Nat
    BY <1>0, <2>1
  <2> QED
    BY <2>3, <2>4, Balance
<1>4. CASE PopTask
  <2>1. /\ irqs' = irqs /\ task_queue # <<>>
        /\ task_queue' = Tail(task_queue)
        /\ cur = None /\ pc = "pop" /\ pc' # "spawn"
    BY <1>4 DEF PopTask, PlaceInv
  <2>2. Len(task_queue)' \in Nat /\ Len(task_queue)' <= Len(task_queue) + (-1)
    BY <2>1 DEF TypeOK, ExecutorTypeOK
  <2>3. Polled' \in Nat /\ Polled' <= Polled + 1
    BY <2>1 DEF Polled
  <2>4. Changes(-1, 0, 0, 1, 0, 0)
    BY <1>1, <2>1, <2>2, <2>3, SameCounts DEF Changes
  <2>5. irqs + (-1) + 0 + 0 + 1 + 0 + 0 <= irqs' /\ irqs' \in Nat
    BY <1>0, <2>1
  <2> QED
    BY <2>4, <2>5, Balance
<1>5. CASE PopNone
  <2>1. /\ irqs' = 0 /\ task_queue' = <<>>
        /\ pc = "pop" /\ pc' = "cli" /\ cur = None /\ cur' = cur
    BY <1>5 DEF PopNone, PlaceInv
  <2>2. Cardinality(Unspawned') = 0
    <3>1. Unspawned' = {}
      BY <2>1 DEF Unspawned
    <3> QED
      BY <3>1, FS_EmptySet
  <2>3. Polled' = 0 /\ Len(task_queue') = 0
    BY <2>1 DEF Polled
  <2>4. Waking(timer_waker)' = 0 /\ Waking(key_waker)' = 0
    BY <1>1, <2>1
       DEF WakeInv, TimerStreamInv, KeyStreamInv, StreamInv, Waking, Waiting,
           RegisteringWaking
  <2>5. /\ Cardinality(armed') <= Cardinality(Task)
        /\ Cardinality(armed') \in Nat /\ Cardinality(Task) \in Nat
    <3>1. armed \subseteq Task
      BY TimerAssumption DEF TypeOK, TimerTypeOK
    <3> QED
      BY <1>1, <3>1, CountType, FS_Subset
  <2> QED
    BY <2>1, <2>2, <2>3, <2>4, <2>5 DEF QueueInv, Pledged
<1> QED
  BY <1>2, <1>3, <1>4, <1>5 DEF ExecutorStep

\* A step of a poll that pushes nothing and pledges nothing new.
LEMMA QuietPoll ==
  ASSUME TypeOK, QueueInv, irqs' = irqs, task_queue' = task_queue,
         pc # "spawn", pc' # "spawn", cur' \in {cur, None},
         armed' \subseteq armed,
         Waking(timer_waker)' \in {0, Waking(timer_waker)},
         Waking(key_waker)' \in {0, Waking(key_waker)}
  PROVE  QueueInv'
<1>0. irqs \in Nat /\ IsFiniteSet(armed)
  BY CountType
<1>1. /\ Cardinality(armed)' \in Nat
      /\ Cardinality(armed)' <= Cardinality(armed) + 0
  <2>1. IsFiniteSet(armed') /\ Cardinality(armed') <= Cardinality(armed)
    BY <1>0, FS_Subset
  <2>2. Cardinality(armed') \in Nat /\ Cardinality(armed) \in Nat
    BY <1>0, <2>1, FS_CardinalityType
  <2> QED
    BY <2>1, <2>2
<1>2. Polled' \in Nat /\ Polled' <= Polled + 0
  BY DEF Polled
<1>3. /\ Waking(timer_waker)' \in Nat
      /\ Waking(timer_waker)' <= Waking(timer_waker) + 0
  <2>1. Waking(timer_waker) \in {0, 1}
    BY DEF Waking
  <2> QED
    BY <2>1
<1>4. /\ Waking(key_waker)' \in Nat
      /\ Waking(key_waker)' <= Waking(key_waker) + 0
  <2>1. Waking(key_waker) \in {0, 1}
    BY DEF Waking
  <2> QED
    BY <2>1
<1>5. Changes(0, 0, 0, 0, 0, 0)
  BY <1>1, <1>2, <1>3, <1>4, SameCounts DEF Changes
<1>6. irqs + 0 + 0 + 0 + 0 + 0 + 0 <= irqs' /\ irqs' \in Nat
  BY <1>0
<1> QED
  BY <1>5, <1>6, Balance

\* The cell after each of its operations.
LEMMA WakingCell ==
  ASSUME NEW id, id # None, NEW cell \in Cell({id})
  PROVE  /\ Waking(BeginRegister(cell)) = 0
         /\ Waking(EndRegister(cell, id)) = 0
         /\ RegisterWakes(cell) => Waking(cell) = 1
         /\ cell.state = Waiting => Waking(cell) = 0 /\ Waking(Taken(cell)) = 0
         /\ Waking(Taken(cell)) \in {0, 1}
BY CellEffect DEF Waking, Waiting, Registering, RegisteringWaking

\* timer_loop and the sleepers: decrement_all pushes an entry for a sleeper it
\* disarms, register one for the wake it found, and a sleeper that arms its
\* sleep leaves the CPU.
LEMMA QueueTimer ==
  ASSUME TypeOK, PlaceInv, WakeInv, QueueInv, TimerStep, UNCHANGED keyVars,
         irqs' = irqs
  PROVE  QueueInv'
<1>0. /\ irqs \in Nat /\ IsFiniteSet(armed)
      /\ Waking(key_waker)' = Waking(key_waker) /\ key_waker' = key_waker
      /\ timer_waker \in Cell({TimerTask}) /\ TimerTask # None
  BY CountType, TimerAssumption, ExecutorAssumption
     DEF TypeOK, TimerTypeOK, keyVars, Waking
<1>1. CASE \/ TimerStreamNew \/ TimerFirstTry \/ TimerSecondTry
           \/ DecrementDone
           \/ \E t \in Sleeper : SleepNew(t) \/ SleeperDone(t)
  <2>1. /\ task_queue' = task_queue /\ pc # "spawn" /\ pc' # "spawn"
        /\ cur' \in {cur, None} /\ armed' = armed
        /\ timer_waker' = timer_waker
    BY <1>1
       DEF TimerStreamNew, TimerFirstTry, TimerSecondTry, DecrementDone,
           SleepNew, SleeperDone, StartDecrement, At, GoTo, ReturnPending,
           ReturnReady, timerVars
  <2>2. Waking(timer_waker)' = Waking(timer_waker)
    BY <2>1 DEF Waking
  <2> QED
    BY <1>0, <2>1, <2>2, QuietPoll
<1>2. CASE TimerRegister \/ TimerTake
  <2>1. /\ task_queue' = task_queue /\ pc # "spawn" /\ pc' # "spawn"
        /\ cur' = cur /\ armed' = armed
    BY <1>2 DEF TimerRegister, TimerTake, StartDecrement, At, GoTo
  <2>2. Waking(timer_waker') = 0
    <3>1. CASE TimerRegister
      BY <1>0, <3>1, WakingCell DEF TimerRegister
    <3>2. CASE TimerTake
      <4>1. timer_waker.state = Waiting
        BY <3>2 DEF TimerTake, At, WakeInv, TimerStreamInv, StreamInv
      <4> QED
        BY <1>0, <3>2, <4>1, WakingCell DEF TimerTake
    <3> QED
      BY <1>2, <3>1, <3>2
  <2>3. Waking(timer_waker)' = 0
    BY <2>2 DEF Waking
  <2> QED
    BY <1>0, <2>1, <2>3, QuietPoll
<1>3. CASE TimerRegistered
  <2>1. /\ pc # "spawn" /\ pc' # "spawn" /\ cur' = cur /\ armed' = armed
    BY <1>3 DEF TimerRegistered, At, GoTo, WakeTask
  <2>2. Waking(timer_waker)' = 0
    <3>1. Waking(timer_waker') = 0
      BY <1>0, <1>3, WakingCell DEF TimerRegistered
    <3> QED
      BY <3>1 DEF Waking
  <2>3. CASE RegisterWakes(timer_waker)
    <3>1. /\ Len(task_queue)' \in Nat
          /\ Len(task_queue)' <= Len(task_queue) + 1
      BY <1>3, <2>3, WakeCount, TimerAssumption DEF TimerRegistered
    <3>2. Waking(timer_waker) = 1
      BY <1>0, <2>3, WakingCell
    <3>3. /\ Waking(timer_waker)' \in Nat
          /\ Waking(timer_waker)' <= Waking(timer_waker) + (-1)
      BY <2>2, <3>2
    <3>4. Changes(1, 0, 0, 0, -1, 0)
      BY <1>0, <2>1, <3>1, <3>3, SameCounts DEF Changes
    <3>5. irqs + 1 + 0 + 0 + 0 + (-1) + 0 <= irqs' /\ irqs' \in Nat
      BY <1>0
    <3> QED
      BY <3>4, <3>5, Balance
  <2>4. CASE ~RegisterWakes(timer_waker)
    <3>1. task_queue' = task_queue
      BY <1>3, <2>4 DEF TimerRegistered, GoTo
    <3> QED
      BY <1>0, <2>1, <2>2, <3>1, QuietPoll
  <2> QED
    BY <2>3, <2>4
<1>4. ASSUME NEW t \in Sleeper, Decrement(t) PROVE QueueInv'
  <2>1. /\ pc # "spawn" /\ pc' # "spawn" /\ cur' = cur
        /\ timer_waker' = timer_waker
    BY <1>4 DEF Decrement, At, GoTo, WakeTask
  <2>2. CASE t \in armed /\ armed' = armed \ {t} /\ WakeTask(t, "decrement")
    <3>1. /\ Len(task_queue)' \in Nat
          /\ Len(task_queue)' <= Len(task_queue) + 1
      BY <2>2, WakeCount, TimerAssumption
    <3>2. /\ Cardinality(armed)' \in Nat
          /\ Cardinality(armed)' <= Cardinality(armed) + (-1)
      BY <1>0, <2>2, CountOne
    <3>3. Changes(1, 0, -1, 0, 0, 0)
      BY <1>0, <2>1, <3>1, <3>2, SameCounts DEF Changes
    <3>4. irqs + 1 + 0 + (-1) + 0 + 0 + 0 <= irqs' /\ irqs' \in Nat
      BY <1>0
    <3> QED
      BY <3>3, <3>4, Balance
  <2>3. CASE armed' = armed /\ task_queue' = task_queue
    <3>1. Waking(timer_waker)' = Waking(timer_waker)
      BY <2>1 DEF Waking
    <3> QED
      BY <1>0, <2>1, <2>3, <3>1, QuietPoll
  <2> QED
    BY <1>4, <2>2, <2>3 DEF Decrement, GoTo
<1>5. ASSUME NEW t \in Sleeper, SleepReady(t) PROVE QueueInv'
  <2>1. /\ task_queue' = task_queue /\ pc # "spawn" /\ pc' # "spawn"
        /\ cur' = cur /\ armed' = armed \ {t} /\ timer_waker' = timer_waker
    BY <1>5 DEF SleepReady, At, GoTo
  <2>2. Waking(timer_waker)' = Waking(timer_waker)
    BY <2>1 DEF Waking
  <2> QED
    BY <1>0, <2>1, <2>2, QuietPoll
<1>6. ASSUME NEW t \in Sleeper, SleepPending(t) PROVE QueueInv'
  <2>1. /\ task_queue' = task_queue /\ pc # "spawn" /\ pc' # "spawn"
        /\ cur = t /\ cur' = None
        /\ armed' = armed \cup {t} /\ timer_waker' = timer_waker
    BY <1>6 DEF SleepPending, At, ReturnPending
  <2>2. t # None
    BY TimerAssumption, ExecutorAssumption
  <2>3. Polled' \in Nat /\ Polled' <= Polled + (-1)
    BY <2>1, <2>2 DEF Polled
  <2>4. /\ Cardinality(armed)' \in Nat
        /\ Cardinality(armed)' <= Cardinality(armed) + 1
    BY Zenon, <1>0, <2>1, CountOne
  <2>5. Changes(0, 0, 1, -1, 0, 0)
    BY <1>0, <2>1, <2>3, <2>4, SameCounts DEF Changes
  <2>6. irqs + 0 + 0 + 1 + (-1) + 0 + 0 <= irqs' /\ irqs' \in Nat
    BY <1>0
  <2> QED
    BY <2>5, <2>6, Balance
<1> QED
  BY <1>1, <1>2, <1>3, <1>4, <1>5, <1>6 DEF TimerStep

\* print_keypresses: register pushes an entry for the wake it found.
LEMMA QueueKeyboard ==
  ASSUME TypeOK, PlaceInv, WakeInv, QueueInv, KeyboardStep,
         UNCHANGED timerVars, irqs' = irqs
  PROVE  QueueInv'
<1>0. /\ irqs \in Nat /\ armed' = armed
      /\ Waking(timer_waker)' = Waking(timer_waker)
      /\ timer_waker' = timer_waker
      /\ key_waker \in Cell({KeyTask}) /\ KeyTask # None
  BY CountType, KeyboardAssumption, ExecutorAssumption
     DEF TypeOK, KeyboardTypeOK, timerVars, Waking
<1>1. CASE ScancodeStreamNew \/ KeyFirstTry \/ KeySecondTry \/ HandleKey
  <2>1. /\ task_queue' = task_queue /\ pc # "spawn" /\ pc' # "spawn"
        /\ cur' \in {cur, None} /\ key_waker' = key_waker
    BY <1>1
       DEF ScancodeStreamNew, KeyFirstTry, KeySecondTry, HandleKey, At, GoTo,
           ReturnPending
  <2>2. Waking(key_waker)' = Waking(key_waker)
    BY <2>1 DEF Waking
  <2> QED
    BY <1>0, <2>1, <2>2, QuietPoll
<1>2. CASE KeyRegister \/ KeyTake
  <2>1. /\ task_queue' = task_queue /\ pc # "spawn" /\ pc' # "spawn"
        /\ cur' = cur
    BY <1>2 DEF KeyRegister, KeyTake, At, GoTo
  <2>2. Waking(key_waker') = 0
    <3>1. CASE KeyRegister
      BY <1>0, <3>1, WakingCell DEF KeyRegister
    <3>2. CASE KeyTake
      <4>1. key_waker.state = Waiting
        BY <3>2 DEF KeyTake, At, WakeInv, KeyStreamInv, StreamInv
      <4> QED
        BY Zenon, <1>0, <3>2, <4>1, WakingCell DEF KeyTake
    <3> QED
      BY <1>2, <3>1, <3>2
  <2>3. Waking(key_waker)' = 0
    BY <2>2 DEF Waking
  <2> QED
    BY <1>0, <2>1, <2>3, QuietPoll
<1>3. CASE KeyRegistered
  <2>1. pc # "spawn" /\ pc' # "spawn" /\ cur' = cur
    BY <1>3 DEF KeyRegistered, At, GoTo, WakeTask
  <2>2. Waking(key_waker)' = 0
    <3>1. Waking(key_waker') = 0
      BY <1>0, <1>3, WakingCell DEF KeyRegistered
    <3> QED
      BY <3>1 DEF Waking
  <2>3. CASE RegisterWakes(key_waker)
    <3>1. /\ Len(task_queue)' \in Nat
          /\ Len(task_queue)' <= Len(task_queue) + 1
      BY <1>3, <2>3, WakeCount, KeyboardAssumption DEF KeyRegistered
    <3>2. Waking(key_waker) = 1
      BY <1>0, <2>3, WakingCell
    <3>3. /\ Waking(key_waker)' \in Nat
          /\ Waking(key_waker)' <= Waking(key_waker) + (-1)
      BY <2>2, <3>2
    <3>4. Changes(1, 0, 0, 0, 0, -1)
      BY <1>0, <2>1, <3>1, <3>3, SameCounts DEF Changes
    <3>5. irqs + 1 + 0 + 0 + 0 + 0 + (-1) <= irqs' /\ irqs' \in Nat
      BY <1>0
    <3> QED
      BY <3>4, <3>5, Balance
  <2>4. CASE ~RegisterWakes(key_waker)
    <3>1. task_queue' = task_queue
      BY <1>3, <2>4 DEF KeyRegistered, GoTo
    <3> QED
      BY <1>0, <2>1, <2>2, <3>1, QuietPoll
  <2> QED
    BY <2>3, <2>4
<1> QED
  BY <1>1, <1>2, <1>3 DEF KeyboardStep

\* A handler pushes at most one entry.
LEMMA HandlerCounts ==
  ASSUME TypeOK, NEW id \in Task \cup {None}, WakeFromHandler(id)
  PROVE  /\ Len(task_queue)' \in Nat
         /\ Len(task_queue)' <= Len(task_queue) + 1
         /\ id = None => Len(task_queue)' <= Len(task_queue) + 0
         /\ Cardinality(Unspawned)' \in Nat
         /\ Cardinality(Unspawned)' <= Cardinality(Unspawned) + 0
         /\ cur' = cur
<1>0. Len(task_queue) \in Nat /\ IsFiniteSet(Unspawned)
  BY CountType
<1>1. /\ Len(task_queue)' \in Nat
      /\ Len(task_queue)' <= Len(task_queue) + 1
      /\ id = None => Len(task_queue)' <= Len(task_queue) + 0
  <2>1. CASE id = None
    <3>1. task_queue' = task_queue
      BY <2>1 DEF WakeFromHandler
    <3> QED
      BY <1>0, <3>1
  <2>2. CASE id # None
    BY <2>2, WakeCount DEF WakeFromHandler
  <2> QED
    BY <2>1, <2>2
<1>2. /\ Cardinality(Unspawned)' \in Nat
      /\ Cardinality(Unspawned)' <= Cardinality(Unspawned) + 0
  <2>1. Unspawned' \subseteq Unspawned
    BY DEF Unspawned, WakeFromHandler, WakeTask, Resumed
  <2>2. /\ IsFiniteSet(Unspawned')
        /\ Cardinality(Unspawned') <= Cardinality(Unspawned)
    BY <1>0, <2>1, FS_Subset
  <2>3. Cardinality(Unspawned') \in Nat /\ Cardinality(Unspawned) \in Nat
    BY <1>0, <2>2, FS_CardinalityType
  <2> QED
    BY <2>2, <2>3
<1> QED
  BY <1>1, <1>2 DEF WakeFromHandler

\* The handlers: an entry, or the mark that makes register push one, for each
\* interrupt.
LEMMA QueueInterrupt ==
  ASSUME TypeOK, QueueInv, TimerInterrupt \/ KeyboardInterrupt
  PROVE  QueueInv'
<1>0. /\ irqs \in Nat /\ irqs' = irqs + 1 /\ irqs' \in Nat
      /\ timer_waker \in Cell({TimerTask}) /\ TimerTask # None
      /\ key_waker \in Cell({KeyTask}) /\ KeyTask # None
      /\ TimerTask \in Task /\ KeyTask \in Task
  <2>1. irqs \in Nat /\ irqs' = irqs + 1
    BY CountType DEF TimerInterrupt, KeyboardInterrupt, Interrupt
  <2>2. timer_waker \in Cell({TimerTask}) /\ key_waker \in Cell({KeyTask})
    BY DEF TypeOK, TimerTypeOK, KeyboardTypeOK
  <2>3. TimerTask \in Task /\ KeyTask \in Task
    BY TimerAssumption, KeyboardAssumption
  <2>4. TimerTask # None /\ KeyTask # None
    BY <2>3, ExecutorAssumption
  <2> QED
    BY <2>1, <2>2, <2>3, <2>4
<1>1. armed' = armed
  BY DEF TimerInterrupt, KeyboardInterrupt, RaiseTimer, timerVars
<1>2. /\ irqs + 1 + 0 + 0 + 0 + 0 + 0 <= irqs'
      /\ irqs + 0 + 0 + 0 + 0 + 1 + 0 <= irqs'
      /\ irqs + 0 + 0 + 0 + 0 + 0 + 1 <= irqs'
  BY <1>0
<1>3. ASSUME NEW id \in Task \cup {None}, WakeFromHandler(id),
             Waking(timer_waker)' \in Nat, Waking(key_waker)' \in Nat,
             Waking(timer_waker)' <= Waking(timer_waker) + 0,
             Waking(key_waker)' <= Waking(key_waker) + 0
      PROVE  QueueInv'
  <2>1. Changes(1, 0, 0, 0, 0, 0)
    BY <1>1, <1>3, HandlerCounts, SameCounts DEF Changes
  <2> QED
    BY <1>0, <1>2, <2>1, Balance
<1>4. CASE TimerInterrupt
  <2>1. key_waker' = key_waker /\ RaiseTimer
    BY <1>4 DEF TimerInterrupt, keyVars
  <2>2. CASE timer_flag = "uninit"
    <3>1. timer_waker' = timer_waker /\ WakeFromHandler(None)
      BY <2>1, <2>2 DEF RaiseTimer
    <3> QED
      BY <1>3, <2>1, <3>1, SameCounts
  <2>3. CASE timer_flag # "uninit" /\ timer_waker.state = Waiting
    <3>1. /\ timer_waker' = Taken(timer_waker)
          /\ WakeFromHandler(Woken(timer_waker))
          /\ Woken(timer_waker) \in Task \cup {None}
      BY <1>0, <2>1, <2>3, CellType DEF RaiseTimer
    <3>2. Waking(timer_waker') = 0 /\ Waking(timer_waker) = 0
      BY Zenon, <1>0, <2>3, <3>1, WakingCell
    <3>3. Waking(timer_waker)' \in Nat
          /\ Waking(timer_waker)' <= Waking(timer_waker) + 0
      <4>1. Waking(timer_waker)' = 0
        BY <3>2 DEF Waking
      <4> QED
        BY <3>2, <4>1
    <3> QED
      BY <1>3, <2>1, <3>1, <3>3, SameCounts
  <2>4. CASE timer_flag # "uninit" /\ timer_waker.state # Waiting
    <3>1. /\ timer_waker' = Taken(timer_waker)
          /\ WakeFromHandler(None)
      BY <1>0, <2>1, <2>4, CellEffect DEF RaiseTimer
    <3>2. /\ Waking(timer_waker)' \in Nat
          /\ Waking(timer_waker)' <= Waking(timer_waker) + 1
      BY DEF Waking
    <3>3. Changes(0, 0, 0, 0, 1, 0)
      BY <1>1, <2>1, <3>1, <3>2, HandlerCounts, SameCounts DEF Changes
    <3> QED
      BY <1>0, <1>2, <3>3, Balance
  <2> QED
    BY <2>2, <2>3, <2>4
<1>5. CASE KeyboardInterrupt
  <2>1. PICK sc \in Scancode : AddScancode(sc) /\ timer_waker' = timer_waker
    BY <1>5 DEF KeyboardInterrupt, timerVars
  <2>2. CASE key_waker' = key_waker /\ WakeFromHandler(None)
    BY <1>3, <2>1, <2>2, SameCounts
  <2>3. CASE /\ key_waker' = Taken(key_waker)
             /\ WakeFromHandler(Woken(key_waker))
             /\ key_waker.state = Waiting
    <3>1. Woken(key_waker) \in Task \cup {None}
      BY Zenon, <1>0, CellType
    <3>2. Waking(key_waker') = 0 /\ Waking(key_waker) = 0
      BY <1>0, <2>3, WakingCell
    <3>3. Waking(key_waker)' \in Nat
          /\ Waking(key_waker)' <= Waking(key_waker) + 0
      BY <3>2 DEF Waking
    <3> QED
      BY <1>3, <2>1, <2>3, <3>1, <3>3, SameCounts
  <2>4. CASE /\ key_waker' = Taken(key_waker)
             /\ WakeFromHandler(Woken(key_waker))
             /\ key_waker.state # Waiting
    <3>1. WakeFromHandler(None)
      BY ZenonT(30), <1>0, <2>4, CellEffect
    <3>2. /\ Waking(key_waker)' \in Nat
          /\ Waking(key_waker)' <= Waking(key_waker) + 1
      BY DEF Waking
    <3>3. Changes(0, 0, 0, 0, 0, 1)
      BY <1>1, <2>1, <3>1, <3>2, HandlerCounts, SameCounts DEF Changes
    <3> QED
      BY <1>0, <1>2, <3>3, Balance
  <2> QED
    BY <2>1, <2>2, <2>3, <2>4 DEF AddScancode, keyVars
<1> QED
  BY <1>4, <1>5

LEMMA QueueStep ==
  ASSUME TypeOK, PlaceInv, WakeInv, QueueInv, [Next]_vars
  PROVE  QueueInv'
<1>1. CASE Thread
  <2>1. irqs' = IF pc = "pop" /\ task_queue = <<>> THEN 0 ELSE irqs
    BY <1>1 DEF Thread
  <2>2. CASE ExecutorStep /\ UNCHANGED <<timerVars, keyVars>>
    BY <2>1, <2>2, QueueExecutor
  <2>3. CASE TimerStep /\ UNCHANGED keyVars
    <3>1. pc # "pop"
      BY <2>3 DEF TimerStep, TimerStreamNew, TimerFirstTry, TimerRegister,
                  TimerRegistered, TimerSecondTry, TimerTake, DecrementDone,
                  Decrement, SleepNew, SleepReady, SleepPending, SleeperDone,
                  At
    <3> QED
      BY <2>1, <2>3, <3>1, QueueTimer
  <2>4. CASE KeyboardStep /\ UNCHANGED timerVars
    <3>1. pc # "pop"
      BY <2>4 DEF KeyboardStep, ScancodeStreamNew, KeyFirstTry, KeyRegister,
                  KeyRegistered, KeySecondTry, KeyTake, HandleKey, At
    <3> QED
      BY <2>1, <2>4, <3>1, QueueKeyboard
  <2> QED
    BY <1>1, <2>2, <2>3, <2>4 DEF Thread
<1>2. CASE TimerInterrupt \/ KeyboardInterrupt
  BY <1>2, QueueInterrupt
<1>3. CASE UNCHANGED vars
  <2>1. UNCHANGED <<task_queue, irqs>> /\ Pledged' = Pledged
    BY <1>3 DEF vars, executorVars, timerVars, keyVars, Pledged, Unspawned,
                Polled, Waking
  <2> QED
    BY <2>1 DEF QueueInv
<1> QED
  BY <1>1, <1>2, <1>3 DEF Next, Stopped

LEMMA QueueCounted == Spec => []QueueInv
<1>1. Init => QueueInv
  <2> SUFFICES ASSUME Init PROVE QueueInv
    OBVIOUS
  <2>1. /\ Len(task_queue) = 0 /\ irqs = 0 /\ armed = {} /\ Unspawned = Task
        /\ Polled = 0 /\ Waking(timer_waker) = 0 /\ Waking(key_waker) = 0
    BY DEF Init, ExecutorInit, TimerInit, KeyboardInit, EmptyCell, Unspawned,
           Polled, Waking, Waiting, RegisteringWaking
  <2>2. Cardinality(armed) = 0 /\ Cardinality(Task) \in Nat
    BY <2>1, FS_EmptySet, KernelAssumption, FS_CardinalityType
  <2> QED
    BY <2>1, <2>2 DEF QueueInv, Pledged
<1>2. TypeOK /\ PlaceInv /\ WakeInv /\ QueueInv /\ [Next]_vars => QueueInv'
  BY QueueStep
<1> QED
  BY <1>1, <1>2, TypeCorrect, WakeCorrect, PTL DEF Spec

\* task_queue holds at most one entry per task and one for each interrupt
\* since run_ready_tasks last found it empty (QueueBound): the duplicates that
\* handlers leave behind when they run during a poll do not pile up.
THEOREM QueueIsBounded == Spec => []QueueBound
<1>1. TypeOK /\ QueueInv => QueueBound
  <2> SUFFICES ASSUME TypeOK, QueueInv PROVE QueueBound
    OBVIOUS
  <2> DEFINE l == Len(task_queue)  n == Cardinality(Task)  i == irqs  p == Pledged
  <2>1. l \in Nat /\ n \in Nat /\ i \in Nat
    BY CountType
  <2>2. p \in Nat
    <3>1. Polled \in Nat /\ Waking(timer_waker) \in Nat /\ Waking(key_waker) \in Nat
      BY DEF Polled, Waking
    <3> QED
      BY <3>1, CountType DEF Pledged
  <2>3. l + p <= n + i
    BY DEF QueueInv
  <2>4. l <= n + i
    <3> HIDE DEF l, n, i, p
    <3> QED
      BY <2>1, <2>2, <2>3
  <2> QED
    BY <2>4 DEF QueueBound
<1> QED
  BY <1>1, TypeCorrect, QueueCounted, PTL

\* With room for every task and MaxIrqs interrupts, an entry that is pledged,
\* or that an interrupt pushes, finds a place.
Roomy == Cardinality(Task) + MaxIrqs <= QueueCap

LEMMA Room ==
  ASSUME TypeOK, QueueInv, Roomy,
         \/ irqs < MaxIrqs
         \/ Unspawned # {}
         \/ armed # {}
         \/ RegisterWakes(timer_waker)
         \/ RegisterWakes(key_waker)
  PROVE  Len(task_queue) < QueueCap
<1> DEFINE l == Len(task_queue)  u == Cardinality(Unspawned)
           a == Cardinality(armed)  p == Polled  t == Waking(timer_waker)
           k == Waking(key_waker)  n == Cardinality(Task)  i == irqs
           m == MaxIrqs  q == QueueCap
<1>1. /\ l \in Nat /\ u \in Nat /\ a \in Nat /\ n \in Nat /\ i \in Nat
      /\ m \in Nat /\ q \in Nat
  BY CountType, KernelAssumption, ExecutorAssumption
<1>2. p \in Nat /\ t \in Nat /\ k \in Nat
  BY DEF Polled, Waking
<1>3. i <= m
  BY DEF TypeOK
<1>4. i < m \/ u # 0 \/ a # 0 \/ t # 0 \/ k # 0
  <2>1. Unspawned # {} => Cardinality(Unspawned) # 0
    BY CountType, FS_EmptySet
  <2>2. armed # {} => Cardinality(armed) # 0
    BY CountType, FS_EmptySet
  <2>3. /\ RegisterWakes(timer_waker) => Waking(timer_waker) = 1
        /\ RegisterWakes(key_waker) => Waking(key_waker) = 1
    BY DEF RegisterWakes, Waking
  <2> QED
    BY <2>1, <2>2, <2>3
<1>5. l + (u + a + p + t + k) <= n + i /\ n + m <= q
  BY DEF QueueInv, Pledged, Roomy
<1>6. l < q
  <2> HIDE DEF l, u, a, p, t, k, n, i, m, q
  <2> QED
    BY <1>1, <1>2, <1>3, <1>4, <1>5
<1> QED
  BY <1>6

\* The only way into a panic is then the unwrap that a raw key meets.
LEMMA PanicCause ==
  ASSUME TypeOK, QueueInv, Roomy, [Next]_vars, pc # "panic", pc' = "panic"
  PROVE  HandleKey /\ key = "raw"
<1>1. ASSUME NEW id, NEW next, next # "panic", WakeTask(id, next)
      PROVE  ~(Len(task_queue) < QueueCap)
  BY <1>1 DEF WakeTask
<1>2. ASSUME NEW t \in Task, Spawn(t) PROVE FALSE
  <2>1. Unspawned # {}
    BY <1>2 DEF Spawn, Unspawned
  <2>2. Len(task_queue) < QueueCap
    BY <2>1, Room
  <2> QED
    BY <1>1, <1>2, <2>2 DEF Spawn
<1>3. CASE ExecutorStep
  BY <1>2, <1>3
     DEF ExecutorStep, Run, TestStop, PopTask, PopNone, DisableInterrupts,
         CheckIdle, EnableInterrupts
<1>4. ASSUME TimerRegistered PROVE FALSE
  <2>1. RegisterWakes(timer_waker) /\ WakeTask(TimerTask, "recheck")
    BY <1>4 DEF TimerRegistered, GoTo
  <2>2. Len(task_queue) < QueueCap
    BY <2>1, Room
  <2> QED
    BY <1>1, <2>1, <2>2
<1>5. ASSUME NEW t \in Sleeper, Decrement(t) PROVE FALSE
  <2>1. t \in armed /\ WakeTask(t, "decrement")
    BY <1>5 DEF Decrement, GoTo
  <2>2. Len(task_queue) < QueueCap
    BY <2>1, Room
  <2> QED
    BY <1>1, <2>1, <2>2
<1>6. CASE TimerStep
  BY <1>4, <1>5, <1>6
     DEF TimerStep, TimerStreamNew, TimerFirstTry, StartDecrement,
         TimerRegister, TimerSecondTry, TimerTake, DecrementDone, SleepNew,
         SleepReady, SleepPending, SleeperDone, GoTo, ReturnPending,
         ReturnReady
<1>7. ASSUME KeyRegistered PROVE FALSE
  <2>1. RegisterWakes(key_waker) /\ WakeTask(KeyTask, "recheck")
    BY <1>7 DEF KeyRegistered, GoTo
  <2>2. Len(task_queue) < QueueCap
    BY <2>1, Room
  <2> QED
    BY <1>1, <2>1, <2>2
<1>8. CASE KeyboardStep
  BY <1>7, <1>8
     DEF KeyboardStep, ScancodeStreamNew, KeyFirstTry, KeyRegister,
         KeySecondTry, KeyTake, HandleKey, GoTo, ReturnPending
<1>9. ASSUME TimerInterrupt \/ KeyboardInterrupt PROVE FALSE
  <2>1. irqs < MaxIrqs
    BY <1>9 DEF TimerInterrupt, KeyboardInterrupt, Interrupt
  <2>2. PICK id \in Task \cup {None} : WakeFromHandler(id)
    BY <1>9, HandlerPlace
  <2>3. Len(task_queue) < QueueCap
    BY <2>1, Room
  <2>4. Resumed # "panic"
    BY DEF Resumed
  <2> QED
    BY <1>1, <2>2, <2>3, <2>4 DEF WakeFromHandler
<1> QED
  BY <1>3, <1>6, <1>8, <1>9 DEF Next, Thread, Stopped, vars, executorVars

\* With a task_queue that has room for every task and for MaxIrqs interrupts,
\* no push of the kernel fails (NoPanic).  It takes a keyboard without raw
\* keys: print_keypresses panics on those whatever the queue (UnwrapsSucceed).
THEOREM NothingPanics ==
  ASSUME "raw" \notin Scancode
  PROVE  Spec => []NoPanic
<1>1. Init => NoPanic
  BY DEF Init, ExecutorInit, NoPanic
<1>2. TypeOK /\ PlaceInv /\ QueueInv /\ NoPanic /\ [Next]_vars => NoPanic'
  <2> SUFFICES ASSUME TypeOK, PlaceInv, QueueInv, NoPanic, [Next]_vars, Roomy
               PROVE  pc' # "panic"
    BY DEF NoPanic, Roomy
  <2>1. pc # "panic"
    BY DEF NoPanic, Roomy
  <2>2. HandleKey => key \in Scancode
    BY DEF HandleKey, At, PlaceInv
  <2> QED
    BY <2>1, <2>2, PanicCause
<1> QED
  BY <1>1, <1>2, TypeCorrect, QueueCounted, PTL DEF Spec

----------------------------------------------------------------------------
(***************************************************************************)
(* The channels.  Each step of the kernel is a step of the channel of the  *)
(* timer, and of the channel of the keyboard, or leaves it alone.          *)
(***************************************************************************)

Halted == pc \in {"exit", "panic"}

\* task t is being polled or will be
Runs(t) == cur = t \/ InQueue(t)

\* Once the executor has returned or the kernel has panicked, it stays so, and
\* only handlers run.
LEMMA HaltedStays ==
  ASSUME TypeOK, [Next]_vars, Halted
  PROVE  Halted' /\ ~Thread
<1>1. ~Thread
  <2>1. ~ExecutorStep
    BY DEF Halted, ExecutorStep, Spawn, Run, TestStop, PopTask, PopNone,
           DisableInterrupts, CheckIdle, EnableInterrupts
  <2>2. ~TimerStep
    BY DEF Halted, TimerStep, TimerStreamNew, TimerFirstTry, TimerRegister,
           TimerRegistered, TimerSecondTry, TimerTake, DecrementDone,
           Decrement, SleepNew, SleepReady, SleepPending, SleeperDone, At
  <2>3. ~KeyboardStep
    BY DEF Halted, KeyboardStep, ScancodeStreamNew, KeyFirstTry, KeyRegister,
           KeyRegistered, KeySecondTry, KeyTake, HandleKey, At
  <2> QED
    BY <2>1, <2>2, <2>3 DEF Thread
<1>2. CASE TimerInterrupt \/ KeyboardInterrupt
  <2>1. PICK id \in Task \cup {None} : WakeFromHandler(id)
    BY <1>2, HandlerPlace
  <2>2. pc' \in {Resumed, "panic"}
    BY <2>1 DEF WakeFromHandler, WakeTask
  <2> QED
    BY <1>1, <2>2 DEF Resumed, Halted
<1>3. CASE UNCHANGED vars
  BY <1>1, <1>3 DEF vars, executorVars, Halted
<1> QED
  BY <1>1, <1>2, <1>3 DEF Next, Stopped

\* The executor pops a task in order to poll it, and spawns only new tasks.
LEMMA RunsExecutor ==
  ASSUME TypeOK, PlaceInv, TokenInv, ExecutorStep, NEW t \in tasks
  PROVE  Runs(t)' <=> Runs(t)
<1>0. task_queue \in Seq(Task) /\ None \notin Task /\ t \in Task
  BY ExecutorAssumption DEF TypeOK, ExecutorTypeOK
<1>1. ASSUME NEW s \in Task, Spawn(s) PROVE Runs(t)' <=> Runs(t)
  <2>1. s # t /\ cur' = cur /\ WakeTask(s, "spawn")
    BY <1>1 DEF Spawn
  <2>2. InQueue(t)' <=> InQueue(t)
    BY <1>0, <2>1, WakeEffect
  <2> QED
    BY <2>1, <2>2 DEF Runs
<1>2. CASE PopTask
  <2> DEFINE id == Head(task_queue)
  <2>1. /\ id \in Task /\ InQueue(id)
        /\ InQueue(t) => InQueue(t)' \/ t = id
        /\ InQueue(t)' => InQueue(t)
    BY <1>0, <1>2, PopHead DEF PopTask
  <2>2. id \in tasks
    BY <2>1 DEF TokenInv
  <2>3. cur = None /\ cur' = id
    BY <1>2, <2>2 DEF PopTask, PlaceInv
  <2> HIDE DEF id
  <2> QED
    BY <1>0, <2>1, <2>3 DEF Runs
<1>3. CASE Run \/ TestStop \/ PopNone \/ DisableInterrupts \/ CheckIdle
             \/ EnableInterrupts
  <2>1. UNCHANGED <<task_queue, cur>>
    BY <1>3 DEF Run, TestStop, PopNone, DisableInterrupts, CheckIdle,
                EnableInterrupts
  <2> QED
    BY <2>1, SameQueue DEF Runs
<1> QED
  BY <1>1, <1>2, <1>3 DEF ExecutorStep

\* A poll concerns a stream's task only if it is its own, and then the task
\* stays polled until the second try.
LEMMA RunsPoll ==
  ASSUME TypeOK, TimerStep \/ KeyboardStep, NEW t \in {TimerTask, KeyTask},
         ~At("recheck", t)
  PROVE  Runs(t)' <=> Runs(t)
<1>0. /\ task_queue \in Seq(Task) /\ t # None /\ t \notin Sleeper
      /\ Sleeper \subseteq Task /\ TimerTask \in Task /\ KeyTask \in Task
  BY ExecutorAssumption, TimerAssumption, KeyboardAssumption
     DEF TypeOK, ExecutorTypeOK
<1>1. CASE task_queue' = task_queue /\ cur' = cur
  BY <1>1, SameQueue DEF Runs
<1>2. CASE task_queue' = task_queue /\ cur # t /\ cur' = None
  BY <1>0, <1>2, SameQueue DEF Runs
<1>3. ASSUME NEW id \in Task, NEW next, WakeTask(id, next), cur' = cur,
             id \in Sleeper \/ id = cur
      PROVE  Runs(t)' <=> Runs(t)
  <2>1. CASE cur = t
    BY <1>3, <2>1 DEF Runs
  <2>2. CASE cur # t
    <3>1. InQueue(t)' <=> InQueue(t)
      BY <1>0, <1>3, <2>2, WakeEffect
    <3> QED
      BY <1>3, <3>1 DEF Runs
  <2> QED
    BY <2>1, <2>2
<1>4. CASE TimerStreamNew \/ TimerFirstTry \/ TimerRegister \/ TimerTake
             \/ DecrementDone
  BY <1>1, <1>4 DEF TimerStreamNew, TimerFirstTry, TimerRegister, TimerTake,
     DecrementDone, StartDecrement, GoTo
<1>5. CASE TimerRegistered
  BY <1>0, <1>1, <1>3, <1>5 DEF TimerRegistered, GoTo, At
<1>6. CASE TimerSecondTry
  BY <1>1, <1>2, <1>6 DEF TimerSecondTry, GoTo, ReturnPending, At
<1>7. ASSUME NEW s \in Sleeper,
             \/ Decrement(s) \/ SleepNew(s) \/ SleepReady(s)
             \/ SleepPending(s) \/ SleeperDone(s)
      PROVE  Runs(t)' <=> Runs(t)
  <2>1. CASE Decrement(s)
    BY <1>0, <1>1, <1>3, <2>1 DEF Decrement, GoTo
  <2>2. CASE SleepNew(s) \/ SleepReady(s)
    BY <1>1, <2>2 DEF SleepNew, SleepReady, GoTo
  <2>3. CASE SleepPending(s) \/ SleeperDone(s)
    BY <1>0, <1>2, <2>3
       DEF SleepPending, SleeperDone, ReturnPending, ReturnReady, At
  <2> QED
    BY <1>7, <2>1, <2>2, <2>3
<1>8. CASE ScancodeStreamNew \/ KeyFirstTry \/ KeyRegister \/ KeyTake
             \/ HandleKey
  BY <1>1, <1>8 DEF ScancodeStreamNew, KeyFirstTry, KeyRegister, KeyTake,
     HandleKey, GoTo
<1>9. CASE KeyRegistered
  BY <1>0, <1>1, <1>3, <1>9 DEF KeyRegistered, GoTo, At
<1>10. CASE KeySecondTry
  BY <1>1, <1>2, <1>10 DEF KeySecondTry, GoTo, ReturnPending, At
<1> QED
  BY <1>4, <1>5, <1>6, <1>7, <1>8, <1>9, <1>10 DEF TimerStep, KeyboardStep

\* A handler makes run the task it wakes, and no other.
LEMMA RunsHandler ==
  ASSUME TypeOK, QueueInv, Roomy, TimerInterrupt \/ KeyboardInterrupt,
         NEW id \in Task \cup {None}, WakeFromHandler(id)
  PROVE  /\ \A t \in Task : Runs(t)' <=> Runs(t) \/ t = id
         /\ Halted' <=> Halted
<1>0. task_queue \in Seq(Task) /\ None \notin Task
  BY ExecutorAssumption DEF TypeOK, ExecutorTypeOK
<1>1. irqs < MaxIrqs
  BY DEF TimerInterrupt, KeyboardInterrupt, Interrupt
<1>2. Len(task_queue) < QueueCap
  BY <1>1, Room
<1>3. pc' = Resumed
  BY <1>2 DEF WakeFromHandler, WakeTask
<1>4. Halted' <=> Halted
  BY <1>3 DEF Halted, Resumed
<1>5. CASE id = None
  BY <1>0, <1>4, <1>5, SameQueue DEF WakeFromHandler, Runs
<1>6. CASE id # None
  <2>1. task_queue' = Append(task_queue, id) /\ cur' = cur /\ id \in Task
    BY <1>2, <1>6 DEF WakeFromHandler, WakeTask
  <2>2. \A t : InQueue(t)' <=> InQueue(t) \/ t = id
    BY <1>0, <2>1, PushTask
  <2> QED
    BY <1>4, <2>1, <2>2 DEF Runs
<1> QED
  BY <1>5, <1>6

LEMMA TimerFrame ==
  ASSUME timer_flag' = timer_flag, Halted => Halted',
         timer_flag # "uninit" /\ ~Halted' =>
           (Runs(TimerTask)' <=> Runs(TimerTask))
  PROVE  [TimerChannel!ChanNext]_(TimerChannel!chanVars)
<1>1. CASE timer_flag = "uninit"
  BY <1>1 DEF TimerChannel!chanVars, ConsumerOf
<1>2. CASE timer_flag # "uninit" /\ Halted
  BY <1>2 DEF TimerChannel!chanVars, ConsumerOf, Halted
<1>3. CASE timer_flag # "uninit" /\ ~Halted /\ ~Halted'
  BY <1>3 DEF TimerChannel!chanVars, ConsumerOf, Halted, Runs
<1>4. CASE timer_flag # "uninit" /\ ~Halted /\ Halted'
  <2>1. TimerChannel!Stop
    BY <1>4 DEF TimerChannel!Stop, ConsumerOf, Halted, Runs
  <2> QED
    BY <2>1 DEF TimerChannel!ChanNext
<1> QED
  BY <1>1, <1>2, <1>3, <1>4

\* The timer: TimerStream::new opens the channel, poll_next consumes the tick
\* or parks timer_loop, raise_timer delivers.
LEMMA TimerChannelStep ==
  ASSUME TypeOK, PlaceInv, TokenInv, WakeInv, QueueInv, Roomy, [Next]_vars
  PROVE  [TimerChannel!ChanNext]_(TimerChannel!chanVars)
<1>0. /\ timer_flag \in {"uninit", "clear", "raised"}
      /\ timer_waker \in Cell({TimerTask}) /\ key_waker \in Cell({KeyTask})
      /\ TimerTask \in Task /\ KeyTask \in Task /\ TimerTask # None
      /\ KeyTask # None /\ TimerTask # KeyTask
  BY ExecutorAssumption, TimerAssumption, KeyboardAssumption
     DEF TypeOK, TimerTypeOK, KeyboardTypeOK
<1>1. ~Halted => TimerStreamInv
  BY DEF Halted, WakeInv
<1>2. ASSUME ExecutorStep, UNCHANGED timerVars, ~Halted
      PROVE  [TimerChannel!ChanNext]_(TimerChannel!chanVars)
  <2>1. timer_flag' = timer_flag
    BY <1>2 DEF timerVars
  <2>2. timer_flag # "uninit" => TimerTask \in tasks
    BY <1>1, <1>2 DEF TimerStreamInv, StreamInv
  <2> QED
    BY <1>2, <2>1, <2>2, RunsExecutor, TimerFrame
<1>3. ASSUME TimerStreamNew, ~Halted
      PROVE  TimerChannel!Open
  <2>1. /\ timer_flag = "uninit" /\ timer_flag' = "clear" /\ pc' = "poll"
        /\ cur' = TimerTask
    BY <1>3 DEF TimerStreamNew, At, GoTo
  <2> QED
    BY <2>1 DEF TimerChannel!Open, ConsumerOf
<1>4. ASSUME TimerFirstTry \/ TimerSecondTry, timer_flag = "raised", ~Halted
      PROVE  TimerChannel!Consume
  <2>1. /\ timer_flag' = "clear" /\ cur = TimerTask /\ cur' = TimerTask
        /\ pc \in {"poll", "recheck"} /\ pc' \in {"decrement", "take"}
    BY <1>4 DEF TimerFirstTry, TimerSecondTry, CompareExchange, At, GoTo,
                StartDecrement
  <2>2. Tail(<<"tick">>) = <<>> /\ <<"tick">> # <<>>
    OBVIOUS
  <2> QED
    BY <1>4, <2>1, <2>2 DEF TimerChannel!Consume, ConsumerOf
<1>5. ASSUME TimerSecondTry, timer_flag # "raised", ~Halted
      PROVE  [TimerChannel!ChanNext]_(TimerChannel!chanVars)
  <2>1. /\ timer_flag' = timer_flag /\ cur = TimerTask /\ cur' = None
        /\ pc = "recheck" /\ pc' = "pop" /\ task_queue' = task_queue
    BY <1>5 DEF TimerSecondTry, CompareExchange, At, ReturnPending
  <2>2. InQueue(TimerTask)' <=> InQueue(TimerTask)
    BY <2>1, SameQueue
  <2>3. CASE timer_flag = "uninit" \/ InQueue(TimerTask)
    BY <2>1, <2>2, <2>3, TimerFrame DEF Runs, Halted
  <2>4. CASE timer_flag # "uninit" /\ ~InQueue(TimerTask)
    <3>1. TimerChannel!Park
      BY <1>0, <1>5, <2>1, <2>2, <2>4 DEF TimerChannel!Park, ConsumerOf
    <3> QED
      BY <3>1 DEF TimerChannel!ChanNext
  <2> QED
    BY <2>3, <2>4
<1>6. ASSUME TimerStep, ~Halted, timer_flag' = timer_flag,
             ~At("recheck", TimerTask)
      PROVE  [TimerChannel!ChanNext]_(TimerChannel!chanVars)
  BY <1>6, RunsPoll, TimerFrame
<1>7. ASSUME TimerStep, ~Halted
      PROVE  [TimerChannel!ChanNext]_(TimerChannel!chanVars)
  <2>1. CASE TimerStreamNew
    BY <1>3, <1>7, <2>1 DEF TimerChannel!ChanNext
  <2>2. CASE (TimerFirstTry \/ TimerSecondTry) /\ timer_flag = "raised"
    BY <1>4, <1>7, <2>2 DEF TimerChannel!ChanNext
  <2>3. CASE TimerFirstTry /\ timer_flag # "raised"
    BY <1>6, <1>7, <2>3 DEF TimerFirstTry, CompareExchange, At
  <2>4. CASE TimerSecondTry /\ timer_flag # "raised"
    BY <1>5, <1>7, <2>4
  <2>5. CASE TimerRegister \/ TimerRegistered \/ TimerTake \/ DecrementDone
    BY <1>6, <1>7, <2>5
       DEF TimerRegister, TimerRegistered, TimerTake, DecrementDone,
           timerVars, At
  <2>6. ASSUME NEW s \in Sleeper,
               \/ Decrement(s) \/ SleepNew(s) \/ SleepReady(s)
               \/ SleepPending(s) \/ SleeperDone(s)
        PROVE  timer_flag' = timer_flag /\ ~At("recheck", TimerTask)
    BY <2>6 DEF Decrement, SleepNew, SleepReady, SleepPending, SleeperDone,
                timerVars, At
  <2> QED
    BY <1>6, <1>7, <2>1, <2>2, <2>3, <2>4, <2>5, <2>6 DEF TimerStep
<1>8. ASSUME KeyboardStep, UNCHANGED timerVars, ~Halted
      PROVE  [TimerChannel!ChanNext]_(TimerChannel!chanVars)
  <2>1. timer_flag' = timer_flag
    BY <1>8 DEF timerVars
  <2>2. ~At("recheck", TimerTask)
    BY <1>0, <1>8 DEF KeyboardStep, ScancodeStreamNew, KeyFirstTry,
       KeyRegister, KeyRegistered, KeySecondTry, KeyTake, HandleKey, At
  <2> QED
    BY <1>8, <2>1, <2>2, RunsPoll, TimerFrame
<1>9. ASSUME TimerInterrupt
      PROVE  [TimerChannel!ChanNext]_(TimerChannel!chanVars)
  <2>1. CASE timer_flag = "uninit"
    <3>1. timer_flag' = timer_flag /\ WakeFromHandler(None)
      BY <1>9, <2>1 DEF TimerInterrupt, RaiseTimer
    <3> QED
      BY <1>9, <2>1, <3>1, RunsHandler, TimerFrame
  <2>2. CASE timer_flag # "uninit"
    <3> DEFINE id == Woken(timer_waker)
    <3>1. /\ timer_flag' = "raised" /\ WakeFromHandler(id)
          /\ id \in {TimerTask, None}
      BY <1>0, <1>9, <2>2, CellType DEF TimerInterrupt, RaiseTimer
    <3>2. /\ Halted' <=> Halted
          /\ Runs(TimerTask)' <=> Runs(TimerTask) \/ TimerTask = id
      BY <1>0, <1>9, <3>1, RunsHandler
    <3>3. ~Halted => Runs(TimerTask)'
      <4> SUFFICES ASSUME ~Halted, ~Runs(TimerTask)
                   PROVE  TimerTask = id
        BY <3>2
      <4>1. timer_waker.waker = TimerTask /\ timer_waker.state = Waiting
        BY <1>1, <2>2 DEF TimerStreamInv, StreamInv, Runs
      <4> QED
        BY <4>1 DEF Woken
    <3>4. CASE timer_flag = "raised"
      <4>1. ~Halted => Runs(TimerTask)
        BY <1>1, <3>4 DEF TimerStreamInv, StreamInv, Runs
      <4> QED
        BY <3>1, <3>2, <3>3, <3>4, <4>1, TimerFrame
    <3>5. CASE timer_flag = "clear"
      <4> HIDE DEF id
      <4>1. Len(<<>>) < 1 /\ Append(<<>>, "tick") = <<"tick">>
        OBVIOUS
      <4>2. TimerChannel!Deliver("tick")
        BY <3>1, <3>2, <3>3, <3>5, <4>1
           DEF TimerChannel!Deliver, ConsumerOf, Halted, Runs
      <4> QED
        BY <4>2 DEF TimerChannel!ChanNext
    <3> QED
      BY <1>0, <2>2, <3>4, <3>5
  <2> QED
    BY <2>1, <2>2
<1>10. ASSUME KeyboardInterrupt
       PROVE  [TimerChannel!ChanNext]_(TimerChannel!chanVars)
  <2>1. timer_flag' = timer_flag
    BY <1>10 DEF KeyboardInterrupt, timerVars
  <2>2. PICK id \in {KeyTask, None} : WakeFromHandler(id)
    BY <1>0, <1>10, CellType DEF KeyboardInterrupt, AddScancode
  <2>3. /\ Halted' <=> Halted
        /\ Runs(TimerTask)' <=> Runs(TimerTask)
    BY <1>0, <1>10, <2>2, RunsHandler
  <2> QED
    BY <2>1, <2>3, TimerFrame
<1>11. ASSUME UNCHANGED vars
       PROVE  [TimerChannel!ChanNext]_(TimerChannel!chanVars)
  BY <1>11, TimerFrame, SameQueue
     DEF vars, executorVars, timerVars, Halted, Runs
<1>12. CASE Thread
  <2>1. ~Halted
    BY <1>12, HaltedStays
  <2> QED
    BY <1>2, <1>7, <1>8, <1>12, <2>1 DEF Thread
<1> QED
  BY <1>9, <1>10, <1>11, <1>12 DEF Next, Stopped

\* Safety of TimerIsChannel: with room in task_queue, raise_timer, TIMER_FLAG,
\* WAKER and TimerStream::poll_next are a channel of capacity one.  No tick is
\* lost unless one is pending, a tick makes timer_loop runnable in the step in
\* which it arrives, and timer_loop parks only when no tick is pending.
THEOREM TimerImplementsChannel ==
  ASSUME Roomy
  PROVE  Spec => TimerChannel!ChanSafety
<1>1. Init => TimerChannel!ChanInit
  BY DEF Init, TimerInit, TimerChannel!ChanInit, ConsumerOf
<1>2. TypeOK /\ PlaceInv /\ TokenInv /\ WakeInv /\ QueueInv /\ [Next]_vars =>
        [TimerChannel!ChanNext]_(TimerChannel!chanVars)
  BY TimerChannelStep
<1> QED
  BY <1>1, <1>2, TypeCorrect, WakersLive, WakeCorrect, QueueCounted, PTL
     DEF Spec, TimerChannel!ChanSafety

LEMMA KeyFrame ==
  ASSUME key_ready \in BOOLEAN,
         UNCHANGED <<key_ready, scancode_queue>>, Halted => Halted',
         key_ready /\ ~Halted' => (Runs(KeyTask)' <=> Runs(KeyTask))
  PROVE  [KeyChannel!ChanNext]_(KeyChannel!chanVars)
<1>1. CASE ~key_ready
  BY <1>1 DEF KeyChannel!chanVars, ConsumerOf
<1>2. CASE key_ready /\ Halted
  BY <1>2 DEF KeyChannel!chanVars, ConsumerOf, Halted
<1>3. CASE key_ready /\ ~Halted /\ ~Halted'
  BY <1>3 DEF KeyChannel!chanVars, ConsumerOf, Halted, Runs
<1>4. CASE key_ready /\ ~Halted /\ Halted'
  <2>1. KeyChannel!Stop
    BY <1>4 DEF KeyChannel!Stop, ConsumerOf, Halted, Runs
  <2> QED
    BY <2>1 DEF KeyChannel!ChanNext
<1> QED
  BY <1>1, <1>2, <1>3, <1>4

\* The keyboard: ScancodeStream::new opens the channel, poll_next consumes a
\* scancode or parks print_keypresses, add_scancode delivers or drops.
LEMMA KeyChannelStep ==
  ASSUME TypeOK, PlaceInv, TokenInv, WakeInv, QueueInv, Roomy, [Next]_vars
  PROVE  [KeyChannel!ChanNext]_(KeyChannel!chanVars)
<1>0. /\ timer_waker \in Cell({TimerTask}) /\ key_waker \in Cell({KeyTask})
      /\ TimerTask \in Task /\ KeyTask \in Task /\ TimerTask # None
      /\ KeyTask # None /\ TimerTask # KeyTask /\ KeyTask \notin Sleeper
  BY ExecutorAssumption, TimerAssumption, KeyboardAssumption
     DEF TypeOK, TimerTypeOK, KeyboardTypeOK
<1>r. key_ready \in BOOLEAN
  BY DEF TypeOK, KeyboardTypeOK
<1>1. ~Halted => KeyStreamInv
  BY DEF Halted, WakeInv
<1>2. ASSUME ExecutorStep, UNCHANGED keyVars, ~Halted
      PROVE  [KeyChannel!ChanNext]_(KeyChannel!chanVars)
  <2>1. UNCHANGED <<key_ready, scancode_queue>>
    BY <1>2 DEF keyVars
  <2>2. key_ready => KeyTask \in tasks
    BY <1>1, <1>2 DEF KeyStreamInv, StreamInv
  <2> QED
    BY <1>r, <1>2, <2>1, <2>2, RunsExecutor, KeyFrame
<1>3. ASSUME ScancodeStreamNew, ~Halted
      PROVE  KeyChannel!Open
  <2>1. /\ ~key_ready /\ key_ready' /\ pc' = "poll" /\ cur' = KeyTask
        /\ scancode_queue' = scancode_queue
    BY <1>3 DEF ScancodeStreamNew, At, GoTo
  <2> QED
    BY <2>1 DEF KeyChannel!Open, ConsumerOf
<1>4. ASSUME KeyFirstTry \/ KeySecondTry, scancode_queue # <<>>, ~Halted
      PROVE  KeyChannel!Consume
  <2>1. /\ scancode_queue' = Tail(scancode_queue)
        /\ cur = KeyTask /\ cur' = KeyTask /\ key_ready' = key_ready
        /\ pc \in {"poll", "recheck"} /\ pc' \in {"key", "take"}
    BY <1>4 DEF KeyFirstTry, KeySecondTry, PopScancode, At, GoTo
  <2>2. key_ready
    BY <1>1, <1>4 DEF KeyStreamInv, StreamInv
  <2> QED
    BY <1>4, <2>1, <2>2 DEF KeyChannel!Consume, ConsumerOf
<1>5. ASSUME KeySecondTry, scancode_queue = <<>>, ~Halted
      PROVE  [KeyChannel!ChanNext]_(KeyChannel!chanVars)
  <2>1. /\ UNCHANGED <<key_ready, scancode_queue, task_queue>>
        /\ cur = KeyTask /\ cur' = None
        /\ pc = "recheck" /\ pc' = "pop"
    BY <1>5 DEF KeySecondTry, At, ReturnPending
  <2>2. InQueue(KeyTask)' <=> InQueue(KeyTask)
    BY <2>1, SameQueue
  <2>3. CASE ~key_ready \/ InQueue(KeyTask)
    BY <1>r, <2>1, <2>2, <2>3, KeyFrame DEF Runs, Halted
  <2>4. CASE key_ready /\ ~InQueue(KeyTask)
    <3>1. KeyChannel!Park
      BY <1>0, <1>5, <2>1, <2>2, <2>4 DEF KeyChannel!Park, ConsumerOf
    <3> QED
      BY <3>1 DEF KeyChannel!ChanNext
  <2> QED
    BY <2>3, <2>4
<1>6. ASSUME KeyboardStep, ~Halted, UNCHANGED <<key_ready, scancode_queue>>,
             ~At("recheck", KeyTask)
      PROVE  [KeyChannel!ChanNext]_(KeyChannel!chanVars)
  BY <1>r, <1>6, RunsPoll, KeyFrame
<1>7. ASSUME KeyboardStep, ~Halted
      PROVE  [KeyChannel!ChanNext]_(KeyChannel!chanVars)
  <2>1. CASE ScancodeStreamNew
    BY <1>3, <1>7, <2>1 DEF KeyChannel!ChanNext
  <2>2. CASE (KeyFirstTry \/ KeySecondTry) /\ scancode_queue # <<>>
    BY <1>4, <1>7, <2>2 DEF KeyChannel!ChanNext
  <2>3. CASE KeyFirstTry /\ scancode_queue = <<>>
    BY <1>6, <1>7, <2>3 DEF KeyFirstTry, At
  <2>4. CASE KeySecondTry /\ scancode_queue = <<>>
    BY <1>5, <1>7, <2>4
  <2>5. CASE KeyRegister \/ KeyRegistered \/ KeyTake \/ HandleKey
    BY <1>6, <1>7, <2>5 DEF KeyRegister, KeyRegistered, KeyTake, HandleKey, At
  <2> QED
    BY <1>7, <2>1, <2>2, <2>3, <2>4, <2>5 DEF KeyboardStep
<1>8. ASSUME TimerStep, UNCHANGED keyVars, ~Halted
      PROVE  [KeyChannel!ChanNext]_(KeyChannel!chanVars)
  <2>1. UNCHANGED <<key_ready, scancode_queue>>
    BY <1>8 DEF keyVars
  <2>2. ~At("recheck", KeyTask)
    BY <1>0, <1>8 DEF TimerStep, TimerStreamNew, TimerFirstTry, TimerRegister,
       TimerRegistered, TimerSecondTry, TimerTake, DecrementDone, Decrement,
       SleepNew, SleepReady, SleepPending, SleeperDone, At
  <2> QED
    BY <1>r, <1>8, <2>1, <2>2, RunsPoll, KeyFrame
<1>9. ASSUME KeyboardInterrupt
      PROVE  [KeyChannel!ChanNext]_(KeyChannel!chanVars)
  <2>1. PICK sc \in Scancode : AddScancode(sc)
    BY <1>9 DEF KeyboardInterrupt
  <2>2. CASE UNCHANGED keyVars /\ WakeFromHandler(None)
    <3>1. UNCHANGED <<key_ready, scancode_queue>>
      BY <2>2 DEF keyVars
    <3>2. /\ Halted' <=> Halted
          /\ Runs(KeyTask)' <=> Runs(KeyTask)
      BY <1>0, <1>9, <2>2, RunsHandler
    <3> QED
      BY <1>r, <3>1, <3>2, KeyFrame
  <2>3. CASE /\ key_ready /\ key_ready' = key_ready
             /\ Len(scancode_queue) < ScancodeCap
             /\ scancode_queue' = Append(scancode_queue, sc)
             /\ WakeFromHandler(Woken(key_waker))
    <3> DEFINE id == Woken(key_waker)
    <3>1. id \in {KeyTask, None}
      BY <1>0, CellType
    <3>2. /\ Halted' <=> Halted
          /\ Runs(KeyTask)' <=> Runs(KeyTask) \/ KeyTask = id
      BY <1>0, <1>9, <2>3, <3>1, RunsHandler
    <3>3. ~Halted => Runs(KeyTask)'
      <4> SUFFICES ASSUME ~Halted, ~Runs(KeyTask)
                   PROVE  KeyTask = id
        BY <3>2
      <4>1. key_waker.waker = KeyTask /\ key_waker.state = Waiting
        BY <1>1, <2>3 DEF KeyStreamInv, StreamInv, Runs
      <4> QED
        BY <4>1 DEF Woken
    <3>4. KeyChannel!Deliver(sc)
      <4> HIDE DEF id
      <4> QED
        BY <2>3, <3>2, <3>3
           DEF KeyChannel!Deliver, ConsumerOf, Halted, Runs
    <3> QED
      BY <2>1, <3>4 DEF KeyChannel!ChanNext
  <2> QED
    BY <2>1, <2>2, <2>3 DEF AddScancode
<1>10. ASSUME TimerInterrupt
       PROVE  [KeyChannel!ChanNext]_(KeyChannel!chanVars)
  <2>1. UNCHANGED <<key_ready, scancode_queue>>
    BY <1>10 DEF TimerInterrupt, keyVars
  <2>2. PICK id \in {TimerTask, None} : WakeFromHandler(id)
    <3>1. Woken(timer_waker) \in {TimerTask, None}
      BY <1>0, CellType
    <3>2. WakeFromHandler(None) \/ WakeFromHandler(Woken(timer_waker))
      BY <1>10 DEF TimerInterrupt, RaiseTimer
    <3> QED
      BY <3>1, <3>2
  <2>3. /\ Halted' <=> Halted
        /\ Runs(KeyTask)' <=> Runs(KeyTask)
    BY <1>0, <1>10, <2>2, RunsHandler
  <2> QED
    BY <1>r, <2>1, <2>3, KeyFrame
<1>11. ASSUME UNCHANGED vars
       PROVE  [KeyChannel!ChanNext]_(KeyChannel!chanVars)
  BY <1>r, <1>11, KeyFrame, SameQueue
     DEF vars, executorVars, keyVars, Halted, Runs
<1>12. CASE Thread
  <2>1. ~Halted
    BY <1>12, HaltedStays
  <2> QED
    BY <1>2, <1>7, <1>8, <1>12, <2>1 DEF Thread
<1> QED
  BY <1>9, <1>10, <1>11, <1>12 DEF Next, Stopped

\* Safety of KeyboardIsChannel: with room in task_queue, add_scancode,
\* SCANCODE_QUEUE, WAKER and ScancodeStream::poll_next are a bounded channel.
\* Scancodes reach print_keypresses in order, only those that find the queue
\* full are dropped, and print_keypresses parks only when there are none.
THEOREM KeyboardImplementsChannel ==
  ASSUME Roomy
  PROVE  Spec => KeyChannel!ChanSafety
<1>1. Init => KeyChannel!ChanInit
  BY DEF Init, KeyboardInit, KeyChannel!ChanInit, ConsumerOf
<1>2. TypeOK /\ PlaceInv /\ TokenInv /\ WakeInv /\ QueueInv /\ [Next]_vars =>
        [KeyChannel!ChanNext]_(KeyChannel!chanVars)
  BY KeyChannelStep
<1> QED
  BY <1>1, <1>2, TypeCorrect, WakersLive, WakeCorrect, QueueCounted, PTL
     DEF Spec, KeyChannel!ChanSafety

============================================================================
