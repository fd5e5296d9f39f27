---------------------------- MODULE EventChannel ----------------------------
(***************************************************************************)
(* What the kernel promises of the path from an interrupt handler to the   *)
(* task that consumes its events, whatever wakers and queues it is built   *)
(* from.  The channel keeps the events in order, up to Cap of them, and    *)
(* drops those that do not fit.  Its consumer parks only when there is     *)
(* nothing to consume, an event makes a parked consumer runnable in the    *)
(* same step, and a runnable consumer consumes everything there is.        *)
(*                                                                         *)
(* TIMER_FLAG with timer_loop is such a channel with Cap = 1 (ticks        *)
(* coalesce), SCANCODE_QUEUE with print_keypresses one with Cap = 100.     *)
(***************************************************************************)
EXTENDS Naturals, Sequences

CONSTANTS Event,   \* what a handler may deliver
          Cap      \* how many events the channel holds

VARIABLES pending,   \* the events delivered and not yet consumed
          consumer   \* "absent", "runnable", "parked" or "stopped"

chanVars == <<pending, consumer>>

ChanInit == pending = <<>> /\ consumer = "absent"

\* The consumer creates the channel; before, events are dropped.
Open ==
  /\ consumer = "absent"
  /\ consumer' = "runnable"
  /\ UNCHANGED pending

\* An event that fits is queued and the consumer can run, unless the executor
\* has stopped.  One that does not fit changes nothing: the consumer has been
\* runnable since an earlier event.
Deliver(e) ==
  /\ consumer # "absent"
  /\ Len(pending) < Cap
  /\ pending' = Append(pending, e)
  /\ consumer' = IF consumer = "stopped" THEN "stopped" ELSE "runnable"

Consume ==
  /\ consumer = "runnable"
  /\ pending # <<>>
  /\ pending' = Tail(pending)
  /\ UNCHANGED consumer

Park ==
  /\ consumer = "runnable"
  /\ pending = <<>>
  /\ consumer' = "parked"
  /\ UNCHANGED pending

\* The executor returns, with whatever is pending.
Stop ==
  /\ consumer \in {"runnable", "parked"}
  /\ consumer' = "stopped"
  /\ UNCHANGED pending

ChanNext ==
  \/ Open
  \/ \E e \in Event : Deliver(e)
  \/ Consume
  \/ Park
  \/ Stop

ChanSafety == ChanInit /\ [][ChanNext]_chanVars

\* A runnable consumer goes on until it has consumed everything and parks.
ChanSpec == ChanSafety /\ WF_chanVars(Consume) /\ WF_chanVars(Park)
============================================================================
