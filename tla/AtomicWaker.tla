---------------------------- MODULE AtomicWaker ----------------------------
(***************************************************************************)
(* futures_util::task::AtomicWaker, the cell through which an interrupt    *)
(* handler finds the waker of the task that waits for it.  The crate is    *)
(* outside this repository: the operators below model what task/timer.rs   *)
(* and task/keyboard.rs rely on.                                           *)
(*                                                                         *)
(* On one CPU a handler runs to completion, so its `wake` is atomic.  A    *)
(* handler that interrupts `take` finds the WAKING bit and wakes nobody,   *)
(* just as it would right after `take`, so `take` is one step too.         *)
(* `register` is not atomic: a handler may run between the step that       *)
(* claims the cell and the step that publishes the waker.  In that case    *)
(* the handler only leaves the WAKING bit and `register` wakes its own     *)
(* task before it returns.                                                 *)
(***************************************************************************)

CONSTANT None     \* Option::None, also "no task is being polled"

Waiting            == "WAITING"
Registering        == "REGISTERING"
RegisteringWaking  == "REGISTERING_WAKING"

CellState == {Waiting, Registering, RegisteringWaking}

Cell(Id) == [state : CellState, waker : Id \cup {None}]

\* AtomicWaker::new
EmptyCell == [state |-> Waiting, waker |-> None]

\* The first half of register: the cell is claimed, the old waker stays.
BeginRegister(cell) == [cell EXCEPT !.state = Registering]

\* The second half: the waker of task id is published, unless a wake came in
\* between, and then it is taken out again to be woken by the caller.
EndRegister(cell, id) ==
  [state |-> Waiting,
   waker |-> IF cell.state = RegisteringWaking THEN None ELSE id]

RegisterWakes(cell) == cell.state = RegisteringWaking

\* take and wake: hand out the waker, or leave the WAKING bit for register.
Taken(cell) ==
  IF cell.state = Waiting THEN EmptyCell
                          ELSE [cell EXCEPT !.state = RegisteringWaking]

\* The task that wake() wakes, None if there is none to wake.
Woken(cell) == IF cell.state = Waiting THEN cell.waker ELSE None
============================================================================
