------------------------------ MODULE MCLocked ------------------------------
(***************************************************************************)
(* The log lock, and what the kernel's spin locks protect: the screen that *)
(* records are written to, and the heap.  Nobody else sees what the holder *)
(* of a lock does before it is done, so the three are explored one at a    *)
(* time: while one works, the others rest in an initial state.             *)
(*                                                                         *)
(* A screen of 3 by 2 cells, on a framebuffer with a margin that is no     *)
(* whole cell.  A heap of 10 units with three block sizes: the layouts     *)
(* fill a block, waste part of one, need a larger one for their alignment, *)
(* or are too large for the lists.                                         *)
(***************************************************************************)
EXTENDS LogLock, Screen, Heap

CONSTANT Parts       \* which of "lock", "screen" and "heap" to explore
VARIABLE part

MCBlockSizes == <<1, 2, 4>>
MCLayout == {[size |-> 1, align |-> 1], [size |-> 1, align |-> 2],
             [size |-> 3, align |-> 1], [size |-> 5, align |-> 1]}

vars == <<part, logLockVars, screenVars, heapVars>>

Init ==
  /\ part \in Parts
  /\ LogLockInit /\ ScreenInit /\ HeapInit
  /\ part # "lock" => intr

Next ==
  \/ part = "lock" /\ LogLockNext /\ UNCHANGED <<part, screenVars, heapVars>>
  \/ part = "screen" /\ ScreenNext /\ UNCHANGED <<part, logLockVars, heapVars>>
  \/ part = "heap" /\ HeapNext /\ UNCHANGED <<part, logLockVars, screenVars>>

\* The CPU executes, and interrupts do not keep a fault handler or a panic from
\* going on for ever.
Spec ==
  /\ Init /\ [][Next]_vars
  /\ WF_logLockVars(part = "lock" /\ Step)
  /\ SF_logLockVars(part = "lock" /\ Step /\ top.kind \in Dying)
=============================================================================
