---------------------------- MODULE AddressSpace ----------------------------
(***************************************************************************)
(* What the page tables promise: a map from pages to frames.  Until the    *)
(* table is loaded, entries may be added and replaced, one page at a time; *)
(* from then on a page that is mapped keeps its frame.                     *)
(***************************************************************************)
CONSTANTS Page, Frame, Unmapped

VARIABLES frame_of, loaded

SpaceInit ==
  /\ frame_of = [p \in Page |-> Unmapped]
  /\ loaded = FALSE

Map(p) ==
  /\ loaded => frame_of[p] = Unmapped
  /\ frame_of'[p] \in Frame
  /\ frame_of' = [frame_of EXCEPT ![p] = frame_of'[p]]
  /\ UNCHANGED loaded

Load ==
  /\ ~loaded
  /\ loaded' = TRUE
  /\ UNCHANGED frame_of

SpaceNext == Load \/ \E p \in Page : Map(p)

SpaceSpec == SpaceInit /\ [][SpaceNext]_<<frame_of, loaded>>
============================================================================
