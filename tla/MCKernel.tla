------------------------------ MODULE MCKernel ------------------------------
(***************************************************************************)
(* Small instances of Kernel for TLC.                                      *)
(***************************************************************************)
EXTENDS Kernel

CONSTANTS timer_loop, print_keypresses, init_task, print_every_sec

MCTask1 == {timer_loop, print_keypresses, init_task}
MCTask2 == MCTask1 \cup {print_every_sec}

MCSleeper1 == {init_task}
MCSleeper2 == {init_task, print_every_sec}

\* init_task ends after two sleeps, print_every_sec_task never does
MCRounds1 == [t \in MCSleeper1 |-> 2]
MCRounds2 == [t \in MCSleeper2 |-> IF t = init_task THEN 1 ELSE Forever]

\* 3 ms is less than a tick, 8 ms are two ticks
MCDurations == {3, 8}

MCShutdown == <<"s">>
============================================================================
