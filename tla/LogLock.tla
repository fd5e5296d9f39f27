------------------------------ MODULE LogLock ------------------------------
(***************************************************************************)
(* The spin lock around the logger, taken by tasks, by interrupt handlers  *)
(* and by fault handlers of one CPU (src/shared_lib/src/interrupts.rs,     *)
(* serial_logger.rs, logger.rs; src/src/interrupts.rs; the panic handler   *)
(* of src/src/main.rs).                                                    *)
(*                                                                         *)
(* The contexts form a stack: only the last one runs.  kernel_main makes   *)
(* one logger, serial or framebuffer; both lock in the same way, so one    *)
(* lock stands for the one it made.                                        *)
(***************************************************************************)
EXTENDS Bits, Sequences

CONSTANTS OtherFlags,   \* what RFLAGS may hold besides IF when it is read
          MaxDepth      \* how deep contexts nest

ASSUME LogLockAssumption ==
  /\ OtherFlags \subseteq SUBSET (Word \ {9})
  /\ MaxDepth \in Nat \ {0}

VARIABLES stack,    \* the contexts, the running one last
          intr,     \* RFLAGS.IF
          locked    \* the flag of the Spinlock

logLockVars == <<stack, intr, locked>>

\* Each context has its place in a log call, the saved_intpt_flag of
\* without_interrupts, the IF that iret restores, whether it has logged,
\* and (only observed) the IF it runs with.
Context(kind, resume, flag) ==
  [kind |-> kind, pc |-> "run", saved |-> FALSE, resume |-> resume,
   logged |-> FALSE, flag |-> flag]

Dying == {"page_fault", "panic"}
Returning == {"irq", "breakpoint", "general_protection_fault"}

top == stack[Len(stack)]

Top(pc) == stack' = [stack EXCEPT ![Len(stack)].pc = pc]
Push(c) == Len(stack) < MaxDepth /\ stack' = Append(stack, c)

LogLockInit ==
  \E flag \in BOOLEAN :   \* preinit logs before the first sti
    /\ stack = <<Context("thread", flag, flag)>>
    /\ intr = flag
    /\ locked = FALSE

----------------------------------------------------------------------------
\* log: without_interrupts reads RFLAGS
ReadFlags ==
  /\ top.pc = "run"
  /\ top.kind \in Returning => ~top.logged
  /\ \E other \in OtherFlags :
       LET rflags == SetBit(other, 9, intr) IN
       stack' = [stack EXCEPT ![Len(stack)].pc = "cli",
                              ![Len(stack)].saved = GetBits(rflags, 9, 10) = {0}]
  /\ UNCHANGED <<intr, locked>>

Cli_Skipped ==
  /\ top.pc = "cli"
  /\ Top("lock")
  /\ UNCHANGED <<intr, locked>>

Cli ==
  /\ top.pc = "cli"
  /\ intr' = (intr /\ ~top.saved)
  /\ Top("lock")
  /\ UNCHANGED locked

Lock ==
  /\ top.pc = "lock"
  /\ ~locked
  /\ locked' = TRUE
  /\ Top("write")
  /\ UNCHANGED intr

\* writeln! has sent the record, and the guard is dropped
Unlock ==
  /\ top.pc = "write"
  /\ locked' = FALSE
  /\ stack' = [stack EXCEPT ![Len(stack)].pc = "sti",
                            ![Len(stack)].logged = TRUE]
  /\ UNCHANGED intr

Sti_Always ==
  /\ top.pc = "sti"
  /\ intr' = TRUE
  /\ Top("run")
  /\ UNCHANGED locked

Sti ==
  /\ top.pc = "sti"
  /\ intr' = (intr \/ top.saved)
  /\ Top("run")
  /\ UNCHANGED locked

Return_PageFaultToo ==
  /\ top.kind \in Returning \cup {"page_fault"}
  /\ top.pc = "run"
  /\ stack' = SubSeq(stack, 1, Len(stack) - 1)
  /\ intr' = top.resume
  /\ UNCHANGED locked

\* the end of a handler: a fault handler has logged, an interrupt handler has
\* nothing to log unless its queue is full or not there
Return ==
  /\ top.kind \in Returning
  /\ top.pc = "run"
  /\ top.kind # "irq" => top.logged
  /\ stack' = SubSeq(stack, 1, Len(stack) - 1)
  /\ intr' = top.resume
  /\ UNCHANGED locked

Step == ReadFlags \/ Cli \/ Lock \/ Unlock \/ Sti \/ Return

\* timer_interrupt_handler, keyboard_interrupt_handler: the gates are interrupt
\* gates, so IF is clear in a handler
Irq ==
  /\ intr
  /\ Push(Context("irq", TRUE, FALSE))
  /\ intr' = FALSE
  /\ UNCHANGED locked

\* breakpoint_handler; only the code of tasks contains an int3
Breakpoint ==
  /\ top.pc = "run" /\ top.kind = "thread"
  /\ Push(Context("breakpoint", intr, FALSE))
  /\ intr' = FALSE
  /\ UNCHANGED locked

\* general_protection_fault_handler, which does not force_unlock; a bad pointer
\* in a record that is being formatted leads here too.  The instruction that
\* faulted runs again after it.
GeneralProtectionFault ==
  /\ top.pc \in {"run", "write"}
  /\ Push(Context("general_protection_fault", intr, FALSE))
  /\ intr' = FALSE
  /\ UNCHANGED locked

\* page_fault_handler: force_unlock, log, hlt for ever; a record that is being
\* formatted may fault too
PageFault ==
  /\ top.pc \in {"run", "write"}
  /\ Push(Context("page_fault", intr, FALSE))
  /\ locked' = FALSE
  /\ intr' = FALSE

\* panic, called by the running code or by double_fault_handler
Panic ==
  /\ top.pc \in {"run", "write"}
  /\ \E flag \in {intr, FALSE} :
       /\ Push(Context("panic", intr, flag))
       /\ intr' = flag
  /\ locked' = FALSE

\* the hlt loop at the end of a fault
Halt ==
  /\ top.kind \in Dying
  /\ top.pc = "run" /\ top.logged
  /\ UNCHANGED logLockVars

LogLockNext ==
  Step \/ Irq \/ Breakpoint \/ GeneralProtectionFault \/ PageFault \/ Panic \/ Halt

LogLockSpec == LogLockInit /\ [][LogLockNext]_logLockVars

----------------------------------------------------------------------------
\* Context i holds the lock and cannot go on: what runs above it was entered by
\* a general protection fault in its record, or by an interrupt that came
\* although it is in the closure of without_interrupts, because its IF was
\* taken for clear.
BrokenInto(i) ==
  /\ stack[i].pc = "write"
  /\ \A k \in i + 1 .. Len(stack) : stack[k].kind \notin Dying
  /\ \/ stack[i + 1].kind = "general_protection_fault"
     \/ stack[i + 1].kind = "irq" /\ stack[i].flag /\ ~stack[i].saved

\* On one CPU who spins on the lock does so for ever, because the holder is
\* below on the stack.  This happens in no other case than those two: an
\* interrupt handler finds the lock free because the holder has cleared IF, and
\* a page fault or a panic, which may break into a record as well, opens the
\* lock first.  The general protection fault handler does neither.
SpinsOnlyIfBrokenInto ==
  top.pc = "lock" /\ locked => \E i \in 1 .. Len(stack) - 1 : BrokenInto(i)

\* Two records are never mixed: the context that writes holds the lock, and if
\* a lower one is in the middle of a record, a fault lies between them, so the
\* lower record is never continued.
RecordsNotMixed ==
  /\ top.pc = "write" => locked
  /\ \A i, j \in 1 .. Len(stack) :
       i < j /\ stack[i].pc = "write" /\ stack[j].pc = "write" =>
         \E k \in i + 1 .. j : stack[k].kind \in Dying

\* A log call leaves the interrupt flag as it was: it does not enable
\* interrupts in a handler or during preinit, nor leave them disabled in a task.
FlagRestored == top.pc = "run" => intr = top.flag

\* A page fault or a panic is reported, whatever the CPU was doing: also when
\* a record was being written.  Only a general protection fault in what runs
\* after it, such as the report, can keep it from being reported.
FaultReported ==
  (\E i \in 1 .. Len(stack) : stack[i].kind \in Dying) ~>
  \E i \in 1 .. Len(stack) :
    /\ stack[i].kind \in Dying
    /\ \/ stack[i].logged
       \/ \E j \in i + 1 .. Len(stack) : stack[j].kind = "general_protection_fault"

\* "do `f` while interrupts are disabled" (without_interrupts).
ClosureRunsWithInterruptsDisabled == top.pc \in {"lock", "write"} => ~intr
============================================================================
