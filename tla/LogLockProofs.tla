--------------------------- MODULE LogLockProofs ---------------------------
(***************************************************************************)
(* What is proved of the spin lock around the logger, for every nesting    *)
(* depth and every value of the other flags of RFLAGS.                     *)
(***************************************************************************)
EXTENDS LogLock, TLAPS

Kind == {"thread"} \cup Returning \cup Dying
Pc == {"run", "cli", "lock", "write", "sti"}
Ctx == [kind : Kind, pc : Pc, saved : BOOLEAN, resume : BOOLEAN,
        logged : BOOLEAN, flag : BOOLEAN]

LogLockTypeOK ==
  /\ stack \in Seq(Ctx) /\ Len(stack) > 0
  /\ stack[1].kind = "thread"
  /\ intr \in BOOLEAN /\ locked \in BOOLEAN

\* the interrupt flag with which context i runs, or will run again
FlagAt(i) == IF i = Len(stack) THEN intr ELSE stack[i + 1].resume

\* what a log call has done to the interrupt flag at each of its places
FlagOf(c, f) ==
  /\ c.pc \in {"run", "cli"} => f = c.flag
  /\ c.pc # "run" => (c.saved => c.flag)
  /\ c.pc \in {"lock", "write", "sti"} => f = (c.flag /\ ~c.saved)

FlagInv == \A i \in 1 .. Len(stack) : FlagOf(stack[i], FlagAt(i))

\* only a record that a fault has cut off is without the lock
WriteInv ==
  /\ \A i \in 1 .. Len(stack) :
       stack[i].pc = "write" =>
         locked \/ \E k \in i + 1 .. Len(stack) : stack[k].kind \in Dying
  /\ \A i, j \in 1 .. Len(stack) :
       i < j /\ stack[i].pc = "write" /\ stack[j].pc = "write" =>
         \E k \in i + 1 .. j : stack[k].kind \in Dying

\* The lock is held by a record that no fault has cut off, and only two things
\* can come on top of a record without cutting it off.
HeldInv ==
  /\ locked => \E i \in 1 .. Len(stack) :
       /\ stack[i].pc = "write"
       /\ \A k \in i + 1 .. Len(stack) : stack[k].kind \notin Dying
  /\ \A i \in 1 .. Len(stack) - 1 :
       stack[i].pc = "write" =>
         \/ stack[i + 1].kind \in Dying
         \/ stack[i + 1].kind = "general_protection_fault"
         \/ stack[i + 1].kind = "irq" /\ stack[i].flag /\ ~stack[i].saved

\* no flag above IF is set when without_interrupts reads RFLAGS
OnlyLowFlags == \A other \in OtherFlags : other \subseteq 0 .. 8

\* get_bits then finds IF alone
SavedInv ==
  \A i \in 1 .. Len(stack) :
    stack[i].pc # "run" => stack[i].saved = stack[i].flag

----------------------------------------------------------------------------
(***************************************************************************)
(* What the three ways to change the stack do.                             *)
(***************************************************************************)
TopIs(c) == stack' = [stack EXCEPT ![Len(stack)] = c]
PushIs(c) == stack' = Append(stack, c)
Popped == stack' = SubSeq(stack, 1, Len(stack) - 1)

\* A log call changes the running context alone.
LEMMA TopChange ==
  ASSUME LogLockTypeOK, NEW c \in Ctx, c.kind = top.kind,
         TopIs(c)
  PROVE  /\ stack' \in Seq(Ctx) /\ Len(stack') = Len(stack)
         /\ stack'[1].kind = "thread"
         /\ stack'[Len(stack)] = c
         /\ \A i \in 1 .. Len(stack) - 1 : stack'[i] = stack[i]
         /\ \A i \in 1 .. Len(stack) : stack'[i].kind = stack[i].kind
BY DEF LogLockTypeOK, TopIs, top

\* An interrupt, a fault or a panic puts a context on top of the others.
LEMMA PushChange ==
  ASSUME LogLockTypeOK, NEW c \in Ctx, PushIs(c)
  PROVE  /\ stack' \in Seq(Ctx) /\ Len(stack') = Len(stack) + 1
         /\ stack'[Len(stack) + 1] = c
         /\ stack'[1].kind = "thread"
         /\ \A i \in 1 .. Len(stack) : stack'[i] = stack[i]
BY DEF LogLockTypeOK, PushIs

\* A handler that returns leaves the contexts below it as they were.
LEMMA PopChange ==
  ASSUME LogLockTypeOK, top.kind \in Returning,
         Popped
  PROVE  /\ stack' \in Seq(Ctx) /\ Len(stack') = Len(stack) - 1
         /\ Len(stack') > 0
         /\ stack'[1].kind = "thread"
         /\ \A i \in 1 .. Len(stack') : stack'[i] = stack[i]
BY DEF LogLockTypeOK, Popped, top, Returning

\* Each step of a log call writes one context over the running one.
LEMMA CallSteps ==
  ASSUME LogLockTypeOK
  PROVE  /\ top \in Ctx
         /\ \A pc \in Pc :
              /\ [top EXCEPT !.pc = pc] \in Ctx
              /\ Top(pc) => TopIs([top EXCEPT !.pc = pc])
<1>1. top \in Ctx
  BY DEF LogLockTypeOK, top
<1>2. ASSUME NEW pc \in Pc
      PROVE  [top EXCEPT !.pc = pc] \in Ctx
  BY <1>1 DEF Ctx
<1>3. ASSUME NEW pc \in Pc, Top(pc)
      PROVE  TopIs([top EXCEPT !.pc = pc])
  BY <1>3 DEF Top, TopIs, top
<1> QED
  BY <1>1, <1>2, <1>3

\* get_bits of IF finds bit 0 alone only when IF is set; when no higher flag
\* is set, exactly then.
LEMMA GetIF ==
  ASSUME LogLockTypeOK, NEW other \in OtherFlags,
         NEW saved, saved = (GetBits(SetBit(other, 9, intr), 9, 10) = {0})
  PROVE  /\ saved => intr
         /\ OnlyLowFlags => saved = intr
<1>1. other \subseteq Word \ {9}
  BY LogLockAssumption
<1> DEFINE bits == GetBits(SetBit(other, 9, intr), 9, 10)
<1>2. bits = {b - 9 : b \in {c \in SetBit(other, 9, intr) : c >= 9}} \cap 0 .. 53
  BY DEF GetBits, ShiftRight
<1>3. CASE intr
  <2>1. SetBit(other, 9, intr) = other \cup {9}
    BY <1>3 DEF SetBit
  <2>2. ASSUME OnlyLowFlags
        PROVE  bits = {0}
    <3>1. {c \in other \cup {9} : c >= 9} = {9}
      BY <2>2 DEF OnlyLowFlags
    <3> QED
      BY <1>2, <2>1, <3>1
  <2> QED
    BY Zenon, <1>3, <2>2
<1>4. CASE ~intr
  <2>1. SetBit(other, 9, intr) = other
    BY <1>1, <1>4 DEF SetBit
  <2>2. ASSUME 0 \in bits
        PROVE  FALSE
    <3>1. PICK b \in other : b >= 9 /\ b - 9 = 0
      BY Zenon, <1>2, <2>1, <2>2
    <3> QED
      BY <1>1, <3>1 DEF Word
  <2>3. intr = FALSE /\ saved = FALSE
    BY <1>4, <2>2 DEF LogLockTypeOK
  <2> QED
    BY Zenon, <2>3
<1> QED
  BY <1>3, <1>4

----------------------------------------------------------------------------
(***************************************************************************)
(* The interrupt flag.                                                     *)
(***************************************************************************)

\* A step of a log call keeps FlagInv if it leaves the flag as its place says.
LEMMA TopFlag ==
  ASSUME LogLockTypeOK, FlagInv, NEW c \in Ctx, c.kind = top.kind,
         TopIs(c),
         c.resume = top.resume, FlagOf(c, intr')
  PROVE  FlagInv'
<1>1. /\ Len(stack') = Len(stack) /\ Len(stack) \in Nat \ {0}
      /\ stack'[Len(stack)] = c
      /\ \A i \in 1 .. Len(stack) - 1 : stack'[i] = stack[i]
  BY TopChange DEF LogLockTypeOK
<1>2. \A i \in 1 .. Len(stack) : stack'[i].resume = stack[i].resume
  BY <1>1 DEF top
<1>3. SUFFICES ASSUME NEW i \in 1 .. Len(stack)
               PROVE  FlagOf(stack'[i], FlagAt(i)')
  BY <1>1 DEF FlagInv
<1>4. CASE i = Len(stack)
  BY <1>1, <1>4 DEF FlagAt
<1>5. CASE i # Len(stack)
  <2>1. FlagAt(i)' = FlagAt(i)
    BY <1>1, <1>2, <1>5 DEF FlagAt
  <2>2. stack'[i] = stack[i]
    BY <1>1, <1>5
  <2> QED
    BY <2>1, <2>2 DEF FlagInv
<1> QED
  BY <1>4, <1>5

\* A new context saves the flag of the one below it.
LEMMA PushFlag ==
  ASSUME LogLockTypeOK, FlagInv, NEW c \in Ctx,
         PushIs(c), c.resume = intr, FlagOf(c, intr')
  PROVE  FlagInv'
<1>1. /\ Len(stack') = Len(stack) + 1 /\ Len(stack) \in Nat \ {0}
      /\ stack'[Len(stack) + 1] = c
      /\ \A i \in 1 .. Len(stack) : stack'[i] = stack[i]
  BY PushChange DEF LogLockTypeOK
<1>2. SUFFICES ASSUME NEW i \in 1 .. Len(stack) + 1
               PROVE  FlagOf(stack'[i], FlagAt(i)')
  BY <1>1 DEF FlagInv
<1>3. CASE i = Len(stack) + 1
  BY <1>1, <1>3 DEF FlagAt
<1>4. CASE i # Len(stack) + 1
  <2>1. FlagAt(i)' = FlagAt(i)
    BY <1>1, <1>4 DEF FlagAt
  <2>2. stack'[i] = stack[i]
    BY <1>1, <1>4
  <2> QED
    BY <1>4, <2>1, <2>2 DEF FlagInv
<1> QED
  BY <1>3, <1>4

\* iret gives the context below its flag back.
LEMMA PopFlag ==
  ASSUME LogLockTypeOK, FlagInv, top.kind \in Returning,
         Popped, intr' = top.resume
  PROVE  FlagInv'
<1>1. /\ Len(stack') = Len(stack) - 1 /\ Len(stack') > 0
      /\ Len(stack) \in Nat
      /\ \A i \in 1 .. Len(stack) - 1 : stack'[i] = stack[i]
  BY PopChange DEF LogLockTypeOK
<1>2. SUFFICES ASSUME NEW i \in 1 .. Len(stack) - 1
               PROVE  FlagOf(stack'[i], FlagAt(i)')
  BY <1>1 DEF FlagInv
<1>3. FlagAt(i)' = FlagAt(i)
  BY <1>1 DEF FlagAt, top
<1> QED
  BY <1>1, <1>3 DEF FlagInv

----------------------------------------------------------------------------
(***************************************************************************)
(* The lock.                                                               *)
(***************************************************************************)

\* A step of a log call that neither starts nor ends a record, and leaves the
\* lock alone.
LEMMA TopWrite ==
  ASSUME LogLockTypeOK, WriteInv, NEW c \in Ctx, c.kind = top.kind,
         TopIs(c),
         c.pc # "write", top.pc # "write" \/ ~locked',
         top.pc = "write" \/ locked' = locked
  PROVE  WriteInv'
<1>1. /\ Len(stack') = Len(stack) /\ Len(stack) \in Nat \ {0}
      /\ stack'[Len(stack)] = c
      /\ \A i \in 1 .. Len(stack) - 1 : stack'[i] = stack[i]
      /\ \A i \in 1 .. Len(stack) : stack'[i].kind = stack[i].kind
  BY TopChange DEF LogLockTypeOK
<1>2. \A i \in 1 .. Len(stack) :
        stack'[i].pc = "write" => i < Len(stack) /\ stack[i].pc = "write"
  BY <1>1
<1>3. ASSUME NEW i \in 1 .. Len(stack), stack'[i].pc = "write"
      PROVE  locked' \/ \E k \in i + 1 .. Len(stack) : stack[k].kind \in Dying
  BY <1>1, <1>2, <1>3 DEF WriteInv, top
<1>4. ASSUME NEW i \in 1 .. Len(stack), NEW j \in 1 .. Len(stack), i < j,
             stack'[i].pc = "write", stack'[j].pc = "write"
      PROVE  \E k \in i + 1 .. j : stack[k].kind \in Dying
  BY <1>2, <1>4 DEF WriteInv
<1> QED
  BY <1>1, <1>3, <1>4 DEF WriteInv

\* A context that takes the lock finds every earlier record cut off.
LEMMA LockWrite ==
  ASSUME LogLockTypeOK, WriteInv, NEW c \in Ctx, c.kind = top.kind,
         TopIs(c), ~locked, locked'
  PROVE  WriteInv'
<1>1. /\ Len(stack') = Len(stack) /\ Len(stack) \in Nat \ {0}
      /\ \A i \in 1 .. Len(stack) - 1 : stack'[i] = stack[i]
      /\ \A i \in 1 .. Len(stack) : stack'[i].kind = stack[i].kind
  BY TopChange DEF LogLockTypeOK
<1>2. ASSUME NEW i \in 1 .. Len(stack), NEW j \in 1 .. Len(stack), i < j,
             stack'[i].pc = "write", stack'[j].pc = "write"
      PROVE  \E k \in i + 1 .. j : stack[k].kind \in Dying
  <2>1. stack[i].pc = "write"
    BY <1>1, <1>2
  <2>2. CASE j = Len(stack)
    BY <2>1, <2>2 DEF WriteInv
  <2>3. CASE j # Len(stack)
    BY <1>1, <1>2, <2>1, <2>3 DEF WriteInv
  <2> QED
    BY <2>2, <2>3
<1>3. ASSUME NEW i \in 1 .. Len(stack), NEW j \in 1 .. Len(stack), i < j,
             stack'[i].pc = "write", stack'[j].pc = "write"
      PROVE  \E k \in i + 1 .. j : stack'[k].kind \in Dying
  <2>1. PICK k \in i + 1 .. j : stack[k].kind \in Dying
    BY <1>2, <1>3
  <2> QED
    BY <1>1, <2>1
<1> QED
  BY <1>1, <1>3 DEF WriteInv

\* A new context has written nothing; only a fault opens the lock.
LEMMA PushWrite ==
  ASSUME LogLockTypeOK, WriteInv, NEW c \in Ctx, PushIs(c),
         c.pc = "run", c.kind \in Dying \/ locked' = locked
  PROVE  WriteInv'
<1>1. /\ Len(stack') = Len(stack) + 1 /\ Len(stack) \in Nat \ {0}
      /\ stack'[Len(stack) + 1] = c
      /\ \A i \in 1 .. Len(stack) : stack'[i] = stack[i]
  BY PushChange DEF LogLockTypeOK
<1>2. \A i \in 1 .. Len(stack) + 1 :
        stack'[i].pc = "write" => i <= Len(stack) /\ stack[i].pc = "write"
  BY <1>1
<1>3. ASSUME NEW i \in 1 .. Len(stack), stack[i].pc = "write"
      PROVE  locked' \/ \E k \in i + 1 .. Len(stack) + 1 : stack'[k].kind \in Dying
  <2>1. CASE c.kind \in Dying
    BY <1>1, <2>1
  <2>2. CASE locked' = locked
    BY <1>1, <1>3, <2>2 DEF WriteInv
  <2> QED
    BY <2>1, <2>2
<1>4. ASSUME NEW i \in 1 .. Len(stack), NEW j \in 1 .. Len(stack), i < j,
             stack[i].pc = "write", stack[j].pc = "write"
      PROVE  \E k \in i + 1 .. j : stack'[k].kind \in Dying
  BY <1>1, <1>4 DEF WriteInv
<1> QED
  BY <1>1, <1>2, <1>3, <1>4 DEF WriteInv

\* The context that returns is no fault, so no cut-off record is resumed.
LEMMA PopWrite ==
  ASSUME LogLockTypeOK, WriteInv, top.kind \in Returning,
         Popped, locked' = locked
  PROVE  WriteInv'
<1>1. /\ Len(stack') = Len(stack) - 1 /\ Len(stack) \in Nat
      /\ \A i \in 1 .. Len(stack) - 1 : stack'[i] = stack[i]
  BY PopChange DEF LogLockTypeOK
<1>2. stack[Len(stack)].kind \notin Dying
  BY DEF top, Returning, Dying
<1>3. ASSUME NEW i \in 1 .. Len(stack) - 1, stack[i].pc = "write"
      PROVE  locked' \/ \E k \in i + 1 .. Len(stack) - 1 : stack'[k].kind \in Dying
  <2>1. i \in 1 .. Len(stack)
    BY <1>1
  <2>2. CASE locked
    BY <2>2
  <2>3. CASE ~locked
    <3>1. PICK k \in i + 1 .. Len(stack) : stack[k].kind \in Dying
      BY <1>3, <2>1, <2>3 DEF WriteInv
    <3>2. k # Len(stack)
      BY <1>2, <3>1
    <3>3. k \in i + 1 .. Len(stack) - 1 /\ k \in 1 .. Len(stack) - 1
      <4>1. Len(stack) \in Nat
        BY <1>1
      <4>2. k \in Nat /\ k < Len(stack) /\ i + 1 <= k
        BY <2>1, <3>2, <4>1
      <4> QED
        BY <4>1, <4>2
    <3>4. stack'[k].kind \in Dying
      BY <1>1, <3>1, <3>3
    <3> QED
      BY <3>3, <3>4
  <2> QED
    BY <2>2, <2>3
<1>4. ASSUME NEW i \in 1 .. Len(stack) - 1, NEW j \in 1 .. Len(stack) - 1,
             i < j, stack[i].pc = "write", stack[j].pc = "write"
      PROVE  \E k \in i + 1 .. j : stack'[k].kind \in Dying
  <2>1. i \in 1 .. Len(stack) /\ j \in 1 .. Len(stack)
    BY <1>1
  <2>2. PICK k \in i + 1 .. j : stack[k].kind \in Dying
    BY <1>4, <2>1 DEF WriteInv
  <2> QED
    BY <1>1, <2>2
<1> QED
  BY <1>1, <1>3, <1>4 DEF WriteInv

\* A step of a log call keeps HeldInv unless it ends a record without opening the
\* lock.
LEMMA TopHeld ==
  ASSUME LogLockTypeOK, HeldInv, NEW c \in Ctx, c.kind = top.kind,
         TopIs(c),
         \/ top.pc # "write" /\ locked' = locked
         \/ ~locked'
         \/ c.pc = "write"
  PROVE  HeldInv'
<1>1. /\ Len(stack') = Len(stack) /\ Len(stack) \in Nat \ {0}
      /\ stack'[Len(stack)] = c
      /\ \A i \in 1 .. Len(stack) - 1 : stack'[i] = stack[i]
      /\ \A i \in 1 .. Len(stack) : stack'[i].kind = stack[i].kind
  BY TopChange DEF LogLockTypeOK
<1>2. ASSUME locked'
      PROVE  \E i \in 1 .. Len(stack') :
               /\ stack'[i].pc = "write"
               /\ \A k \in i + 1 .. Len(stack') : stack'[k].kind \notin Dying
  <2>1. CASE c.pc = "write"
    BY <1>1, <2>1
  <2>2. CASE top.pc # "write" /\ locked
    <3>1. PICK i \in 1 .. Len(stack) :
            /\ stack[i].pc = "write"
            /\ \A k \in i + 1 .. Len(stack) : stack[k].kind \notin Dying
      BY <2>2 DEF HeldInv
    <3>2. i \in 1 .. Len(stack) - 1
      BY <1>1, <2>2, <3>1 DEF top
    <3>3. stack'[i].pc = "write"
      BY <1>1, <3>1, <3>2
    <3>4. \A k \in i + 1 .. Len(stack) : stack'[k].kind \notin Dying
      BY <1>1, <3>1, <3>2
    <3> QED
      BY <1>1, <3>3, <3>4
  <2> QED
    BY Zenon, <1>2, <2>1, <2>2
<1>3. ASSUME NEW i \in 1 .. Len(stack) - 1, stack'[i].pc = "write"
      PROVE  \/ stack'[i + 1].kind \in Dying
             \/ stack'[i + 1].kind = "general_protection_fault"
             \/ stack'[i + 1].kind = "irq" /\ stack'[i].flag /\ ~stack'[i].saved
  <2>1. stack'[i] = stack[i] /\ stack'[i + 1].kind = stack[i + 1].kind
    BY <1>1
  <2> QED
    BY <1>3, <2>1 DEF HeldInv
<1> QED
  BY <1>1, <1>2, <1>3 DEF HeldInv

\* A fault opens the lock; what else comes on top of a record is an interrupt,
\* with interrupts enabled, or a general protection fault.
LEMMA PushHeld ==
  ASSUME LogLockTypeOK, HeldInv, NEW c \in Ctx, PushIs(c),
         \/ c.kind \in Dying /\ ~locked'
         \/ c.kind \notin Dying /\ locked' = locked,
         top.pc = "write" =>
           \/ c.kind \in Dying
           \/ c.kind = "general_protection_fault"
           \/ c.kind = "irq" /\ top.flag /\ ~top.saved
  PROVE  HeldInv'
<1>1. /\ Len(stack') = Len(stack) + 1 /\ Len(stack) \in Nat \ {0}
      /\ stack'[Len(stack) + 1] = c
      /\ \A i \in 1 .. Len(stack) : stack'[i] = stack[i]
  BY PushChange DEF LogLockTypeOK
<1>2. ASSUME locked'
      PROVE  \E i \in 1 .. Len(stack') :
               /\ stack'[i].pc = "write"
               /\ \A k \in i + 1 .. Len(stack') : stack'[k].kind \notin Dying
  <2>1. c.kind \notin Dying /\ locked
    BY Zenon, <1>2
  <2>2. PICK i \in 1 .. Len(stack) :
          /\ stack[i].pc = "write"
          /\ \A k \in i + 1 .. Len(stack) : stack[k].kind \notin Dying
    BY <2>1 DEF HeldInv
  <2>3. stack'[i].pc = "write"
    BY <1>1, <2>2
  <2>4. ASSUME NEW k \in i + 1 .. Len(stack) + 1
        PROVE  stack'[k].kind \notin Dying
    <3>1. CASE k = Len(stack) + 1
      BY <1>1, <2>1, <3>1
    <3>2. CASE k # Len(stack) + 1
      <4>1. k \in i + 1 .. Len(stack) /\ k \in 1 .. Len(stack)
        BY <1>1, <3>2
      <4> QED
        BY <1>1, <2>2, <4>1
    <3> QED
      BY <3>1, <3>2
  <2> QED
    BY <1>1, <2>3, <2>4
<1>3. ASSUME NEW i \in 1 .. Len(stack), stack'[i].pc = "write"
      PROVE  \/ stack'[i + 1].kind \in Dying
             \/ stack'[i + 1].kind = "general_protection_fault"
             \/ stack'[i + 1].kind = "irq" /\ stack'[i].flag /\ ~stack'[i].saved
  <2>1. CASE i = Len(stack)
    BY <1>1, <1>3, <2>1 DEF top
  <2>2. CASE i # Len(stack)
    <3>1. /\ i \in 1 .. Len(stack) - 1
          /\ stack'[i] = stack[i] /\ stack'[i + 1] = stack[i + 1]
      BY <1>1, <2>2
    <3> QED
      BY <1>3, <3>1 DEF HeldInv
  <2> QED
    BY <2>1, <2>2
<1> QED
  BY <1>1, <1>2, <1>3 DEF HeldInv

\* A context that returns is not inside a record.
LEMMA PopHeld ==
  ASSUME LogLockTypeOK, HeldInv, top.kind \in Returning, top.pc = "run",
         Popped, locked' = locked
  PROVE  HeldInv'
<1>1. /\ Len(stack') = Len(stack) - 1 /\ Len(stack) \in Nat \ {0}
      /\ \A i \in 1 .. Len(stack) - 1 : stack'[i] = stack[i]
  BY PopChange DEF LogLockTypeOK
<1>2. ASSUME locked'
      PROVE  \E i \in 1 .. Len(stack') :
               /\ stack'[i].pc = "write"
               /\ \A k \in i + 1 .. Len(stack') : stack'[k].kind \notin Dying
  <2>1. PICK i \in 1 .. Len(stack) :
          /\ stack[i].pc = "write"
          /\ \A k \in i + 1 .. Len(stack) : stack[k].kind \notin Dying
    BY <1>2 DEF HeldInv
  <2>2. i \in 1 .. Len(stack) - 1
    BY <1>1, <2>1 DEF top
  <2>3. stack'[i].pc = "write"
    BY <1>1, <2>1, <2>2
  <2>4. ASSUME NEW k \in i + 1 .. Len(stack) - 1
        PROVE  stack'[k].kind \notin Dying
    <3>1. k \in i + 1 .. Len(stack) /\ k \in 1 .. Len(stack) - 1
      BY <1>1, <2>2
    <3> QED
      BY <1>1, <2>1, <3>1
  <2> QED
    BY <1>1, <2>2, <2>3, <2>4
<1>3. ASSUME NEW i \in 1 .. Len(stack) - 2, stack'[i].pc = "write"
      PROVE  \/ stack'[i + 1].kind \in Dying
             \/ stack'[i + 1].kind = "general_protection_fault"
             \/ stack'[i + 1].kind = "irq" /\ stack'[i].flag /\ ~stack'[i].saved
  <2>1. /\ i \in 1 .. Len(stack) - 1
        /\ stack'[i] = stack[i] /\ stack'[i + 1] = stack[i + 1]
    BY <1>1
  <2> QED
    BY <1>3, <2>1 DEF HeldInv
<1> QED
  BY <1>1, <1>2, <1>3 DEF HeldInv

----------------------------------------------------------------------------
(***************************************************************************)
(* The invariants hold.                                                    *)
(***************************************************************************)
LogLockInv == LogLockTypeOK /\ FlagInv /\ WriteInv /\ HeldInv

LEMMA LogLockInvInit ==
  LogLockInit => LogLockInv
<1> SUFFICES ASSUME NEW flag \in BOOLEAN, intr = flag, locked = FALSE,
                    stack = <<Context("thread", flag, flag)>>
             PROVE  LogLockInv
  BY Zenon DEF LogLockInit
<1>1. Context("thread", flag, flag) \in Ctx
  BY DEF Context, Ctx, Kind, Pc
<1>2. Len(stack) = 1 /\ stack[1] = Context("thread", flag, flag)
  OBVIOUS
<1>3. LogLockTypeOK
  <2>1. stack \in Seq(Ctx) /\ Len(stack) > 0
    BY <1>1, <1>2
  <2>2. stack[1].kind = "thread"
    BY <1>2 DEF Context
  <2> QED
    BY Zenon, <2>1, <2>2 DEF LogLockTypeOK
<1>4. FlagInv
  BY <1>2 DEF FlagInv, FlagOf, FlagAt, Context
<1>5. WriteInv /\ HeldInv
  BY <1>2 DEF WriteInv, HeldInv, Context
<1> QED
  BY <1>3, <1>4, <1>5 DEF LogLockInv

\* Each step of a log call keeps the invariant.
LEMMA CallKeepsInv ==
  ASSUME LogLockInv, NEW c \in Ctx, TopIs(c),
         c.kind = top.kind, c.resume = top.resume,
         intr' \in BOOLEAN, locked' \in BOOLEAN,
         FlagOf(c, intr'),
         \/ c.pc # "write" /\ top.pc # "write" /\ locked' = locked
         \/ c.pc # "write" /\ top.pc = "write" /\ ~locked'
         \/ c.pc = "write" /\ ~locked /\ locked'
  PROVE  LogLockInv'
<1>1. LogLockTypeOK /\ FlagInv /\ WriteInv /\ HeldInv
  BY DEF LogLockInv
<1>2. LogLockTypeOK'
  BY <1>1, TopChange DEF LogLockTypeOK
<1>3. FlagInv'
  BY <1>1, TopFlag
<1>4. WriteInv'
  BY <1>1, TopWrite, LockWrite
<1>5. HeldInv'
  BY <1>1, TopHeld
<1> QED
  BY <1>2, <1>3, <1>4, <1>5 DEF LogLockInv

\* So does a context that is put on top.
LEMMA PushKeepsInv ==
  ASSUME LogLockInv, NEW kind \in Kind, NEW flag \in BOOLEAN,
         PushIs(Context(kind, intr, flag)), intr' = flag,
         \/ kind \in Dying /\ locked' = FALSE
         \/ kind \notin Dying /\ locked' = locked,
         top.pc = "write" =>
           \/ kind \in Dying
           \/ kind = "general_protection_fault"
           \/ kind = "irq" /\ top.flag /\ ~top.saved
  PROVE  LogLockInv'
<1> DEFINE c == Context(kind, intr, flag)
<1>1. LogLockTypeOK /\ FlagInv /\ WriteInv /\ HeldInv
  BY DEF LogLockInv
<1>2. c \in Ctx
  BY <1>1 DEF LogLockTypeOK, Context, Ctx, Pc
<1>3. c.resume = intr /\ c.kind = kind /\ c.pc = "run" /\ FlagOf(c, intr')
  BY DEF Context, FlagOf
<1> HIDE DEF c
<1>4. LogLockTypeOK'
  <2>1. /\ stack' \in Seq(Ctx) /\ Len(stack') = Len(stack) + 1
        /\ stack'[1].kind = "thread"
    BY <1>1, <1>2, PushChange DEF c
  <2>2. Len(stack) \in Nat
    BY <1>1 DEF LogLockTypeOK
  <2>3. intr' \in BOOLEAN
    OBVIOUS
  <2>4. locked' \in BOOLEAN
    BY Zenon, <1>1 DEF LogLockTypeOK
  <2> QED
    BY <2>1, <2>2, <2>3, <2>4 DEF LogLockTypeOK
<1>5. FlagInv'
  BY <1>1, <1>2, <1>3, PushFlag DEF c
<1>6. WriteInv'
  BY <1>1, <1>2, <1>3, PushWrite DEF c
<1>7. HeldInv'
  <2>1. PushIs(c)
    BY DEF c
  <2> QED
    BY Zenon, <1>1, <1>2, <1>3, <2>1, PushHeld
<1> QED
  BY <1>4, <1>5, <1>6, <1>7 DEF LogLockInv

\* The running context as ReadFlags and Unlock leave it.
LEMMA CallUpdates ==
  ASSUME LogLockTypeOK
  PROVE  /\ \A pc \in Pc, b \in BOOLEAN :
              /\ [top EXCEPT !.pc = pc, !.saved = b] \in Ctx
              /\ [top EXCEPT !.pc = pc, !.logged = b] \in Ctx
         /\ \A b \in BOOLEAN :
              stack' = [stack EXCEPT ![Len(stack)].pc = "cli",
                                     ![Len(stack)].saved = b]
              => TopIs([top EXCEPT !.pc = "cli", !.saved = b])
         /\ stack' = [stack EXCEPT ![Len(stack)].pc = "sti",
                                   ![Len(stack)].logged = TRUE]
            => TopIs([top EXCEPT !.pc = "sti", !.logged = TRUE])
<1>1. top \in Ctx /\ Len(stack) \in DOMAIN stack /\ stack \in Seq(Ctx)
  BY DEF LogLockTypeOK, top
<1>2. ASSUME NEW pc \in Pc, NEW b \in BOOLEAN
      PROVE  /\ [top EXCEPT !.pc = pc, !.saved = b] \in Ctx
             /\ [top EXCEPT !.pc = pc, !.logged = b] \in Ctx
  BY Zenon, <1>1 DEF Ctx
<1>3. ASSUME NEW b \in BOOLEAN,
             stack' = [stack EXCEPT ![Len(stack)].pc = "cli",
                                    ![Len(stack)].saved = b]
      PROVE  TopIs([top EXCEPT !.pc = "cli", !.saved = b])
  BY Zenon, <1>1, <1>3 DEF TopIs, top, Ctx
<1>4. ASSUME stack' = [stack EXCEPT ![Len(stack)].pc = "sti",
                                    ![Len(stack)].logged = TRUE]
      PROVE  TopIs([top EXCEPT !.pc = "sti", !.logged = TRUE])
  BY Zenon, <1>1, <1>4 DEF TopIs, top, Ctx
<1> QED
  BY Zenon, <1>2, <1>3, <1>4

\* What a log call saves it saves in the running context.
LEMMA TopSaved ==
  ASSUME LogLockTypeOK, SavedInv, NEW c \in Ctx, c.kind = top.kind, TopIs(c),
         c.pc # "run" => c.saved = c.flag
  PROVE  SavedInv'
BY TopChange DEF LogLockTypeOK, SavedInv

\* A new context is not in a log call, and a return leaves those below alone.
LEMMA PushSaved ==
  ASSUME LogLockTypeOK, SavedInv, NEW c \in Ctx, PushIs(c), c.pc = "run"
  PROVE  SavedInv'
BY PushChange DEF LogLockTypeOK, SavedInv

LEMMA PopSaved ==
  ASSUME LogLockTypeOK, SavedInv, top.kind \in Returning, Popped
  PROVE  SavedInv'
BY PopChange DEF LogLockTypeOK, SavedInv

----------------------------------------------------------------------------
(***************************************************************************)
(* One step of the system.                                                 *)
(***************************************************************************)
LEMMA LogLockStep ==
  ASSUME LogLockInv, [LogLockNext]_logLockVars
  PROVE  /\ LogLockInv'
         /\ OnlyLowFlags /\ SavedInv => SavedInv'
<1>1. /\ LogLockTypeOK /\ intr \in BOOLEAN /\ locked \in BOOLEAN
      /\ top \in Ctx /\ FlagOf(top, intr)
      /\ top.flag \in BOOLEAN /\ top.saved \in BOOLEAN /\ top.resume \in BOOLEAN
  <2>1. LogLockTypeOK /\ top \in Ctx
    BY CallSteps DEF LogLockInv
  <2>2. Len(stack) \in 1 .. Len(stack)
    BY <2>1 DEF LogLockTypeOK
  <2>3. FlagOf(top, intr)
    BY <2>2 DEF LogLockInv, FlagInv, FlagAt, top
  <2> QED
    BY <2>1, <2>3 DEF LogLockTypeOK, Ctx
<1>2. ASSUME SavedInv
      PROVE  top.pc # "run" => top.saved = top.flag
  <2>1. Len(stack) \in 1 .. Len(stack)
    BY <1>1 DEF LogLockTypeOK
  <2> QED
    BY <1>2, <2>1 DEF SavedInv, top
<1>3. CASE ReadFlags
  <2>1. PICK other \in OtherFlags :
          stack' = [stack EXCEPT ![Len(stack)].pc = "cli",
                                 ![Len(stack)].saved =
                                    GetBits(SetBit(other, 9, intr), 9, 10) = {0}]
    BY <1>3 DEF ReadFlags
  <2> DEFINE saved == GetBits(SetBit(other, 9, intr), 9, 10) = {0}
             c == [top EXCEPT !.pc = "cli", !.saved = saved]
  <2>2. saved \in BOOLEAN /\ (saved => intr) /\ (OnlyLowFlags => saved = intr)
    BY Zenon, <1>1, GetIF
  <2> HIDE DEF saved
  <2>3. c \in Ctx /\ TopIs(c)
    BY Zenon, <1>1, <2>1, <2>2, CallUpdates DEF Pc, saved
  <2>4. /\ c.kind = top.kind /\ c.resume = top.resume /\ c.flag = top.flag
        /\ c.pc = "cli" /\ c.saved = saved
    BY <1>1 DEF Ctx
  <2> HIDE DEF c
  <2>5. top.pc = "run" /\ intr' = intr /\ locked' = locked
    BY <1>3 DEF ReadFlags
  <2>6. intr = top.flag
    BY <1>1, <2>5 DEF FlagOf
  <2>7. FlagOf(c, intr')
    BY <2>2, <2>4, <2>5, <2>6 DEF FlagOf
  <2>8. LogLockInv'
    BY <1>1, <2>3, <2>4, <2>5, <2>7, CallKeepsInv
  <2>9. ASSUME OnlyLowFlags, SavedInv
        PROVE  SavedInv'
    BY <1>1, <2>2, <2>3, <2>4, <2>6, <2>9, TopSaved
  <2> QED
    BY <2>8, <2>9
<1>4. ASSUME NEW pc \in Pc, Top(pc), NEW b \in BOOLEAN, intr' = b,
             locked' \in BOOLEAN, top.pc # "run", top.pc # "write",
             pc = "write" => ~locked /\ locked',
             pc # "write" => locked' = locked,
             FlagOf([top EXCEPT !.pc = pc], b)
      PROVE  /\ LogLockInv'
             /\ SavedInv => SavedInv'
  <2> DEFINE c == [top EXCEPT !.pc = pc]
  <2>1. c \in Ctx /\ TopIs(c)
    BY <1>1, <1>4, CallSteps
  <2>2. /\ c.kind = top.kind /\ c.resume = top.resume /\ c.flag = top.flag
        /\ c.pc = pc /\ c.saved = top.saved
    BY <1>1 DEF Ctx
  <2>3. FlagOf(c, intr')
    BY <1>4
  <2> HIDE DEF c
  <2>4. LogLockInv'
    BY <1>1, <1>4, <2>1, <2>2, <2>3, CallKeepsInv
  <2>5. ASSUME SavedInv
        PROVE  SavedInv'
    BY <1>1, <1>2, <1>4, <2>1, <2>2, <2>5, TopSaved
  <2> QED
    BY <2>4, <2>5
<1>5. CASE Cli
  <2>1. top.pc = "cli" /\ Top("lock") /\ locked' = locked
    BY <1>5 DEF Cli
  <2>2. intr' = (intr /\ ~top.saved)
    BY <1>5 DEF Cli
  <2>3. FlagOf([top EXCEPT !.pc = "lock"], intr /\ ~top.saved)
    BY <1>1, <2>1 DEF FlagOf, Ctx
  <2> QED
    BY Zenon, <1>1, <1>4, <2>1, <2>2, <2>3 DEF Pc
<1>6. CASE Lock
  <2>1. top.pc = "lock" /\ Top("write") /\ ~locked /\ locked' = TRUE /\ intr' = intr
    BY <1>6 DEF Lock
  <2>2. FlagOf([top EXCEPT !.pc = "write"], intr)
    BY <1>1, <2>1 DEF FlagOf, Ctx
  <2> QED
    BY <1>1, <1>4, <2>1, <2>2 DEF Pc
<1>7. CASE Unlock
  <2> DEFINE c == [top EXCEPT !.pc = "sti", !.logged = TRUE]
  <2>1. c \in Ctx /\ TopIs(c)
    BY Zenon, <1>1, <1>7, CallUpdates DEF Unlock, Pc
  <2>2. /\ c.kind = top.kind /\ c.resume = top.resume /\ c.flag = top.flag
        /\ c.pc = "sti" /\ c.saved = top.saved
    BY <1>1 DEF Ctx
  <2> HIDE DEF c
  <2>3. top.pc = "write" /\ locked' = FALSE /\ intr' = intr
    BY <1>7 DEF Unlock
  <2>4. FlagOf(c, intr')
    BY <1>1, <2>2, <2>3 DEF FlagOf
  <2>5. LogLockInv'
    BY Zenon, <1>1, <2>1, <2>2, <2>3, <2>4, CallKeepsInv
  <2>6. ASSUME SavedInv
        PROVE  SavedInv'
    BY <1>1, <1>2, <2>1, <2>2, <2>3, <2>6, TopSaved
  <2> QED
    BY <2>5, <2>6
<1>8. CASE Sti
  <2>1. top.pc = "sti" /\ Top("run") /\ locked' = locked
    BY <1>8 DEF Sti
  <2>2. intr' = (intr \/ top.saved)
    BY <1>8 DEF Sti
  <2>3. FlagOf([top EXCEPT !.pc = "run"], intr \/ top.saved)
    BY <1>1, <2>1 DEF FlagOf, Ctx
  <2> QED
    BY <1>1, <1>4, <2>1, <2>2, <2>3 DEF Pc
<1>9. CASE Return
  <2>1. /\ top.kind \in Returning /\ top.pc = "run" /\ Popped
        /\ intr' = top.resume /\ locked' = locked
    BY <1>9 DEF Return, Popped
  <2>2. LogLockTypeOK' /\ FlagInv' /\ WriteInv' /\ HeldInv'
    <3>1. LogLockTypeOK'
      BY <1>1, <2>1, PopChange DEF LogLockTypeOK
    <3> QED
      BY <1>1, <2>1, <3>1, PopFlag, PopWrite, PopHeld DEF LogLockInv
  <2>3. ASSUME SavedInv
        PROVE  SavedInv'
    BY <1>1, <2>1, <2>3, PopSaved
  <2> QED
    BY <2>2, <2>3 DEF LogLockInv
<1>10. ASSUME NEW kind \in Kind, NEW flag \in BOOLEAN,
              PushIs(Context(kind, intr, flag)), intr' = flag,
              \/ kind \in Dying /\ locked' = FALSE
              \/ kind \notin Dying /\ locked' = locked,
              top.pc = "write" =>
                \/ kind \in Dying
                \/ kind = "general_protection_fault"
                \/ kind = "irq" /\ top.flag /\ ~top.saved
       PROVE  /\ LogLockInv'
              /\ SavedInv => SavedInv'
  <2>1. LogLockInv'
    BY Zenon, <1>10, PushKeepsInv
  <2>2. Context(kind, intr, flag) \in Ctx /\ Context(kind, intr, flag).pc = "run"
    BY <1>1 DEF Context, Ctx, Pc
  <2>3. ASSUME SavedInv
        PROVE  SavedInv'
    BY Zenon, <1>1, <1>10, <2>2, <2>3, PushSaved
  <2> QED
    BY <2>1, <2>3
<1>11. CASE Irq
  <2>1. /\ intr = TRUE /\ PushIs(Context("irq", intr, FALSE))
        /\ intr' = FALSE /\ locked' = locked
    BY <1>1, <1>11 DEF Irq, Push, PushIs
  <2>2. top.pc = "write" => top.flag /\ ~top.saved
    BY Zenon, <1>1, <2>1 DEF FlagOf
  <2>3. "irq" \in Kind /\ "irq" \notin Dying
    BY DEF Kind, Returning, Dying
  <2> QED
    BY Zenon, <1>10, <2>1, <2>2, <2>3
<1>12. CASE Breakpoint
  <2>1. /\ top.pc = "run" /\ PushIs(Context("breakpoint", intr, FALSE))
        /\ intr' = FALSE /\ locked' = locked
    BY <1>12 DEF Breakpoint, Push, PushIs
  <2>2. "breakpoint" \in Kind /\ "breakpoint" \notin Dying /\ top.pc # "write"
    BY <2>1 DEF Kind, Returning, Dying
  <2> QED
    BY Zenon, <1>10, <2>1, <2>2
<1>13. CASE GeneralProtectionFault
  <2>1. /\ PushIs(Context("general_protection_fault", intr, FALSE))
        /\ intr' = FALSE /\ locked' = locked
    BY <1>13 DEF GeneralProtectionFault, Push, PushIs
  <2>2. /\ "general_protection_fault" \in Kind
        /\ "general_protection_fault" \notin Dying
    BY DEF Kind, Returning, Dying
  <2> QED
    BY Zenon, <1>10, <2>1, <2>2
<1>14. CASE PageFault
  BY Zenon, <1>10, <1>14 DEF PageFault, Push, PushIs, Dying, Kind
<1>15. CASE Panic
  BY Zenon, <1>1, <1>10, <1>15 DEF Panic, Push, PushIs, Dying, Kind
<1>16. CASE UNCHANGED logLockVars
  BY <1>16 DEF logLockVars, LogLockInv, LogLockTypeOK, FlagInv, FlagAt, FlagOf,
               WriteInv, HeldInv, SavedInv, top
<1> QED
  BY <1>3, <1>5, <1>6, <1>7, <1>8, <1>9, <1>11, <1>12, <1>13, <1>14, <1>15, <1>16
  DEF LogLockNext, Step, Halt

----------------------------------------------------------------------------
\* LogLockInv is invariant, whatever else RFLAGS holds.
LEMMA LogLockInvariant == LogLockSpec => []LogLockInv
<1>1. LogLockInv /\ [LogLockNext]_logLockVars => LogLockInv'
  BY LogLockStep
<1> QED
  BY <1>1, LogLockInvInit, PTL DEF LogLockSpec

\* A log call leaves the interrupt flag as it was, in every context, for every
\* value of the other flags and every nesting of handlers (without_interrupts
\* of src/shared_lib/src/interrupts.rs).
THEOREM FlagIsRestored == LogLockSpec => []FlagRestored
<1>1. LogLockInv => FlagRestored
  <2> SUFFICES ASSUME LogLockInv
               PROVE  FlagRestored
    OBVIOUS
  <2>1. Len(stack) \in 1 .. Len(stack)
    BY DEF LogLockInv, LogLockTypeOK
  <2>2. FlagOf(top, intr)
    BY <2>1 DEF LogLockInv, FlagInv, FlagAt, top
  <2> QED
    BY <2>2 DEF FlagOf, FlagRestored
<1> QED
  BY <1>1, LogLockInvariant, PTL

\* Two records are never mixed, also when interrupts stay enabled in the
\* closure: the lock alone sees to it (log and force_unlock of
\* src/shared_lib/src/serial_logger.rs and logger.rs).
THEOREM RecordsAreNotMixed == LogLockSpec => []RecordsNotMixed
<1>1. LogLockInv => RecordsNotMixed
  <2> SUFFICES ASSUME LogLockInv
               PROVE  RecordsNotMixed
    OBVIOUS
  <2>1. Len(stack) \in Nat \ {0}
    BY DEF LogLockInv, LogLockTypeOK
  <2>2. top.pc = "write" => locked
    BY <2>1 DEF LogLockInv, WriteInv, top
  <2> QED
    BY <2>2 DEF LogLockInv, WriteInv, RecordsNotMixed
<1> QED
  BY <1>1, LogLockInvariant, PTL

\* Nobody ever spins on the lock of the logger unless a general protection fault
\* has broken into a record, or an interrupt into one that is written with
\* interrupts enabled: for every value of the other flags and every nesting.  In
\* particular page_fault_handler and the panic handler never spin.
THEOREM OnlyBrokenRecordsSpin == LogLockSpec => []SpinsOnlyIfBrokenInto
<1>1. LogLockInv => SpinsOnlyIfBrokenInto
  <2> SUFFICES ASSUME LogLockInv, top.pc = "lock", locked
               PROVE  \E i \in 1 .. Len(stack) - 1 : BrokenInto(i)
    BY DEF SpinsOnlyIfBrokenInto
  <2>1. Len(stack) \in Nat \ {0}
    BY DEF LogLockInv, LogLockTypeOK
  <2>2. PICK i \in 1 .. Len(stack) :
          /\ stack[i].pc = "write"
          /\ \A k \in i + 1 .. Len(stack) : stack[k].kind \notin Dying
    BY DEF LogLockInv, HeldInv
  <2>3. i \in 1 .. Len(stack) - 1 /\ i + 1 \in i + 1 .. Len(stack)
    BY <2>1, <2>2 DEF top
  <2>4. BrokenInto(i)
    BY <2>2, <2>3 DEF LogLockInv, HeldInv, BrokenInto
  <2> QED
    BY <2>3, <2>4
<1> QED
  BY <1>1, LogLockInvariant, PTL

\* When no flag above IF is set, the closure of without_interrupts does run with
\* interrupts disabled, as its comment says.
THEOREM ClosureIsUninterrupted ==
  ASSUME OnlyLowFlags
  PROVE  LogLockSpec => []ClosureRunsWithInterruptsDisabled
<1>1. LogLockInit => SavedInv
  <2> SUFFICES ASSUME NEW flag \in BOOLEAN,
                      stack = <<Context("thread", flag, flag)>>
               PROVE  SavedInv
    BY Zenon DEF LogLockInit
  <2>1. Len(stack) = 1 /\ stack[1] = Context("thread", flag, flag)
    OBVIOUS
  <2> QED
    BY <2>1 DEF SavedInv, Context
<1>2. LogLockInv /\ SavedInv /\ [LogLockNext]_logLockVars => SavedInv'
  BY LogLockStep
<1>3. LogLockInv /\ SavedInv => ClosureRunsWithInterruptsDisabled
  <2> SUFFICES ASSUME LogLockInv, SavedInv, top.pc \in {"lock", "write"}
               PROVE  ~intr
    BY DEF ClosureRunsWithInterruptsDisabled
  <2>1. Len(stack) \in 1 .. Len(stack)
    BY DEF LogLockInv, LogLockTypeOK
  <2>2. FlagOf(top, intr)
    BY <2>1 DEF LogLockInv, FlagInv, FlagAt, top
  <2>3. top.saved = top.flag
    BY <2>1 DEF SavedInv, top
  <2> QED
    BY Zenon, <2>2, <2>3 DEF FlagOf
<1> QED
  BY <1>1, <1>2, <1>3, LogLockInvariant, PTL DEF LogLockSpec
============================================================================
