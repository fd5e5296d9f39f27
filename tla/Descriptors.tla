---------------------------- MODULE Descriptors -----------------------------
(***************************************************************************)
(* The segment and interrupt descriptors of src/src/gdt.rs and             *)
(* src/src/idt.rs, as the kernel encodes them and as the processor decodes *)
(* them.  Words, addresses and selectors are sets of bits.                 *)
(***************************************************************************)
EXTENDS Bits, Integers, Sequences

CONSTANTS TssAddress,   \* where the linker may put TSS
          Handler       \* function from vectors to the addresses of handlers

VARIABLES tss, gdt, len, selectors,   \* [of, selector]: what add_entry returned
          gdt_pc, cs, ss, tr, limit,  \* the processor; ss stands for ds and es too
          idt                         \* vectors set so far, to their entries

descriptorsVars == <<tss, gdt, len, selectors, gdt_pc, cs, ss, tr, limit, idt>>

ACCESSED == {40}
WRITABLE == {41}
EXECUTABLE == {43}
USER_SEGMENT == {44}
DPL_RING_3 == {45, 46}
PRESENT == {47}
LONG_MODE == {53}
DEFAULT_SIZE == {54}
GRANULARITY == {55}
LIMIT == 0 .. 15 \cup 48 .. 51

segment == USER_SEGMENT \cup PRESENT \cup WRITABLE \cup ACCESSED \cup LIMIT \cup GRANULARITY
kernel_code_segment == segment \cup EXECUTABLE \cup LONG_MODE
kernel_data_segment == segment \cup DEFAULT_SIZE

TSS_SIZE == 104   \* size_of::<TaskStateSegment>()

\* base, limit, and the type 0b1001
tss_segment_low(ptr) ==
  LET base == SetBits(SetBits(PRESENT, GetBits(ptr, 0, 24), 16), GetBits(ptr, 24, 32), 56)
  IN  SetBits(SetBits(base, BitsOf(TSS_SIZE - 1), 0), BitsOf(9), 40)

tss_segment_high(ptr) == SetBits({}, GetBits(ptr, 32, 64), 0)

\* the words of a Descriptor
Words(of) ==
  CASE of = "code" -> <<kernel_code_segment>>
    [] of = "data" -> <<kernel_data_segment>>
    [] of = "tss"  -> <<tss_segment_low(tss), tss_segment_high(tss)>>

dpl(low) == ShiftRight(low \cap DPL_RING_3, 45)

\* the selectors that firmware and loader leave in cs and ss
FIRMWARE_CS == BitsOf(56)
FIRMWARE_SS == BitsOf(48)

DescriptorsInit ==
  /\ tss \in TssAddress
  /\ gdt = [i \in 0 .. 7 |-> {}] /\ len = 1 /\ selectors = {}
  /\ gdt_pc = "build" /\ cs = FIRMWARE_CS /\ ss = FIRMWARE_SS /\ tr = {} /\ limit = 0
  /\ idt = [v \in {} |-> {}]

\* push, of one word or two
Push(words) ==
  [i \in 0 .. 7 |-> IF i - len + 1 \in DOMAIN words THEN words[i - len + 1] ELSE gdt[i]]

AddEntry_OneSlot(of) ==
  LET words == Words(of) IN
  /\ gdt_pc = "build"
  /\ IF len > 7
     THEN gdt_pc' = "panic" /\ UNCHANGED <<gdt, len, selectors>>
     ELSE /\ gdt' = Push(words)
          /\ len' = len + 1
          /\ selectors' = selectors \cup
               {[of |-> of, selector |-> ShiftLeft(BitsOf(len), 3) \cup dpl(words[1])]}
          /\ UNCHANGED gdt_pc
  /\ UNCHANGED <<tss, cs, ss, tr, limit, idt>>

\* add_entry: one slot, or two for a system segment; a full table panics
AddEntry(of) ==
  LET words == Words(of) IN
  /\ gdt_pc = "build"
  /\ IF len + Len(words) > 8
     THEN gdt_pc' = "panic" /\ UNCHANGED <<gdt, len, selectors>>
     ELSE /\ gdt' = Push(words)
          /\ len' = len + Len(words)
          /\ selectors' = selectors \cup
               {[of |-> of, selector |-> ShiftLeft(BitsOf(len), 3) \cup dpl(words[1])]}
          /\ UNCHANGED gdt_pc
  /\ UNCHANGED <<tss, cs, ss, tr, limit, idt>>

\* init: lgdt, the far return that loads cs, the loads of ds, es and ss, ltr
Load ==
  /\ gdt_pc = "build" /\ {s.of : s \in selectors} = {"code", "data", "tss"}
  /\ limit' = len * 8 - 1
  /\ \E c, d, t \in selectors :
       /\ c.of = "code" /\ d.of = "data" /\ t.of = "tss"
       /\ cs' = c.selector /\ ss' = d.selector /\ tr' = t.selector
  /\ gdt_pc' = "loaded"
  /\ UNCHANGED <<tss, gdt, len, selectors, idt>>

EntryOptions_Minimal == BitsOf(3584)   \* 0b1110_0000_0000

\* the IST index of the double fault handler, software index 0
StackIndex(v) == IF v = 8 THEN GetBits(BitsOf(0 + 1), 0, 3) ELSE {}

\* set_handler_addr, on a missing entry
NewEntry(v) ==
  LET addr == Handler[v] IN
  [pointer_low |-> addr \cap 0 .. 15, pointer_middle |-> ShiftRight(addr, 16) \cap 0 .. 15,
   pointer_high |-> ShiftRight(addr, 32) \cap 0 .. 31, gdt_selector |-> cs,
   options |-> EntryOptions_Minimal \cup {15} \cup StackIndex(v)]

\* the vectors that have a public field, and those that idt[v] gives access to
Field == (0 .. 8) \cup (10 .. 14) \cup (16 .. 21) \cup (28 .. 30)
Indexed == (0 .. 7) \cup {9, 16, 19, 20} \cup 32 .. 255

Set(v) == idt' = [w \in DOMAIN idt \cup {v} |-> IF w = v THEN NewEntry(v) ELSE idt[w]]

SetField_BeforeInit(v) ==
  /\ gdt_pc \in {"build", "loaded"} /\ v \in Field
  /\ Set(v)
  /\ UNCHANGED <<tss, gdt, len, selectors, gdt_pc, cs, ss, tr, limit>>

\* IDT is initialized when init_idt first uses it; preinit calls it after gdt::init
SetField(v) ==
  /\ gdt_pc = "loaded" /\ v \in Field
  /\ Set(v)
  /\ UNCHANGED <<tss, gdt, len, selectors, gdt_pc, cs, ss, tr, limit>>

\* idt[v].set_handler_fn
SetIndexed(v) ==
  /\ gdt_pc = "loaded"
  /\ IF v \in Indexed THEN Set(v) /\ UNCHANGED gdt_pc ELSE gdt_pc' = "panic" /\ UNCHANGED idt
  /\ UNCHANGED <<tss, gdt, len, selectors, cs, ss, tr, limit>>

DescriptorsNext ==
  \/ \E of \in {"code", "data", "tss"} : AddEntry(of)
  \/ Load
  \/ \E v \in DOMAIN Handler : SetField(v) \/ SetIndexed(v)

DescriptorsSpec == DescriptorsInit /\ [][DescriptorsNext]_descriptorsVars

----------------------------------------------------------------------------
(* What the processor makes of the tables. *)
Indexes(selector) == {i \in 1 .. 7 : BitsOf(i) = ShiftRight(selector, 3)}
Slice(w, from, width) == ShiftRight(w, from) \cap 0 .. width - 1

IsCode(w) ==
  /\ (USER_SEGMENT \cup PRESENT \cup EXECUTABLE \cup LONG_MODE) \subseteq w
  /\ DEFAULT_SIZE \cap w = {}
IsData(w) ==
  (USER_SEGMENT \cup PRESENT \cup WRITABLE) \subseteq w /\ EXECUTABLE \cap w = {}
IsTss(low, high) ==
  /\ PRESENT \subseteq low /\ Slice(low, 40, 5) = BitsOf(9) /\ dpl(low) = {}
  /\ Slice(low, 16, 24) \cup ShiftLeft(Slice(low, 56, 8), 24)
     \cup ShiftLeft(Slice(high, 0, 32), 32) = tss
  /\ Slice(low, 0, 16) \cup ShiftLeft(Slice(low, 48, 4), 16) = BitsOf(TSS_SIZE - 1)
  /\ GRANULARITY \cap low = {}

\* However entries are added, a selector that add_entry returned goes on to name the
\* descriptor it was returned for, and the table that lgdt gets holds all of it:
\* a 64-bit code segment, a data segment, or the available TSS at its address
\* ("type (0b1001 = available 64-bit tss)").
SelectorsFindDescriptors ==
  \A s \in selectors : \E i \in Indexes(s.selector) :
    /\ s.selector \cap {0, 1, 2} = {}
    /\ CASE s.of = "code" -> IsCode(gdt[i])
         [] s.of = "data" -> IsData(gdt[i])
         [] s.of = "tss"  -> i < 7 /\ IsTss(gdt[i], gdt[i + 1])
    /\ gdt_pc = "loaded" => 8 * (i + (IF s.of = "tss" THEN 2 ELSE 1)) - 1 <= limit

\* An interrupt reaches the handler that was set for its vector: the gate is present,
\* its code selector names a 64-bit code segment of the loaded GDT, the offset is the
\* address, and the double fault alone switches stacks, to the first entry of the
\* table in the TSS that tr names.  The stack segment it saves, and iretq loads
\* again, is a data segment of this GDT.
InterruptsReachHandlers ==
  /\ \A v \in DOMAIN idt :
       LET e == idt[v] IN
       /\ 15 \in e.options /\ Slice(e.options, 8, 4) = BitsOf(14)
       /\ \E i \in Indexes(e.gdt_selector) : IsCode(gdt[i]) /\ 8 * i + 7 <= limit
       /\ e.pointer_low \cup ShiftLeft(e.pointer_middle, 16)
          \cup ShiftLeft(e.pointer_high, 32) = Handler[v]
       /\ Slice(e.options, 0, 3) = IF v = 8 THEN BitsOf(1) ELSE {}
  /\ DOMAIN idt # {} => \E d \in Indexes(ss), t \in Indexes(tr) :
       IsData(gdt[d]) /\ 8 * d + 7 <= limit /\ IsTss(gdt[t], gdt[t + 1])
============================================================================
