----------------------------- MODULE MCPlatform -----------------------------
(***************************************************************************)
(* What preinit sets up around the processor: the GDT and the IDT, the     *)
(* APICs that the ACPI tables name, and the APIC timer, measured by the    *)
(* real-time clock.  Each is done before the next one begins, so they are  *)
(* explored one at a time: while one works, the others rest in an initial  *)
(* state.                                                                  *)
(*                                                                         *)
(* Descriptors: the kernel is linked at 0x200000, and so is its TSS, near  *)
(* it; handlers are there too, or use every part of the offset.  idt[8]    *)
(* and idt[15] panic.                                                      *)
(*                                                                         *)
(* ACPI: tables like those of QEMU: a FADT and a MADT, in either order,    *)
(* with records of several types and lengths, one of them 0, good or with  *)
(* one sum wrong.                                                          *)
(*                                                                         *)
(* Clock: the turn of a century, when all seven registers change at once,  *)
(* and a day around noon.                                                  *)
(*                                                                         *)
(* APIC: a second of 16 ticks, delays of up to 2, and 2 interrupts per     *)
(* second.  The entry of an I/O APIC after reset is masked; firmware may   *)
(* have used other trigger modes.                                          *)
(***************************************************************************)
EXTENDS Descriptors, Acpi, Rtc, Apic, TLC

CONSTANT Parts       \* which of "descriptors", "acpi", "rtc" and "apic" to explore
VARIABLE part

LowTss == {{21, 12, 4}, {23, 22, 3, 2}}
Handlers == (3 :> {21, 8, 0}) @@ (8 :> {46, 33, 32, 31, 16, 15, 4}) @@ (33 :> {22, 17, 5}) @@ (15 :> {21})

Half(hi, lo) == [hi |-> hi, lo |-> lo]
IoApic == [type |-> 1, length |-> 12, addr |-> Half(65216, 0), base |-> Half(0, 0)]
Lapic == [IoApic EXCEPT !.type = 0, !.length = 8]
Override == [IoApic EXCEPT !.type = 2, !.length = 10, !.addr = Half(5, 9)]
Nmi == [IoApic EXCEPT !.type = 4, !.length = 6]
LengthOf(records) == 8 + FoldLeft(LAMBDA n, r : n + r.length, 0, records)
Sdt(signature, sums, local, records) ==
  [signature |-> signature, pointer |-> 100, bytes |-> sums, local |-> local,
   records |-> records, length |-> LengthOf(records)]
Facp == Sdt("FACP", <<1>>, 7, <<>>)
Records == {<<Lapic, IoApic, Override, Override, Nmi>>, <<[IoApic EXCEPT !.addr = Half(65217, 0)]>>,
            <<Lapic, Nmi, IoApic>>, <<Lapic>>, <<Lapic, [Nmi EXCEPT !.length = 0], IoApic>>}
Madts == {Sdt("APIC", sums, local, r) : sums \in {<<200, 56>>, <<200, 57>>}, local \in {0, 1044224}, r \in Records}
Machine(revision, v1, v2, xsdt, sdts) ==
  [revision |-> revision, v1 |-> v1, v2 |-> v2, xsdt |-> xsdt, sdts |-> sdts, mapped |-> {0, 1}]
Good1 == <<200, 3, 50, 2, 1>>
Good2 == <<128, 127, 1, 0>>
MCTables ==
  {Machine(2, Good1, Good2, <<56>>, s) : s \in UNION {{<<Facp, m>>, <<m, Facp>>} : m \in Madts}} \cup
  {Machine(2, v[1], v[2], x, <<Facp, m>>) :
     v \in {<<Good1, Good2>>, <<Good2, Good2>>, <<Good1, <<255>>>>, <<<<1>>, Good2>>},
     x \in {<<56>>, <<55>>}, m \in Madts} \cup
  {Machine(1, Good1, Good2, <<56>>, <<Facp>>), Machine(2, Good1, Good2, <<156>>, <<Facp>>)}

At(c, y, mo, d, h, mi, s) ==
  [r \in RegisterNames |->
     CASE r = "century" -> c [] r = "year" -> y [] r = "month" -> mo [] r = "day" -> d
       [] r = "hour" -> h [] r = "minute" -> mi [] r = "second" -> s]
MCClock == {<<At(19, 99, 12, 31, 23, 59, 58), At(19, 99, 12, 31, 23, 59, 59),
              At(20, 0, 1, 1, 0, 0, 0)>>,
            <<At(20, 24, 10, 9, 11, 59, 59), At(20, 24, 10, 9, 12, 0, 0)>>}
Hours24 == {[binary |-> b, hours24 |-> TRUE] : b \in BOOLEAN}
Hours12 == {[binary |-> b, hours24 |-> FALSE] : b \in BOOLEAN}

ResetEntries == {{16}, {16, 13, 15}, {11, 15}}
ApicId == {24}

----------------------------------------------------------------------------
vars == <<part, descriptorsVars, acpiVars, rtcVars, apicVars>>

Init ==
  /\ part \in Parts
  /\ DescriptorsInit /\ (part # "descriptors" => tss = CHOOSE a \in TssAddress : TRUE)
  /\ AcpiInit /\ (part # "acpi" => tables = CHOOSE t \in Tables : TRUE)
  /\ RtcInit /\ (part # "rtc" => clock = CHOOSE c \in Clock : TRUE)
  /\ part # "rtc" => register_b = CHOOSE b \in Mode : TRUE
  /\ ApicInit /\ (part # "apic" => phase = 0 /\ low_reg = CHOOSE r \in Redirect : TRUE)

Next ==
  \/ part = "descriptors" /\ DescriptorsNext /\ UNCHANGED <<part, acpiVars, rtcVars, apicVars>>
  \/ part = "acpi" /\ AcpiNext /\ UNCHANGED <<part, descriptorsVars, rtcVars, apicVars>>
  \/ part = "rtc" /\ RtcNext /\ UNCHANGED <<part, descriptorsVars, acpiVars, apicVars>>
  \/ part = "apic" /\ ApicNext /\ UNCHANGED <<part, descriptorsVars, acpiVars, rtcVars>>

\* initialize_apic runs with interrupts disabled, and the clock does not wait.
Spec == Init /\ [][Next]_vars /\ WF_apicVars(part = "apic" /\ ApicNext)
=============================================================================
