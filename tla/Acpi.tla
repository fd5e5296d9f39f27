-------------------------------- MODULE Acpi --------------------------------
(***************************************************************************)
(* read_xsdt, src/src/xsdt.rs: the RSDP, the XSDT and the MADT are         *)
(* checked, and the local APIC and the I/O APIC are mapped.  The bytes of  *)
(* a table are given by the sums of its parts.  Physical addresses are in  *)
(* pages; a u32 of an I/O APIC record is its two halves [hi, lo].          *)
(* Additions wrap, as in the release build that the scripts run.           *)
(***************************************************************************)
EXTENDS Integers, Sequences, SequencesExt

CONSTANTS Tables,     \* what firmware may provide, see MCPlatform
          APIC_PAGES  \* 0x10_0000 / 4096, the pages mapped for the local APIC

VARIABLES tables, acpi_pc, outcome,
          sdt,            \* index of the current SDT
          record, offset, \* the walk over the records of the MADT
          result,         \* of handle_madt: <<>> is Err, <<[local, io]>> is Ok
          apic_addrs,     \* of read_xsdt, io as it is in the result
          page,           \* of the loop that maps the local APIC
          mapped          \* pages mapped at VIRT_MAPPING_OFFSET

walk == <<sdt, record, offset, result, apic_addrs>>
acpiVars == <<tables, acpi_pc, outcome, walk, page, mapped>>

Madt == tables.sdts[sdt]

wrapping_sum(parts) == FoldLeft(LAMBDA a, b : (a + b) % 256, 0, parts)

AcpiInit ==
  /\ tables \in Tables
  /\ acpi_pc = "rsdp" /\ outcome = "none" /\ sdt = 1 /\ record = 1 /\ offset = 8
  /\ result = <<>> /\ apic_addrs = [local |-> 0, io |-> [hi |-> 0, lo |-> 0]]
  /\ page = 0 /\ mapped = tables.mapped

Panic == acpi_pc' = "end" /\ outcome' = "panic"
Goto(l) == acpi_pc' = l /\ UNCHANGED outcome

\* get_xsdt_address: the two checksums of the RSDP
CheckRsdp ==
  /\ acpi_pc = "rsdp"
  /\ IF tables.revision # 2 \/ wrapping_sum(tables.v1) # 0 \/ wrapping_sum(tables.v2) # 0
     THEN Panic ELSE Goto("xsdt")
  /\ UNCHANGED <<tables, walk, page, mapped>>

CheckXsdt ==
  /\ acpi_pc = "xsdt"
  /\ IF wrapping_sum(tables.xsdt \o [i \in DOMAIN tables.sdts |-> tables.sdts[i].pointer]) # 0
     THEN Panic ELSE Goto("sdt")
  /\ UNCHANGED <<tables, walk, page, mapped>>

\* the loop over the SDTs; at its end an APIC must have been found
NextSdt ==
  /\ acpi_pc = "sdt"
  /\ IF sdt > Len(tables.sdts)
     THEN /\ IF apic_addrs.local = 0 THEN Panic ELSE Goto("map")
          /\ UNCHANGED sdt
     ELSE IF Madt.signature = "APIC" THEN Goto("madt") /\ UNCHANGED sdt
     ELSE Goto("sdt") /\ sdt' = sdt + 1
  /\ UNCHANGED <<tables, record, offset, result, apic_addrs, page, mapped>>

\* the checksum of the MADT; handle_madt().unwrap()
CheckMadt ==
  /\ acpi_pc = "madt"
  /\ IF wrapping_sum(Madt.bytes) # 0 THEN Panic ELSE Goto("records")
  /\ record' = 1 /\ offset' = 8 /\ result' = <<>>
  /\ UNCHANGED <<tables, sdt, apic_addrs, page, mapped>>

\* MadtEntryIOApic is not packed, so that its io_apic_addr is read two bytes
\* further: the high half of the address, and the low half of the interrupt base
io_apic_addr(r) == [hi |-> r.base.lo, lo |-> r.addr.hi]

\* one turn of the walk; a record of length 0 is read again and again
Record ==
  LET r == Madt.records[record] IN
  /\ acpi_pc = "records" /\ offset < Madt.length
  /\ result' = IF r.type = 1 THEN <<[local |-> Madt.local, io |-> io_apic_addr(r)]>> ELSE result
  /\ offset' = offset + r.length
  /\ record' = IF r.length = 0 THEN record ELSE record + 1
  /\ UNCHANGED <<tables, acpi_pc, outcome, sdt, apic_addrs, page, mapped>>

\* the end of handle_madt, and its unwrap
MadtEnd ==
  /\ acpi_pc = "records" /\ offset >= Madt.length
  /\ IF result = <<>> THEN Panic /\ UNCHANGED apic_addrs
                      ELSE Goto("sdt") /\ apic_addrs' = result[1]
  /\ sdt' = sdt + 1
  /\ UNCHANGED <<tables, record, offset, result, page, mapped>>

\* map_address_with_offset().expect(): a page may be mapped to its own frame already;
\* there may be no frame for a page table
Map(p, next) ==
  \E ok \in BOOLEAN :
    IF ok THEN Goto(next) /\ mapped' = mapped \cup {p} ELSE Panic /\ UNCHANGED mapped

\* the loop over the pages of the local APIC
MapLocal ==
  /\ acpi_pc = "map"
  /\ Map(apic_addrs.local + page, IF page + 1 < APIC_PAGES THEN "map" ELSE "map_io")
  /\ page' = page + 1
  /\ UNCHANGED <<tables, walk>>

io_apic_phys_NoShift == apic_addrs.io.lo \div 4096 + apic_addrs.io.hi * 16

\* "hack": io_apic_addr << 16, in 64 bits, in pages
io_apic_phys == apic_addrs.io.lo * 16 + apic_addrs.io.hi * 2^20

MapIo ==
  /\ acpi_pc = "map_io"
  /\ \E ok \in BOOLEAN :
       IF ok THEN /\ acpi_pc' = "end" /\ outcome' = "ok"
                  /\ mapped' = mapped \cup {io_apic_phys}
             ELSE Panic /\ UNCHANGED mapped
  /\ UNCHANGED <<tables, walk, page>>

AcpiNext ==
  \/ CheckRsdp \/ CheckXsdt \/ NextSdt \/ CheckMadt \/ Record \/ MadtEnd
  \/ MapLocal \/ MapIo

AcpiSpec == AcpiInit /\ [][AcpiNext]_acpiVars

----------------------------------------------------------------------------
\* The records of the last table with the signature APIC, among the SDTs.
IsMadt(t) == t.signature = "APIC"
IoApics(t) == {t.records[i] : i \in {k \in 1 .. Len(t.records) : t.records[k].type = 1}}

\* read_xsdt returns the address of the local APIC, and of the I/O APIC in spite of
\* the misread field, with the whole megabyte of the one and the page of
\* the other mapped; the tables have one I/O APIC, at a multiple of 64 kB, with
\* the interrupt base 0.  The table sums up to 0.
ApicsMapped ==
  outcome = "ok" =>
    \E i \in 1 .. Len(tables.sdts) :
      LET t == tables.sdts[i] IN
      /\ IsMadt(t) /\ wrapping_sum(t.bytes) = 0
      /\ apic_addrs.local = t.local
      /\ \E r \in IoApics(t) : io_apic_phys = r.addr.hi * 16 + r.addr.lo \div 4096
      /\ t.local .. t.local + APIC_PAGES - 1 \cup {io_apic_phys} \subseteq mapped
============================================================================
