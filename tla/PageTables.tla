----------------------------- MODULE PageTables -----------------------------
(***************************************************************************)
(* The operations of src/shared_lib/src/page_table.rs and                  *)
(* frame_allocator.rs on a physical memory.  An address is a number of     *)
(* bytes; a table has ENTRY_COUNT entries (512 in the code), so the four   *)
(* levels of tables translate ENTRY_COUNT^4 pages of PAGE_SIZE bytes.      *)
(*                                                                         *)
(* A memory is a record: tables (what each frame holds when it is read as  *)
(* a page table), next (of the FrameAllocator) and panic.                  *)
(***************************************************************************)
EXTENDS Integers, Sequences, Functions

CONSTANTS ENTRY_COUNT,
          PAGE_SIZE,
          memory_map    \* sequence of [ty, addr, page_count], as MemoryRegion

ASSUME PageTablesAssumption ==
  /\ ENTRY_COUNT \in Nat \ {0, 1}
  /\ PAGE_SIZE \in Nat \ {0}
  /\ \A i \in DOMAIN memory_map :
       /\ memory_map[i].ty \in {"Free", "Reserved", "AcpiReclaim"}
       /\ memory_map[i].addr \in Nat
       /\ memory_map[i].page_count \in Nat

NotPresent == -1   \* an entry without the PRESENT flag

Frames(region) ==
  [i \in 1 .. region.page_count |-> region.addr + PAGE_SIZE * (i - 1)]

Memory == UNION {Range(Frames(memory_map[i])) : i \in DOMAIN memory_map}

\* usable_frames: the frames of the Free regions, in the order of the memory map
usable_frames ==
  LET frames[i \in 0 .. Len(memory_map)] ==
        IF i = 0 THEN <<>>
        ELSE frames[i - 1] \o
               (IF memory_map[i].ty = "Free" THEN Frames(memory_map[i]) ELSE <<>>)
  IN  frames[Len(memory_map)]

\* The regions of a memory map do not overlap, and a loader has some memory.
ASSUME UsableFramesAssumption ==
  /\ usable_frames \in Seq(Memory)
  /\ usable_frames # <<>>
  /\ \A i, j \in DOMAIN usable_frames : usable_frames[i] = usable_frames[j] => i = j

AllocateFrame_KeepsNext(m) ==
  [frame |-> IF m.next < Len(usable_frames) THEN usable_frames[m.next + 1]
                                            ELSE NotPresent,
   m |-> m]

\* allocate_frame: the frame, and the memory after it; next moves on in any case
AllocateFrame(m) ==
  [frame |-> IF m.next < Len(usable_frames) THEN usable_frames[m.next + 1]
                                            ELSE NotPresent,
   m |-> [m EXCEPT !.next = @ + 1]]

EmptyTable == [i \in 0 .. ENTRY_COUNT - 1 |-> NotPresent]

\* the tables that the entries of the tables ts point to
TablesBelow(m, ts) ==
  {m.tables[t][i] : t \in ts, i \in 0 .. ENTRY_COUNT - 1} \ {NotPresent}

\* the tables reached from l4
TablesOf(m, l4) ==
  LET l3 == TablesBelow(m, {l4})
      l2 == TablesBelow(m, l3)
  IN  {l4} \cup l3 \cup l2 \cup TablesBelow(m, l2)

AllocatePageTable_Dirty(m) ==
  LET Clear(a) == [table |-> a.frame, m |-> [a.m EXCEPT !.panic = a.frame = NotPresent]]
  IN  Clear(AllocateFrame(m))

\* allocate_page_table: out of memory is a panic, and the table is cleared
AllocatePageTable(m) ==
  LET Clear(a) == [table |-> a.frame,
                   m |-> IF a.frame = NotPresent THEN [a.m EXCEPT !.panic = TRUE]
                         ELSE [a.m EXCEPT !.tables[a.frame] = EmptyTable]]
  IN  Clear(AllocateFrame(m))

\* the pages that one entry of a table of each level stands for
EntryPages ==
  <<1, ENTRY_COUNT, ENTRY_COUNT * ENTRY_COUNT, ENTRY_COUNT * ENTRY_COUNT * ENTRY_COUNT>>

\* p4_index .. p1_index
Index(virt, level) == (virt \div (PAGE_SIZE * EntryPages[level])) % ENTRY_COUNT

\* create_next_table for entry i of the table w.table
CreateNextTable(w, i) ==
  LET Link(new) == IF new.m.panic THEN new
                   ELSE [new EXCEPT !.m.tables[w.table][i] = new.table]
  IN  IF w.m.panic THEN w
      ELSE IF w.m.tables[w.table][i] # NotPresent
      THEN [w EXCEPT !.table = w.m.tables[w.table][i]]
      ELSE Link(AllocatePageTable(w.m))

\* the table that holds the last-level entry of virt
Walk(m, l4, virt) ==
  CreateNextTable(
    CreateNextTable(
      CreateNextTable([table |-> l4, m |-> m], Index(virt, 4)),
      Index(virt, 3)),
    Index(virt, 2))

Result(res, m, set) == [res |-> res, m |-> m, set |-> set]

MapAddressImpl_WalksFirst(m, l4, virt, phys, mode) ==
  LET SetEntry(w, i) ==
        IF w.m.panic THEN Result("panic", w.m, FALSE)
        ELSE IF virt % PAGE_SIZE # 0 \/ phys % PAGE_SIZE # 0
        THEN Result("err", w.m, FALSE)
        ELSE Result("ok", [w.m EXCEPT !.tables[w.table][i] = phys], TRUE)
  IN  SetEntry(Walk(m, l4, virt), Index(virt, 1))

\* map_address_impl: its result, the memory after it, and whether an entry was set
MapAddressImpl(m, l4, virt, phys, mode) ==
  LET SetEntry(w, i) ==
        IF w.m.panic THEN Result("panic", w.m, FALSE)
        ELSE IF w.m.tables[w.table][i] = phys THEN Result("ok", w.m, FALSE)
        ELSE IF w.m.tables[w.table][i] # NotPresent /\ mode = "CheckFrameIsFree"
        THEN Result("err", w.m, FALSE)
        ELSE Result("ok", [w.m EXCEPT !.tables[w.table][i] = phys], TRUE)
  IN  IF virt % PAGE_SIZE # 0 \/ phys % PAGE_SIZE # 0
      THEN Result("err", m, FALSE)
      ELSE SetEntry(Walk(m, l4, virt), Index(virt, 1))

MapAddress(m, l4, virt, phys) ==
  MapAddressImpl(m, l4, virt, phys, "CheckFrameIsFree")
RemapAddress(m, l4, virt, phys) ==
  MapAddressImpl(m, l4, virt, phys, "Remapping")

\* get_physical_address, and translate_addr for the start of a page
GetPhysicalAddress(m, l4, virt) ==
  LET Entry(table, level) ==
        IF table = NotPresent THEN NotPresent
                              ELSE m.tables[table][Index(virt, level)]
  IN  Entry(Entry(Entry(Entry(l4, 4), 3), 2), 1)
============================================================================
