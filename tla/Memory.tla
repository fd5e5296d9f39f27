------------------------------- MODULE Memory -------------------------------
(***************************************************************************)
(* The page tables in use: first the loader maps and remaps pages of a     *)
(* table that is not loaded yet, then context_switch loads it, and the     *)
(* kernel maps its heap (src/src/allocator.rs) and the APIC registers      *)
(* (src/src/xsdt.rs) while the CPU caches the translations it uses.        *)
(***************************************************************************)
EXTENDS PageTables

CONSTANTS LoaderPage, LoaderFrame,            \* what the loader maps, and to what
          HeapPage, DevicePage,               \* sequences of virtual addresses
          DeviceFrame                         \* the registers, not memory

VARIABLES m,        \* the memory
          cr3,      \* the level 4 table, once it is loaded
          tlb,      \* what the CPU has cached for each page
          next_heap, next_device,   \* pages mapped so far
          heap,     \* (observed) the frames given to the heap
          result    \* of the last mapping

memoryVars == <<m, cr3, tlb, next_heap, next_device, heap, result>>

Page == {i * PAGE_SIZE : i \in 0 .. ENTRY_COUNT * EntryPages[4] - 1}
Frame == Memory \cup {DeviceFrame}

\* Every virtual address is one that the four levels translate, and what the
\* loader maps, when it is aligned, is a frame.
ASSUME MemoryAssumption ==
  LET Address == 0 .. PAGE_SIZE * (ENTRY_COUNT * EntryPages[4]) - 1
  IN  /\ LoaderPage \subseteq Address
      /\ HeapPage \in Seq(Address)
      /\ DevicePage \in Seq(Address)
      /\ LoaderFrame \subseteq Nat
      /\ \A f \in LoaderFrame : f % PAGE_SIZE = 0 => f \in Frame
      /\ DeviceFrame \in Nat

\* what the frames hold before anybody clears them
Garbage == [f \in Memory |-> [i \in 0 .. ENTRY_COUNT - 1 |-> f]]

l4 == usable_frames[1]

\* efi_main: init_allocator, and the first page table
MemoryInit ==
  /\ m = AllocatePageTable([tables |-> Garbage, next |-> 0, panic |-> FALSE]).m
  /\ cr3 = NotPresent
  /\ tlb = [p \in Page |-> NotPresent]
  /\ next_heap = 0
  /\ next_device = 0
  /\ heap = {}
  /\ result = "ok"

Running == result = "ok"   \* every caller expects Ok

\* the effect of a mapping: invlpg is given phys, so the page that is dropped
\* from the TLB is the one whose virtual address is phys
Mapped(r, phys) ==
  /\ m' = r.m
  /\ result' = r.res
  /\ tlb' = IF r.set /\ phys \in Page THEN [tlb EXCEPT ![phys] = NotPresent] ELSE tlb

\* map_address and remap_address, as the loader calls them
LoaderMap ==
  /\ Running /\ cr3 = NotPresent
  /\ \E v \in LoaderPage, p \in LoaderFrame :
       \/ Mapped(MapAddress(m, l4, v, p), p)
       \/ Mapped(RemapAddress(m, l4, v, p), p)
  /\ UNCHANGED <<cr3, next_heap, next_device, heap>>

\* context_switch: a write to cr3 empties the TLB
ContextSwitch ==
  /\ Running /\ cr3 = NotPresent
  /\ cr3' = l4
  /\ tlb' = [p \in Page |-> NotPresent]
  /\ UNCHANGED <<m, next_heap, next_device, heap, result>>

\* the CPU uses a page that is mapped
Access(v) ==
  /\ cr3 # NotPresent
  /\ tlb[v] = NotPresent
  /\ GetPhysicalAddress(m, cr3, v) # NotPresent
  /\ tlb' = [tlb EXCEPT ![v] = GetPhysicalAddress(m, cr3, v)]
  /\ UNCHANGED <<m, cr3, next_heap, next_device, heap, result>>

MapHeapPage_Remaps ==
  /\ Running /\ cr3 # NotPresent
  /\ next_heap < Len(HeapPage)
  /\ LET a == AllocateFrame(m)
     IN  /\ a.frame # NotPresent
         /\ Mapped(RemapAddress(a.m, cr3, HeapPage[next_heap + 1], a.frame), a.frame)
         /\ heap' = heap \cup {a.frame}
  /\ next_heap' = next_heap + 1
  /\ UNCHANGED <<cr3, next_device>>

\* one iteration of init_heap
MapHeapPage ==
  /\ Running /\ cr3 # NotPresent
  /\ next_heap < Len(HeapPage)
  /\ LET a == AllocateFrame(m)
     IN  \/ /\ a.frame # NotPresent
            /\ Mapped(MapAddress(a.m, cr3, HeapPage[next_heap + 1], a.frame), a.frame)
            /\ heap' = heap \cup {a.frame}
         \/ /\ a.frame = NotPresent
            /\ m' = a.m
            /\ result' = "panic"
            /\ UNCHANGED <<tlb, heap>>
  /\ next_heap' = next_heap + 1
  /\ UNCHANGED <<cr3, next_device>>

\* one iteration of the loop of read_xsdt, which comes after init_heap
MapDevicePage ==
  /\ Running /\ cr3 # NotPresent
  /\ next_heap = Len(HeapPage)
  /\ next_device < Len(DevicePage)
  /\ Mapped(MapAddress(m, cr3, DevicePage[next_device + 1], DeviceFrame), DeviceFrame)
  /\ next_device' = next_device + 1
  /\ UNCHANGED <<cr3, next_heap, heap>>

MemoryNext ==
  \/ LoaderMap
  \/ ContextSwitch
  \/ \E v \in Page : Access(v)
  \/ MapHeapPage
  \/ MapDevicePage

MemorySpec == MemoryInit /\ [][MemoryNext]_memoryVars

----------------------------------------------------------------------------
\* No frame has two uses: the frames of the heap, as many as there are pages
\* in it, are none of the page tables, and all of them come from Free regions.
FramesUsedOnce ==
  /\ TablesOf(m, l4) \cap heap = {}
  /\ TablesOf(m, l4) \cup heap \subseteq Range(usable_frames)
  /\ \A i, j \in 1 .. next_heap : result = "ok" /\ i # j =>
       GetPhysicalAddress(m, l4, HeapPage[i]) # GetPhysicalAddress(m, l4, HeapPage[j])

Space == INSTANCE AddressSpace WITH
    Unmapped <- NotPresent,
    frame_of <- [p \in Page |-> GetPhysicalAddress(m, l4, p)],
    loaded <- cr3 # NotPresent

\* The page tables implement a map from pages to frames: mapping one page
\* changes no other page, although it may create up to three tables, and once
\* the table is loaded no page that is mapped changes.
TablesAreAddressSpace == Space!SpaceSpec

\* The TLB never holds a translation that the tables do not: invlpg is given
\* the physical address, but the kernel only maps pages that were not mapped,
\* and those are not cached.
TlbCoherent ==
  \A v \in Page : tlb[v] # NotPresent => tlb[v] = GetPhysicalAddress(m, cr3, v)

\* A mapping that is refused changes nothing: the checks that can refuse come
\* before any table is created, or find all tables there.
RefusedMapChangesNothing ==
  [][result' = "err" => m'.tables = m.tables]_memoryVars
============================================================================
