------------------------------- MODULE Loader -------------------------------
(***************************************************************************)
(* The boot loader, src/loader/src/main.rs, from exit_boot_services to the *)
(* first pages that the kernel maps itself.  Every iteration of a loop is  *)
(* one action; phase and i say which.  The bytes of physical memory are    *)
(* modelled as well: byte o of the kernel file is the number o + 1.        *)
(***************************************************************************)
EXTENDS Integers, Sequences, FiniteSets

CONSTANTS ENTRY_COUNT, PAGE_SIZE,
          VIRT_MAPPING_OFFSET,
          uefi_map,            \* sequence of [ty, addr, page_count]
          Elf,                 \* program headers of the kernel, some sequences of
                               \* [ty, offset, virt, file_size, mem_size]
          Framebuffer,         \* some records [addr, size]
          BootInfo,            \* some records [addr, entries, end], addresses
          MEMORY_MAP_PAGES,
          MAPPED_FRAMES,       \* the length of mapped_frames, 100
          kernel, kernel_pages, stack_addr, stack_depth, context_switch,
          HeapPage             \* the pages of init_heap, in order

\* convert_memory_type
ConvertMemoryType(t) ==
  CASE t \in {"MMIO_PORT_SPACE", "MMIO", "RESERVED", "UNUSABLE"} -> "Reserved"
    [] t \in {"PERSISTENT_MEMORY", "CONVENTIONAL", "LOADER_DATA", "LOADER_CODE",
              "BOOT_SERVICES_CODE", "BOOT_SERVICES_DATA"} -> "Free"
    [] t \in {"ACPI_NON_VOLATILE", "RUNTIME_SERVICES_CODE",
              "RUNTIME_SERVICES_DATA"} -> "Acpi1_3"
    [] t = "ACPI_RECLAIM" -> "AcpiReclaim"
    [] t = "PAL_CODE" -> "Acpi1_4"
    [] OTHER -> "panic"

\* init_allocator: the region at address 0 is never free
MMAP ==
  [k \in DOMAIN uefi_map |->
     [uefi_map[k] EXCEPT !.ty = IF uefi_map[k].addr = 0 THEN "Reserved"
                                ELSE ConvertMemoryType(uefi_map[k].ty)]]

INSTANCE PageTables WITH memory_map <- MMAP

VARIABLES elf, fb, boot_info,  \* what this boot finds
          m,                   \* page tables and frame allocator
          bytes,               \* the contents of physical memory
          given,               \* frames allocated for data, not for tables
          mapped_frames,       \* sequence of [page, frame]
          frame,               \* the copy of the last page of a segment
          phase, seg, i,
          heap                 \* frames of the kernel's heap

inputs == <<elf, fb, boot_info>>
vars == <<elf, fb, boot_info, m, bytes, given, mapped_frames, frame, phase, seg, i, heap>>

AlignDown(a) == a - (a % PAGE_SIZE)
Bytes(f) == f .. f + PAGE_SIZE - 1
l4 == usable_frames[1]

last_frame_addr ==
  LET r == uefi_map[Len(uefi_map)] IN r.addr + (r.page_count - 1) * PAGE_SIZE

Junk == -1
InTable == -2

\* the byte at a physical address; a frame that became a table is overwritten
ByteAt(a) == IF AlignDown(a) \in TablesOf(m, l4) THEN InTable ELSE bytes[a]

Init ==
  /\ elf \in Elf /\ fb \in Framebuffer /\ boot_info \in BootInfo
  /\ m = AllocatePageTable([tables |-> [f \in Memory |-> EmptyTable],
                            next |-> 0, panic |-> FALSE]).m
  /\ bytes = [a \in UNION {Bytes(f) : f \in Memory} |->
                IF a \in kernel .. kernel + kernel_pages * PAGE_SIZE - 1
                THEN a - kernel + 1 ELSE Junk]
  /\ given = {} /\ heap = {} /\ mapped_frames = <<>> /\ frame = 0
  /\ phase = IF \E k \in DOMAIN MMAP : MMAP[k].ty = "panic" THEN "panic" ELSE "memory"
  /\ seg = 1 /\ i = 0

\* r.expect(...): the loader goes on with phase then, or panics
Expect(r, then) == m' = r.m /\ phase' = IF r.res = "ok" THEN then ELSE "panic"

\* map_address(...).expect(...), in memory mem.  A frame that could not be
\* allocated is NotPresent, which is not aligned: the expect of allocate_frame
\* panics like the one of map_address.
Map(mem, virt, phys, then) == Expect(MapAddress(mem, l4, virt, phys), then)

\* the loop counter, and the phase, of a loop of n iterations
Iterate(n, here, then) == IF i + 1 < n THEN here ELSE then
Count(n) == i' = IF i + 1 < n THEN i + 1 ELSE 0

\* setup_mappings: all memory up to the last frame
MapMemory ==
  /\ phase = "memory"
  /\ LET n == last_frame_addr \div PAGE_SIZE
     IN  /\ Map(m, i * PAGE_SIZE + VIRT_MAPPING_OFFSET, i * PAGE_SIZE,
                Iterate(n, "memory", "segment"))
         /\ Count(n)
  /\ UNCHANGED <<inputs, bytes, given, mapped_frames, frame, seg, heap>>

----------------------------------------------------------------------------
\* map_kernel
header == elf[seg]
phys_start_addr == kernel + header.offset
phys_end_addr == phys_start_addr + header.file_size
bss_size == header.mem_size - header.file_size
data_bytes_before_zero == (header.virt + header.file_size) % PAGE_SIZE

\* the bytes of .bss that lie in the last page of the file, if any do
bss_in_page ==
  IF data_bytes_before_zero = 0 THEN 0 ELSE PAGE_SIZE - data_bytes_before_zero

NextSegment ==
  /\ phase = "segment"
  /\ \/ /\ seg <= Len(elf) /\ header.ty = "Load"
        /\ phase' = "file" /\ UNCHANGED seg
     \/ /\ seg <= Len(elf) /\ header.ty = "Tls"
        /\ phase' = "panic" /\ UNCHANGED seg
     \/ /\ seg <= Len(elf) /\ header.ty \notin {"Load", "Tls"}
        /\ seg' = seg + 1 /\ UNCHANGED phase
     \/ /\ seg > Len(elf)
        /\ phase' = "framebuffer" /\ UNCHANGED seg
  /\ i' = 0
  /\ UNCHANGED <<inputs, m, bytes, given, mapped_frames, frame, heap>>

FilePages_Short ==
  IF header.file_size = 0 THEN 1 ELSE 1 + (header.file_size - 1) \div PAGE_SIZE

FilePages ==
  IF header.file_size = 0 THEN 1
  ELSE 1 + (header.file_size - 1 + header.virt - AlignDown(header.virt)) \div PAGE_SIZE

MapFilePage ==
  /\ phase = "file"
  /\ LET virt == AlignDown(header.virt) + i * PAGE_SIZE
         phys == AlignDown(phys_start_addr) + i * PAGE_SIZE
     IN  /\ Map(m, virt, phys, IF Len(mapped_frames) = MAPPED_FRAMES THEN "panic"
                               ELSE Iterate(FilePages, "file", "bss"))
         /\ mapped_frames' = IF Len(mapped_frames) = MAPPED_FRAMES THEN mapped_frames
                             ELSE Append(mapped_frames, [page |-> virt, frame |-> phys])
  /\ Count(FilePages)
  /\ UNCHANGED <<inputs, bytes, given, frame, seg, heap>>

\* the start of the part for .bss
StartBss ==
  /\ phase = "bss"
  /\ \/ /\ bss_size <= 0
        /\ phase' = "segment" /\ seg' = seg + 1
        /\ UNCHANGED <<m, given, frame>>
     \/ /\ bss_size > 0 /\ data_bytes_before_zero = 0
        /\ phase' = "zero"
        /\ UNCHANGED <<m, given, frame, seg>>
     \/ /\ bss_size > 0 /\ data_bytes_before_zero # 0
        /\ LET a == AllocateFrame(m)
           IN  /\ m' = a.m
               /\ frame' = a.frame
               /\ given' = given \cup ({a.frame} \ {NotPresent})
               /\ phase' = IF a.frame = NotPresent THEN "panic" ELSE "remap"
        /\ UNCHANGED seg
  /\ UNCHANGED <<inputs, bytes, mapped_frames, i, heap>>

\* every page that is mapped to the last page of the file is mapped to the copy
RemapPage ==
  /\ phase = "remap"
  /\ LET e == mapped_frames[i + 1]
     IN  \/ /\ e.frame = AlignDown(phys_end_addr)
            /\ Expect(RemapAddress(m, l4, e.page, frame),
                      Iterate(Len(mapped_frames), "remap", "copy"))
         \/ /\ e.frame # AlignDown(phys_end_addr)
            /\ phase' = Iterate(Len(mapped_frames), "remap", "copy")
            /\ UNCHANGED m
  /\ Count(Len(mapped_frames))
  /\ UNCHANGED <<inputs, bytes, given, mapped_frames, frame, seg, heap>>

\* the copy and the zeros behind it
CopyPage ==
  /\ phase = "copy"
  /\ bytes' = [a \in DOMAIN bytes |->
                 IF AlignDown(a) # frame THEN bytes[a]
                 ELSE IF a - frame >= data_bytes_before_zero THEN 0
                 ELSE ByteAt(AlignDown(phys_end_addr) + a - frame)]
  /\ phase' = "zero"
  /\ UNCHANGED <<inputs, m, given, mapped_frames, frame, seg, i, heap>>

ZeroPages == IF bss_size > bss_in_page THEN 1 + (bss_size - bss_in_page) \div PAGE_SIZE ELSE 0

MapZeroPage ==
  /\ phase = "zero"
  /\ \/ /\ i >= ZeroPages
        /\ phase' = "segment" /\ seg' = seg + 1
        /\ UNCHANGED <<m, bytes, given, i>>
     \/ /\ i < ZeroPages
        /\ LET a == AllocateFrame(m)
               virt == header.virt + header.file_size + bss_in_page + i * PAGE_SIZE
           IN  /\ Map(a.m, virt, a.frame, "zero")
               /\ given' = given \cup ({a.frame} \ {NotPresent})
               /\ bytes' = [x \in DOMAIN bytes |->
                              IF AlignDown(x) = a.frame THEN 0 ELSE bytes[x]]
        /\ i' = i + 1
        /\ UNCHANGED seg
  /\ UNCHANGED <<inputs, mapped_frames, frame, heap>>

----------------------------------------------------------------------------
MapFramebuffer ==
  /\ phase = "framebuffer"
  /\ LET n == fb.size \div PAGE_SIZE
         ptr == fb.addr + i * PAGE_SIZE
     IN  \/ /\ n = 0
            /\ phase' = "context_switch" /\ UNCHANGED <<m, i>>
         \/ /\ n > 0
            /\ Map(m, ptr + VIRT_MAPPING_OFFSET, ptr,
                   Iterate(n, "framebuffer", "context_switch"))
            /\ Count(n)
  /\ UNCHANGED <<inputs, bytes, given, mapped_frames, frame, seg, heap>>

\* the end of setup_mappings
MapContextSwitch ==
  /\ phase = "context_switch"
  /\ Map(m, AlignDown(context_switch), AlignDown(context_switch), "stack")
  /\ UNCHANGED <<inputs, bytes, given, mapped_frames, frame, seg, i, heap>>

\* create_stack, and the stack pointer it returns
CreateStack ==
  /\ phase = "stack"
  /\ LET ptr == stack_addr + i * PAGE_SIZE
     IN  Map(m, ptr, ptr, Iterate(stack_depth, "stack", "boot_info"))
  /\ Count(stack_depth)
  /\ UNCHANGED <<inputs, bytes, given, mapped_frames, frame, seg, heap>>

rsp == stack_addr + (stack_depth - 1) * PAGE_SIZE

MapBootInfo_OnePageShort ==
  /\ phase = "boot_info"
  /\ LET ptr == IF i = 0 THEN AlignDown(boot_info.addr)
                ELSE AlignDown(boot_info.entries) + (i - 1) * PAGE_SIZE
     IN  Map(m, ptr, ptr, Iterate(1 + MEMORY_MAP_PAGES, "boot_info", "hand_over"))
  /\ Count(1 + MEMORY_MAP_PAGES)
  /\ UNCHANGED <<inputs, bytes, given, mapped_frames, frame, seg, heap>>

\* map_bootinfo: the page of the record, and those of its memory map
MapBootInfo ==
  /\ phase = "boot_info"
  /\ LET ptr == IF i = 0 THEN AlignDown(boot_info.addr)
                ELSE AlignDown(boot_info.entries) + (i - 1) * PAGE_SIZE
     IN  Map(m, ptr, ptr, Iterate(2 + MEMORY_MAP_PAGES, "boot_info", "hand_over"))
  /\ Count(2 + MEMORY_MAP_PAGES)
  /\ UNCHANGED <<inputs, bytes, given, mapped_frames, frame, seg, heap>>

HandOver_Stale ==
  /\ phase = "hand_over"
  /\ m' = [m EXCEPT !.next = @ - 1]
  /\ phase' = "kernel"
  /\ UNCHANGED <<inputs, bytes, given, mapped_frames, frame, seg, i, heap>>

\* memory_map_next_free_frame, context_switch and the kernel's FrameAllocator::new:
\* the kernel goes on where the loader's allocator stands
HandOver ==
  /\ phase = "hand_over"
  /\ phase' = "kernel"
  /\ UNCHANGED <<inputs, m, bytes, given, mapped_frames, frame, seg, i, heap>>

\* one iteration of the kernel's init_heap
InitHeap ==
  /\ phase = "kernel" /\ i < Len(HeapPage)
  /\ LET a == AllocateFrame(m)
     IN  /\ Map(a.m, HeapPage[i + 1], a.frame, "kernel")
         /\ heap' = heap \cup ({a.frame} \ {NotPresent})
  /\ i' = i + 1
  /\ UNCHANGED <<inputs, bytes, given, mapped_frames, frame, seg>>

Next ==
  \/ MapMemory
  \/ NextSegment \/ MapFilePage \/ StartBss \/ RemapPage \/ CopyPage \/ MapZeroPage
  \/ MapFramebuffer \/ MapContextSwitch \/ CreateStack \/ MapBootInfo
  \/ HandOver \/ InitHeap

Spec == Init /\ [][Next]_vars

----------------------------------------------------------------------------
Physical(virt) ==
  LET f == GetPhysicalAddress(m, l4, AlignDown(virt))
  IN  IF f = NotPresent THEN NotPresent ELSE f + (virt % PAGE_SIZE)

Loads == {elf[k] : k \in {j \in DOMAIN elf : elf[j].ty = "Load"}}

\* When the kernel starts, every segment holds its bytes of the kernel file and
\* zeros behind them, although segments may share a page of the file and the
\* page that ends one is replaced by a copy (map_kernel).
ImageLoaded ==
  phase = "kernel" =>
    \A s \in Loads : \A k \in 0 .. s.mem_size - 1 :
      LET a == Physical(s.virt + k)
      IN  a # NotPresent /\ ByteAt(a) = IF k < s.file_size THEN s.offset + k + 1 ELSE 0

\* What the kernel uses before it maps anything itself is mapped where it
\* expects it: the page of context_switch, which runs on when it has loaded cr3,
\* the stack below rsp, every byte of the BootInfo, and through
\* VIRT_MAPPING_OFFSET every page table, those it will create included.
KernelCanRun ==
  phase = "kernel" =>
    /\ Physical(context_switch) = context_switch
    /\ \A a \in stack_addr .. rsp - 1 : Physical(a) = a
    /\ \A a \in boot_info.addr .. boot_info.end : Physical(a) = a
    /\ \A f \in TablesOf(m, l4) : Physical(f + VIRT_MAPPING_OFFSET) = f

\* No frame of the kernel's heap is in use for something else: a page table, a
\* copied or zeroed page of the image, or another page of the heap.
HeapFramesFresh ==
  phase = "kernel" =>
    /\ heap \cap (given \cup TablesOf(m, l4)) = {}
    /\ Cardinality(heap) = i

\* Frames the loader or the firmware filled for the kernel: the image, the
\* stack and the BootInfo.
LoaderMemory ==
  {AlignDown(a) : a \in kernel .. kernel + kernel_pages * PAGE_SIZE - 1} \cup
  {AlignDown(a) : a \in stack_addr .. rsp} \cup
  {AlignDown(a) : a \in boot_info.addr .. boot_info.end}

\* A frame the allocator hands out as usable holds nothing that is still needed
\* (usable_frames: "get usable regions from memory map").
UsableFramesAreFree ==
  {usable_frames[k] : k \in 1 .. m.next} \cap LoaderMemory = {}
============================================================================
