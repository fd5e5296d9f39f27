------------------------------ MODULE MCMemory ------------------------------
(***************************************************************************)
(* Physical memory: the boot loader with its sequence of mappings, and     *)
(* the page tables under any mappings that a loader and a kernel make.     *)
(* The two are explored one at a time: while one works, the other rests in *)
(* an initial state.                                                       *)
(*                                                                         *)
(* Page tables: two entries per table, 16 pages.  The loader may map a     *)
(* page of the heap, one far from it and one that is not aligned; the heap *)
(* crosses into a subtree of its own; memory runs out in some behaviours.  *)
(*                                                                         *)
(* Loader: pages of four bytes and tables of four entries.  The kernels    *)
(* have segments that share a page of the file, end inside a page or at    *)
(* its end, have no bytes in the file, more pages than mapped_frames       *)
(* holds, or more than there is memory.                                    *)
(***************************************************************************)
EXTENDS Memory

CONSTANTS Parts,           \* which of "tables" and "loader" to explore
          uefi_map, Elf    \* of the loader
VARIABLES part,
          elf, fb, boot_info, loader_m, bytes, given, mapped_frames, frame, phase, seg, i, loader_heap

MCRegion(ty, first, count) == [ty |-> ty, addr |-> first * 4, page_count |-> count]

MCMap == <<MCRegion("Reserved", 0, 1), MCRegion("Free", 1, 4), MCRegion("AcpiReclaim", 5, 1),
           MCRegion("Free", 6, 6)>>
MCLoaderPage == {20, 21, 24, 40}
MCLoaderFrame == {20, 22, 44}
MCHeapPage == <<24, 28, 32>>
MCDevicePage == <<36>>
MCDeviceFrame == 48

MCUefiMap == <<MCRegion("CONVENTIONAL", 0, 1), MCRegion("CONVENTIONAL", 1, 40),
               MCRegion("ACPI_RECLAIM", 41, 1), MCRegion("LOADER_DATA", 42, 6),
               MCRegion("LOADER_CODE", 48, 1), MCRegion("BOOT_SERVICES_DATA", 49, 4),
               MCRegion("RESERVED", 53, 1)>>
\* the image, the stack and the boot info lie between two regions of free memory
MCLowMap == <<MCRegion("RESERVED", 0, 38), MCRegion("CONVENTIONAL", 38, 4),
              MCRegion("LOADER_DATA", 42, 6), MCRegion("LOADER_CODE", 48, 1),
              MCRegion("BOOT_SERVICES_DATA", 49, 4), MCRegion("CONVENTIONAL", 53, 11)>>

MCLoad(offset, virt, file_size, mem_size) ==
  [ty |-> "Load", offset |-> offset, virt |-> virt,
   file_size |-> file_size, mem_size |-> mem_size]
MCOther(ty) == [MCLoad(0, 0, 0, 0) EXCEPT !.ty = ty]
MCText == MCLoad(0, 512, 6, 6)
MCElf ==
  {<<MCText, MCLoad(6, 522, 1, 4)>>,                       \* a page of the file is shared
   <<MCText, MCLoad(6, 522, 3, 9)>>,                       \* .bss goes on in a second page
   <<MCText, MCOther("GnuStack"), MCLoad(6, 522, 0, 7)>>,  \* no bytes in the file
   <<MCLoad(0, 512, 8, 12), MCLoad(8, 528, 3, 3)>>,        \* ends at a page
   <<MCLoad(0, 512, 8, 12), MCLoad(8, 524, 3, 3)>>,        \* and has a neighbour
   <<MCText, MCLoad(6, 522, 1, 110)>>,                     \* more than there is memory
   <<MCText, MCLoad(8, 520, 0, 4)>>,
   <<MCText, MCOther("Tls")>>,
   <<MCLoad(0, 512, 16, 16), MCLoad(12, 528, 3, 3)>>}      \* more than mapped_frames holds
MCGoodElf == {<<MCText, MCLoad(6, 522, 3, 9)>>}
MCFramebuffer == {[addr |-> 224, size |-> 8], [addr |-> 224, size |-> 2]}
MCBootInfo == {[addr |-> 196, entries |-> 197, end |-> 203],
               [addr |-> 199, entries |-> 200, end |-> 206],
               [addr |-> 199, entries |-> 199, end |-> 206]}

Loading == INSTANCE Loader WITH
  ENTRY_COUNT <- 4, PAGE_SIZE <- 4, VIRT_MAPPING_OFFSET <- 256, MEMORY_MAP_PAGES <- 2,
  MAPPED_FRAMES <- 4, kernel <- 168, kernel_pages <- 4, stack_addr <- 184, stack_depth <- 2,
  context_switch <- 193, HeapPage <- <<768, 772>>,
  Framebuffer <- MCFramebuffer, BootInfo <- MCBootInfo, m <- loader_m, heap <- loader_heap

----------------------------------------------------------------------------
loaderVars == <<elf, fb, boot_info, loader_m, bytes, given, mapped_frames, frame,
                phase, seg, i, loader_heap>>
vars == <<part, memoryVars, loaderVars>>

Init ==
  /\ part \in Parts
  /\ MemoryInit
  /\ Loading!Init
  /\ part # "loader" => <<elf, fb, boot_info>> =
       <<CHOOSE x \in Elf : TRUE, CHOOSE x \in MCFramebuffer : TRUE, CHOOSE x \in MCBootInfo : TRUE>>

Next ==
  \/ part = "tables" /\ MemoryNext /\ UNCHANGED <<part, loaderVars>>
  \/ part = "loader" /\ Loading!Next /\ UNCHANGED <<part, memoryVars>>

Spec == Init /\ [][Next]_vars

----------------------------------------------------------------------------
\* When the kernel starts, every segment holds its bytes of the kernel file and
\* zeros behind them, although segments share pages (map_kernel).
ImageLoaded == Loading!ImageLoaded

\* The page of context_switch, the stack, the BootInfo and every page table are
\* mapped where they are expected when context_switch loads cr3.
KernelCanRun == Loading!KernelCanRun

\* No frame of the kernel's heap (init_heap) was given out by the loader.
HeapFramesFresh == Loading!HeapFramesFresh

\* "get usable regions from memory map" (usable_frames): a frame that is handed
\* out holds nothing that is still needed.
UsableFramesAreFree == Loading!UsableFramesAreFree
=============================================================================
