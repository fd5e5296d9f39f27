CONSTANTS
  Parts = {"tables", "loader"}
  ENTRY_COUNT = 2
  PAGE_SIZE = 4
  memory_map <- MCMap
  LoaderPage <- MCLoaderPage
  LoaderFrame <- MCLoaderFrame
  HeapPage <- MCHeapPage
  DevicePage <- MCDevicePage
  DeviceFrame <- MCDeviceFrame
  uefi_map <- MCUefiMap
  Elf <- MCElf
SPECIFICATION Spec
INVARIANTS
  FramesUsedOnce
  TlbCoherent
  ImageLoaded
  KernelCanRun
  HeapFramesFresh
PROPERTIES
  TablesAreAddressSpace
  RefusedMapChangesNothing
\* the kernel may have nothing left to map; the loader ends with the kernel
\* running; either may have panicked
CHECK_DEADLOCK FALSE
