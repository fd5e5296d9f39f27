CONSTANTS
  Parts = {"loader"}
  ENTRY_COUNT = 2
  PAGE_SIZE = 4
  memory_map <- MCMap
  LoaderPage <- MCLoaderPage
  LoaderFrame <- MCLoaderFrame
  HeapPage <- MCHeapPage
  DevicePage <- MCDevicePage
  DeviceFrame <- MCDeviceFrame
  uefi_map <- MCLowMap
  Elf <- MCGoodElf
SPECIFICATION Spec
INVARIANT
  UsableFramesAreFree
\* the loader ends with the kernel running, or with a panic
CHECK_DEADLOCK FALSE
