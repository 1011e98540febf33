SPECIFICATION PagingSpec
CONSTANTS
  Border = {0, 7, 8, 11, 16, 31, 40, 64, 68, 72, 79, 80}
  Memory <- MCMemory
  PAGE_SIZE = 8
  BIOS_SIZE = 8
  BOOTMEM_SIZE = 72
  NODE_SIZE = 1
  Kernel <- MCKernel
  ModsArray <- MCModsArray
  Modules <- MCModules
  FirmwareMaps <- MCFirmwareMaps
  PTE_COUNT = 2
  BIG_PAGE_SIZE = 32
  KERNEL_SIZE = 32
CHECK_DEADLOCK FALSE
INVARIANTS
  MapIsWhatIsLeft
  FreeMemoryFreed
  WindowsMapped
  TablesApart
