\* Pages of two bytes: one page of bitmap describes sixteen pages.
SPECIFICATION MemoryFairSpec
CONSTANTS
  t1 = t1
  t2 = t2
  Threads <- MCThreads
  Top = 8
  Usable <- MCUsable
  MaxRequest = 3
  PAGE_SIZE = 2
  MemoryMaps <- MCMemoryMaps
  Lengths = {1, 2, 3, 7, 9, 16}
  MaxEntries = 3
INVARIANTS
  FreeIsUsable
  BitmapExact
  FailsOnlyWithoutRun
PROPERTIES
  LockReleased
  ImplementsPageAllocator
CHECK_DEADLOCK FALSE
