\* Two processes are created while two others make the kernel map pages.
SPECIFICATION VMMSpec
CONSTANTS
  Spaces = {"v1", "v2"}
  Mappers = {"m1", "m2"}
  Lower = {0}
  First = 2
  Last = 3
  Leaf = {"a"}
INVARIANT KernelHalfShared
CHECK_DEADLOCK FALSE
