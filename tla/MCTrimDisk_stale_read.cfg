SPECIFICATION Spec
CONSTANTS
  a = a
  b = b
  x = x
  d1 = d1
  Puts = {a, b, x}
  Headers <- MCHeaders
  Header <- MCHeader
  Disks = {d1}
  Disk = d1
  Slots <- MCSlots
  SlotSize = 128
  IndexCap = 12
  SectorLen = 12
  Faults = {}
  ReadNames = {6}
  MaxCrashes = 0
  MaxTrims = 1
  Fids <- MCFids
  TrimFids = {2, 4, 5, 9}
  MaxNonce = 0
  Threshold = 1000
  MinFileCount = 0
CHECK_DEADLOCK FALSE
INVARIANTS LookedUpReadsRight
