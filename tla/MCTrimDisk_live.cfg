SPECIFICATION FairSpec
CONSTANTS
  a = a
  b = b
  x = x
  d1 = d1
  Puts = {a, x}
  Headers <- MCHeaders
  Header <- MCHeader
  Disks = {d1}
  Disk = d1
  Slots <- MCSlots
  SlotSize = 128
  IndexCap = 8
  SectorLen = 8
  Faults = {}
  ReadNames = {6, 20}
  MaxCrashes = 1
  MaxTrims = 2
  Fids <- MCFids
  TrimFids = {2, 4, 5, 9}
  MaxNonce = 1
  Threshold = 1000
  MinFileCount = 0
CHECK_DEADLOCK FALSE
INVARIANTS CurrentRefReadsRight
PROPERTIES EveryTrimEnds
