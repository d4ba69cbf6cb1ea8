SPECIFICATION Spec
CONSTANTS
  a = a
  b = b
  x = x
  d1 = d1
  Puts = {a, b, x}
  Headers <- MCHeaders
  Header <- MCHeader
  Disks = {d1}
  Disk = d1
  Slots <- MCSlots
  SlotSize = 128
  IndexCap = 10
  SectorLen = 10
  Faults = {"crash"}
  ReadNames = {}
  MaxCrashes = 1
  MaxTrims = 2
  Fids <- MCFids
  TrimFids = {2, 4, 5, 9}
  MaxNonce = 0
  Threshold = 1000
  MinFileCount = 0
CHECK_DEADLOCK FALSE
INVARIANTS TrimTypeOK AckedReadable HalfAnchorAtMost NeverFaulted ReferencedIsReserved ReopenServesTheSame CompactionPreserves
