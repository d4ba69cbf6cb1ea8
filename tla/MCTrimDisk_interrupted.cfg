\* One trim that may fail in every step, and a stop by signal.
SPECIFICATION Spec
CONSTANTS
  a = a
  b = b
  x = x
  d1 = d1
  Puts = {a, b}
  Headers <- MCHeaders
  Header <- MCHeader
  Disks = {d1}
  Disk = d1
  Slots <- MCSlots
  SlotSize = 128
  IndexCap = 12
  SectorLen = 3
  Faults = {"anchor-write", "anchor-sync", "copy-io"}
  ReadNames = {}
  MaxCrashes = 1
  MaxTrims = 1
  Fids <- MCFids
  TrimFids = {2, 4, 5, 9}
  MaxNonce = 0
  Threshold = 1000
  MinFileCount = 0
CHECK_DEADLOCK FALSE
INVARIANTS TrimErrorLosesNothing
