SPECIFICATION JumpFairSpec
CONSTANTS
  a = a
  b = b
  c = c
  d1 = d1
  Uploads = {a, c}
  Content <- MCContent
  Fid <- MCFid
  MaxJumps = 2
  MaxVerify = 1
  Puts <- MCPuts
  Headers <- MCHeaders
  Disks = {d1}
  ZramDisks = {}
  Slots <- MCTightSlots
  SlotSize = 2
  MaxPut = 4
  SmallFileBytes = 1
  IndexCap = 4
  MaxCrashes = 1
  Blank = Blank
CHECK_DEADLOCK FALSE
PROPERTIES EveryUploadReturns EveryPutEnds
