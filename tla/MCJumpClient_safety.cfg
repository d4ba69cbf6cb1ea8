SPECIFICATION JumpSpec
CONSTANTS
  a = a
  b = b
  c = c
  d1 = d1
  Uploads = {a, b, c}
  Content <- MCContent
  Fid <- MCFid
  MaxJumps = 2
  MaxVerify = 1
  Puts <- MCPuts
  Headers <- MCHeaders
  Disks = {d1}
  ZramDisks = {}
  Slots <- MCSlots
  SlotSize = 2
  MaxPut = 4
  SmallFileBytes = 1
  IndexCap = 4
  MaxCrashes = 1
  Blank = Blank
CHECK_DEADLOCK FALSE
SYMMETRY Symm
INVARIANTS JumpTypeOK StoredIsServed VerifiedIsServed StoredOnce
