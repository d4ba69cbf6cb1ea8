SPECIFICATION Spec
CONSTANTS
  p1 = p1
  p2 = p2
  p3 = p3
  d1 = d1
  d2 = d2
  Puts = {p1, p2, p3}
  Headers <- MCHeaders
  Disks = {d1, d2}
  ZramDisks = {d2}
  Slots <- MCSlots
  SlotSize = 2
  MaxPut = 5
  SmallFileBytes = 3
  IndexCap = 3
  MaxCrashes = 1
  Blank = Blank
SYMMETRY Symm
CHECK_DEADLOCK FALSE
INVARIANTS TypeOK ExtentsDisjoint NoLeakedReservation OneHome NextBootAccepted MemoryMatchesIndex AckedServed ReadsAreWhole InFlightInvisible
PROPERTY ImplementsObjectStore
