\* A restore of the tier, by a boot or by hand, that is cut off by a death of
\* the process or meets another boot.
CONSTANTS
    Names = {a}
    SlotOf <- MCSlotOf
    NSlots = 2
    Devs = {0, 1}
    MaxFlush = 1
    MaxTries = 1
    MaxFaults = 2
    MaxLoads = 1
    MaxEvents = 4
    MaxHeld = 0
SPECIFICATION Spec
INVARIANT
    RestoredBeforeExposed
CHECK_DEADLOCK FALSE
