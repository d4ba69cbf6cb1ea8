\* Two objects, two zram devices, and any two of: a flush over an older snapshot
\* or none, a power failure or death of the process, a load by hand.
CONSTANTS
    Names = {a, b}
    SlotOf <- MCSlotOf
    NSlots = 2
    Devs = {0, 1}
    MaxFlush = 1
    MaxTries = 1
    MaxFaults = 1
    MaxLoads = 1
    MaxEvents = 2
    MaxHeld = 1
SYMMETRY MCSymmetry
SPECIFICATION Spec
INVARIANTS
    LifeTypeOK
    TierWhole
    NoSilentLoss
    NamesApart
PROPERTIES
    FlushTakesHold
    NeverClobbers
CHECK_DEADLOCK FALSE
