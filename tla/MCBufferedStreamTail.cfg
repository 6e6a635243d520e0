SPECIFICATION Spec
CONSTANTS
    Readers = {r1}
    Capacity = 2
    MaxPushes = 2
INVARIANT FinalItemSeen
