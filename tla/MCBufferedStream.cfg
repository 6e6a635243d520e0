SPECIFICATION FairSpec
CONSTANTS
    Readers = {r1, r2}
    Capacity = 2
    MaxPushes = 4
INVARIANTS WindowIntact NoReaderAfterDestruction
PROPERTIES ImplementsLossyLog SleepersAreWoken
