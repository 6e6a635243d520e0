SPECIFICATION FairSpec
CONSTANTS
    Readers = {r1}
    Capacity = 2
    MaxPushes = 2
PROPERTY DestructorTerminates
