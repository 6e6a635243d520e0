SPECIFICATION Spec
CONSTANTS
    Symbols = {s1, s2}
    Keys = {1, 2}
    MaxSaves = 4
    MaxFailures = 1
INVARIANTS ReadsItsSnapshot SavedIsStored ClearedOnce
CHECK_DEADLOCK FALSE
