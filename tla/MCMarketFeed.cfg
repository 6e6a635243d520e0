SPECIFICATION FairSpec
CONSTANTS
    Watcher = watcher
    Main = main
    Symbols = {s1, s2}
    MaxData = 2
 
PROPERTIES SubscribesOrEnds ShutdownEnds
CHECK_DEADLOCK FALSE
