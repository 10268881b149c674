SPECIFICATION RecSpec
CONSTANTS
    None = None
    TipHeight = 2
    MaxCrashes = 1
INVARIANT StartsAfterEveryCrash
CHECK_DEADLOCK FALSE
