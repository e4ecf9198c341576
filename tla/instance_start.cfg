CONSTANTS
    Processes = {p1, p2, p3}
    NoSecret = NoSecret
    MaxCrashes = 1
SPECIFICATION FairSpec
INVARIANTS StartInv SecretIsShared
PROPERTIES EveryProcessServes
CHECK_DEADLOCK FALSE
