CONSTANTS
    Webhooks = {w1, w2, w3}
    Tests = {}
    Legacy = {}
    Keys = {k1}
    NoKey = NoKey
    NoRow = NoRow
    StaleAfter = 1
    Retention = 5
    HoldLimit = 1
    MaxTime = 2
    MaxToken = 0
SYMMETRY RequestSymmetry
SPECIFICATION Spec
INVARIANT OneHandlerPerRow
CHECK_DEADLOCK FALSE
