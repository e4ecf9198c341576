\* Two requests of one key, regeneration, toggles, deletion, deaths, and a clock
\* that passes both the stale window and the retention.
CONSTANTS
    Webhooks = {w1, w2}
    Tests = {}
    Legacy = {}
    Keys = {k1}
    NoKey = NoKey
    NoRow = NoRow
    StaleAfter = 1
    Retention = 2
    HoldLimit = 3
    MaxTime = 3
    MaxToken = 1
SYMMETRY RequestSymmetry
SPECIFICATION Spec
INVARIANTS   DeliveredAnswersAreTrue ClosedRouteNeverDelivers SentIsOnRecord
PROPERTIES OutcomeIsFinalUnlessTakenOver 
CHECK_DEADLOCK FALSE
