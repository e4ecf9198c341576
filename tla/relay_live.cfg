CONSTANTS
    Webhooks = {w1}
    Tests = {t1}
    Legacy = {old}
    Keys = {k1}
    NoKey = NoKey
    NoRow = NoRow
    StaleAfter = 0
    Retention = 1
    HoldLimit = 2
    MaxTime = 1
    MaxToken = 1
SPECIFICATION FairSpec
PROPERTIES DeliveryIsSettled
CHECK_DEADLOCK FALSE
