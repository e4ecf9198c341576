CONSTANTS
    Handlers = {h1, h2}
    Routes = {r1}
    Ip = Ip
    Limit = 3
    Window = 2
    Initial = 1
    Hour = 2
    MaxBlock = 3
    CleanupAfter = 1
    MaxTime = 2
    MaxFailures = 4
SYMMETRY HandlerSymmetry
SPECIFICATION Spec
INVARIANT LimitAlwaysTriggersBlock
CHECK_DEADLOCK FALSE
