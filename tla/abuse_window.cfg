CONSTANTS
    Handlers = {h1, h2}
    Routes = {r1}
    Ip = Ip
    Limit = 2
    Window = 0
    Initial = 1
    Hour = 3
    MaxBlock = 2
    CleanupAfter = 0
    MaxTime = 1
    MaxFailures = 3
SYMMETRY HandlerSymmetry
SPECIFICATION Spec
INVARIANTS AbuseIInv NoBlockBeforeLimit BlockIsBounded 
PROPERTIES BlockLasts EscalationKept
CHECK_DEADLOCK FALSE
