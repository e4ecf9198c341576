CONSTANTS
    Names = {n1}
    Conversations = {k1, k2}
    NoOne = NoOne
    Lists = {l1, l2}
    NoList = NoList
    Handlers = {h1, h2}
    MaxCommits = 5
SYMMETRY RoutesSymmetry
SPECIFICATION Spec
INVARIANTS RoutesInv MembersAreOfTarget AccessIsWhole NoRouteIsLeftBehind
CHECK_DEADLOCK FALSE
