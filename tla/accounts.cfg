CONSTANTS
    Users = {u1, u2}
    NoUser = NoUser
    Sessions = {s1, s2}
    Handlers = {h1, h2}
    MaxEra = 1
SYMMETRY AccountsSymmetry
SPECIFICATION Spec
INVARIANTS AccountsInv AnAdminRemains SessionsAreCurrent SetupRunsOnce
CHECK_DEADLOCK FALSE
