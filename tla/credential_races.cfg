\* Two accounts, two refreshes and two confirmation pages at a time, three rows,
\* and a clock that passes the life of a pending row.
CONSTANTS
    Accounts = {x1, x2}
    NoAccount = NoAccount
    Refreshers = {r1, r2}
    Admins = {a1, a2}
    PendingTTL = 1
    MaxTime = 1
    MaxId = 3
SYMMETRY CredentialSymmetry
SPECIFICATION Spec
INVARIANTS CredentialInv OnlyApprovedAccounts CredentialIsAsShown
PROPERTIES DisconnectionHolds
CHECK_DEADLOCK FALSE
