CONSTANTS
    Own = Own
    Groups = {g1}
    Roles = {r1}
    NoRole = NoRole
    Commands = {c1, c2}
    TTL = 1
    ForeignKeys = FALSE
    MaxChanges = 2
SYMMETRY AccessSymmetry
SPECIFICATION Spec
INVARIANTS  MembershipIsRecent 
PROPERTIES RunsOnlyWhatIsGranted
CHECK_DEADLOCK FALSE
