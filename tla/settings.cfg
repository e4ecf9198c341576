CONSTANTS
    Processes = {p1, p2}
    Handlers = {h1, h2}
    o1 = o1
    o2 = o2
    Origins <- BothOrigins
    EnvFrontend = o1
    EnvCors <- FirstOrigin
    MaxChanges = 3
SYMMETRY SettingsSymmetry
SPECIFICATION Spec
INVARIANTS  FeaturesAreConsistent CacheIsCurrent 
