CONSTANTS
    Jobs = {j1, j2}
    NoJob = NoJob
    MaxPolls = 2
    MaxRestarts = 1
SPECIFICATION FairJobSpec
INVARIANTS JobsInv
PROPERTIES PageComesToRest 
CHECK_DEADLOCK FALSE
