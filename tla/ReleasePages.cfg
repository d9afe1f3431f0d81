CONSTANTS
    NRuns = 4
    Files <- MCNightlyFiles
    Noted = {}
    PageSize = 2
SPECIFICATION Spec
CHECK_DEADLOCK FALSE
INVARIANT
    RerunRepairs
