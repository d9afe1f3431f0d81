CONSTANTS
    NRuns = 4
    Files <- MCFiles
    Noted = {1, 4}
    PageSize = 100
SPECIFICATION Spec
CHECK_DEADLOCK FALSE
INVARIANTS
    TypeOK
    PublishedIsComplete
    MetadataIsCurrent
    FailureCostsOneAsset
    RerunRepairs
PROPERTY
    Terminates
