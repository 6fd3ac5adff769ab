CONSTANTS
    Workers = {w1, w2}
    Jobs = {j1, j2}
    MaxVersion = 3
    Broken = {2}
    MaxAttempts = 2
    Intervals = {1}
    MaxInterval = 2
    MaxFaults = 2
    Deletable = TRUE
    NoJob = NoJob
    Nobody = Nobody
SPECIFICATION FairSpec
INVARIANTS
    ValidatorNeverAhead
    AnnouncedIsStored
PROPERTY
    EventuallyFresh
