CONSTANTS
    j1 = j1
    j2 = j2
    w1 = w1
    w2 = w2
    NoJob = NoJob
    Jobs = {j1, j2}
    Workers = {w1, w2}
    MaxAttempts <- MCMaxAttempts
    Lease = 2
    BackoffBase = 1
    BackoffCap = 2
    WordBits = 8
    Delays = {0, 1}
    MaxAge = 1
SPECIFICATION FairSpec
INVARIANTS
    AttemptsAreDistinct
    ExclusiveWhenPunctual
PROPERTIES
    DeadIsJustified
    KeepsContract
    EveryJobSettles
