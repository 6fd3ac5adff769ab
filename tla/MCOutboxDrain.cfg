CONSTANTS
    MaxEvent = 3
    Unknown = {3}
    Workers = {w1, w2}
    BatchSize = 2
    MaxAttempts = 2
    MaxFaults = 1
SPECIFICATION FairSpec
INVARIANT
    InsertionOrder
PROPERTIES
    KeepsPromises
    EveryEventSettles
