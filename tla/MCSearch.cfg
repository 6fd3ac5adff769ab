CONSTANTS
    Episodes = {1, 2, 3}
    Searches = {s1}
    Bundles = {b1, b2}
    Rankings <- MCRankings
    Scores = {1, 2}
    Depth = 2
    Scale = 3782
    MaxResults = 2
    None = None
    MaxFaults = 2
    MaxSwaps = 1
    MaxDeletions = 1
SPECIFICATION FairSpec
INVARIANTS
    NoLateLeg
    FoundByAnswer
    ScoredAsRecorded
PROPERTY
    EverySearchEnds
