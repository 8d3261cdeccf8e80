CONSTANTS
    CacheProcs = {a, b}
    NumParts = 2
    CapFiles = 1
    Needs = {1, 3, 4}
    Calls = {"scan"}
    OneAtATime = FALSE
    MaxCalls = 3
    MaxCrashes = 0
    LedgerProcs = {a, b}
    Trials = {k1, k2}
    Digests = {d1, d2}
    Flush = 2
    OneOpen = FALSE
    MaxRecords = 4
    MaxDeaths = 0
    NoDigest = NoDigest
SPECIFICATION StoreSpec
INVARIANT FolderKeepsLatest
SYMMETRY Symmetry
CHECK_DEADLOCK FALSE
