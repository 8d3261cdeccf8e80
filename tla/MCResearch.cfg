CONSTANTS
  PageSize = 2
  MicrosecondFloor = 100
  StampCeiling = 1000
  MicrosPerMilli = 10
  DepthBands = 1
  From <- MCFrom
  To <- MCTo
  Worlds <- MCWorlds
  None = None
  Capacity = 2
  MinInterval = 2
  Gaps = {0, 1, 2}
  MaxSamples = 5
  MaxRuns = 2
  Raw = Raw
  CacheProcs = {a, b}
  NumParts = 2
  CapFiles = 1
  Needs = {1, 3, 4}
  Calls = {"scan", "trim", "clear"}
  OneAtATime = TRUE
  MaxCalls = 5
  MaxCrashes = 2
  LedgerProcs = {a, b}
  Trials = {k1, k2}
  Digests = {d1, d2}
  Flush = 2
  OneOpen = TRUE
  MaxRecords = 5
  MaxDeaths = 2
  NoDigest = NoDigest
SPECIFICATION ResearchSpec
INVARIANTS MergedInOrder OnePlace RowsAddUp MissingTapeShows
INVARIANTS SlotIsExclusive SeriesComplete
INVARIANTS IndexMatchesFiles ScanServes LedgerKeepsLatest
PROPERTIES SourceReachesEof MovesOn
CHECK_DEADLOCK FALSE
