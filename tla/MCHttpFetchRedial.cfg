CONSTANTS
  NumStreams = 1
  NumFiles = 3
  PrefetchDepth = 2
  SlotCount = 2
  TaskCapacity = 2
  Workers = {w1, w2}
  Quiescers = {}
  MaxRetries = 1
  Outcomes = {"Ok", "NotFound", "TransportError"}
  ErrorAnswers = {"NotFound"}
  Unzipped = {"Ok"}
  Window = 3
  CriticalFailures = 2
  WordSize = 8
  None = None
  Callers = {w1, w2}
  Listers = {}
  HostOf <- MCHostOf
  HttpRetries = 1
  IdleCap <- MCIdleCap
  MaxConns = 4
  NoConn = NoConn
  MaxListings = 0
SPECIFICATION FetchSpec
INVARIANTS DeadPooledIsNoFailure
CHECK_DEADLOCK FALSE
