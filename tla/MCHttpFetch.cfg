CONSTANTS
  NumStreams = 1
  NumFiles = 2
  PrefetchDepth = 0
  SlotCount = 2
  TaskCapacity = 2
  Workers = {w1}
  Quiescers = {q1}
  MaxRetries = 1
  Outcomes = {"Ok", "NotFound", "TransportError"}
  ErrorAnswers = {"NotFound"}
  Unzipped = {"Ok"}
  Window = 3
  CriticalFailures = 2
  WordSize = 8
  None = None
  Callers = {w1, l1}
  Listers = {l1}
  HostOf <- MCHostOf
  HttpRetries = 1
  IdleCap <- MCIdleCap
  MaxConns = 4
  NoConn = NoConn
  MaxListings = 1
SPECIFICATION FetchSpec
INVARIANTS ConnectionsClosed RedialsWhenAlone
PROPERTIES EverythingReadInTheEnd QuiesceReturns
CHECK_DEADLOCK FALSE
