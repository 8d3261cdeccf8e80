CONSTANTS
  NumStreams = 1
  NumFiles = 4
  PrefetchDepth = 9
  SlotCount = 3
  TaskCapacity = 2
  Workers = {w1, w2}
  Quiescers = {q1, q2}
  MaxRetries = 1
  Outcomes = {"Ok", "ServerError"}
  Window = 2
  CriticalFailures = 2
  WordSize = 8
  None = None
  Capacity = 2
  Consumers = {c1, c2}
  Events = {e1, e2}
  Raw = Raw
  MaxPush = 5
SYMMETRY Symmetry
SPECIFICATION PoolSpec
INVARIANTS ReadInPlanOrder QuiesceAnswersAll CountsReconcile QueuedTracksTasks CriticalFiresOnce
INVARIANTS CellIsExclusive TakenOnce EmptyIsHonest
CHECK_DEADLOCK FALSE
