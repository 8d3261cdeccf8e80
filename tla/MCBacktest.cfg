CONSTANTS
  Capacity = 2
  TimerPeriod = 2
  StepsPerPoll = 2
  StopPollEvery = 2
  ControlCapacity = 8
  MayThrow = {"source", "engine"}
  Tapes <- MCTapes
  MaxNoData = 1
  MaxRuns = 2
SPECIFICATION FairSpec
INVARIANTS NothingLost OneTimeLine TicksOnTime
PROPERTY ReturnsIfFits
