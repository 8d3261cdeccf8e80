CONSTANTS
  Capacity = 2
  TimerPeriod = 0
  StepsPerPoll = 2
  StopPollEvery = 2
  ControlCapacity = 8
  MayThrow = {}
  Tapes <- LongLeg
  MaxNoData = 0
  MaxRuns = 1
SPECIFICATION FairSpec
PROPERTY Terminates
