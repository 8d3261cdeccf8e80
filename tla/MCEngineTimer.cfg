CONSTANTS
  spot = spot
  fut = fut
  Spot = spot
  Futures = fut
  Scale = 3
  FeeRate = 1
  Prices <- MCPrices
  Rates <- MCRates
  MaxPositionQty = 1
  MaxDrawdown = 4
  Tracked <- MCTracked
  TargetQty = 2
  EntryFundingRate = 1
  ExitFundingRate <- MCExit
  Compositions = {"python"}
  PythonQtys = {1}
  CostFiles <- MCCostFiles
  MaxWeek = 1
  MaxCostedSteps = 7
  MaxCarrySteps = 7
  MaxPythonSteps = 3
SPECIFICATION Spec
INVARIANT FillsAppliedOnce
CHECK_DEADLOCK FALSE
