CONSTANTS
  spot = spot
  fut = fut
  Spot = spot
  Futures = fut
  Scale = 3
  FeeRate = 1
  Prices <- MCPrices
  Rates <- MCRates
  MaxPositionQty = 1
  MaxDrawdown = 4
  Tracked <- MCTracked
  TargetQty = 2
  EntryFundingRate = 1
  ExitFundingRate <- MCExit
  Compositions = {"carry", "costed", "python"}
  PythonQtys = {1}
  CostFiles <- MCCostFiles
  MaxWeek = 1
  MaxCostedSteps = 7
  MaxCarrySteps = 7
  MaxPythonSteps = 3
  Capacity = 2
  NumConsumers = 2
  Events = {e1, e2}
  MaxPush = 5
  Raw = Raw
SPECIFICATION PathSpec
INVARIANTS CashReconciles MarkedWhenHeld CapRespected HedgedWhenPriced HaltIsFinal
INVARIANTS NoSlotRace InOrderDelivery RefusalIsHonest LiveObjects
PROPERTY BroadcastsInOrder
CHECK_DEADLOCK FALSE
