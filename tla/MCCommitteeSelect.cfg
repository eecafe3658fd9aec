CONSTANTS
  Node <- MCNode
  Self = 1
  MinNnr = 2
  MaxBroadcast = 1
  Sums = {0, 10, 20}
  ActiveChoices <- MCActive
  CurMaps <- MCCurMaps
  PrevMaps <- MCPrevFull
  Orders <- MCOrders
SPECIFICATION Spec
CHECK_DEADLOCK FALSE
INVARIANT TypeOK
INVARIANT CouncilIsFirstFit
INVARIANT TerminatesWhenFeasible
