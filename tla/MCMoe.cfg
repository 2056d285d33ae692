SPECIFICATION MCSpec
CONSTANTS
  NumExperts = 2
  BlockSize = 2
  Numel = 2
  TopkNum = 1
  MaxPadded = 4
  MaxLoras = 2
  Lanes = 3
  WarpSize = 2
  FillThreads = 1
  CountThreads = 2
  Limits = {2, 3}
  SmallExperts = 2
  TopkIds <- MCIds
  ExpertMaps <- MCMaps
  Requests <- MCRequests
  Junk = 77
  NumRows = 2
  TopK = 2
  LocalExperts = 4
  TotalExperts = 8
  CountLanes = 3
  MaxCopyLanes = 2
  Chunks = 3
  ElemsPerItem = 2
  ScaleElems = 3
  Inputs <- MCInputs
  Garbage = 100
  Pending = Pending
INVARIANTS
  SlotsPlaced
  RowsRight
  RanksDistinct
  RowsGrouped
PROPERTIES
  LayerKept
  AllServed
CHECK_DEADLOCK FALSE
