SPECIFICATION MCSpec
CONSTANTS
  NumThreads = 2
  NumBins = 4
  LowBins = 2
  HalfBin <- MCHalfBin
  NumFinalItems = 2
  TopK = 2
  Width = 2
  PadKey = 30
  Dests = {0, 1, 2}
  Blocks = 2
  Inputs <- MCInputs
  Garbage = 99
  Vocab = 9
  Lanes = 4
  VecSize = 2
  MaxIters = 20
  Eps = 1
  NegInf <- MCNegInf
  Exp <- MCExp
  Noise <- MCNoise
  Calls <- MCCalls
  MaxKept = 4
  GateLanes = 4
  GateItems = 3
  PowerLoad = 2
  PairLoad = 1
  Multiples = {12}
  Unit = 100
  GateWeigh <- MCWeigh
  NaN <- MCNaN
  Sentinel = 3
  GateCalls <- MCGateCalls
  SortLanes = 4
  Infinite <- MCInfinite
  Sigmoid <- MCSigmoid
  Unset <- MCUnset
  GroupedCalls <- MCGroupedCalls
INVARIANT SameTopK
CHECK_DEADLOCK FALSE
