SPECIFICATION MCSpec
CONSTANTS
  Width = 3
  NumSpec = 2
  ChunkSize = 2
  Seqs = {1, 2}
  MaxFed = 3
  MaxTokens = 6
  MaxCalls = 3
  P = 11
  Root = 2
  Block = 2
  DimK = 2
  Tile = 2
  Tiles = 2
  Lens <- MCLens
  Seeds = {1}
  NumDevices = 2
  Pageable = Pageable
  PinnedBuffers = {p, q}
  TensorBlocks = {1, 2}
  BlockMaps <- MCMaps
  MaxPinned = 1
  MaxCopyCalls = 2
  MaxWrites = 1
  NewData = NewData
  Unowned = Unowned
  NoBuffer = NoBuffer
  NoCopyCall = NoCopyCall
  NumHeads = 2
  HeadSize = 4
  XSplit = 2
  PageSize = 2
  NumPages = 4
  Rank = 3
  PeDim = 2
  ItemRange = 3
  PackSize = 2
  IndexDim = 8
  QuantBlock = 4
  QuantVec = 2
  QuantLanes = 2
  GatherVec = 2
  GatherLanes = 2
  KvCalls <- MCFp8Calls
  MaxItems = 8
  SubGroup = 4
  VecWidth = 2
  RowsPerWG = 2
  RowCalls <- MCRowCalls
  RotLanes = 2
  RotElems = 4
  RotItems = 4
  RotSgs = 2
  FewTokens = 1
  RotCalls <- MCRotCalls
INVARIANT
  Dequantised
CHECK_DEADLOCK FALSE
