SPECIFICATION MCSpec
CONSTANTS
  Groups = 2
  Lanes = 2
  NumExperts = 2
  MaxRows = 3
  WgTileM = 2
  WgTileN = 4
  GemmN = 6
  Garbage = 0
  KTiles = 1
  Thread <- MCThread
  Scenario <- MCScenario
  Capacity = 2
  Space <- NumberedSpace
  Key <- NumberedKey
  Built <- NumberedPrimitive
  Attributes <- NumberedAttributes
  Arguments <- NumberedArguments
  Products <- MCProducts
  PerWord = 2
  Shifted = 4
  Word = 4096
  HashBase = 7
  Mxfp4Group = 4
INVARIANTS
  SameTile
  NoSharedTile
  Complete
  Served
  Multiplied
PROPERTY Terminates
CHECK_DEADLOCK FALSE
