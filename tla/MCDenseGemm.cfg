SPECIFICATION CacheSpec
CONSTANTS
  Thread <- MCThread
  Scenario <- MCTwoLayouts
  Capacity = 2
  Space <- NumberedSpace
  Key <- NumberedKey
  Built <- NumberedPrimitive
  Attributes <- NumberedAttributes
  Arguments <- NumberedArguments
  Products <- MCTwoProducts
  PerWord = 2
  Shifted = 4
  Word = 4096
  HashBase = 7
  Mxfp4Group = 4
INVARIANT Multiplied
CHECK_DEADLOCK FALSE
