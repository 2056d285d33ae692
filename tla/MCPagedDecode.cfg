SPECIFICATION MCSpec
CONSTANTS
  KvTile = 2
  MinBlocksForSplit = 3
  Seqs = {1, 2}
  Heads = {1}
  Lanes = 3
  Caps = {1, 2, 3}
  KvLens = {0, 5, 8, 9}
  MaxTile = 4
  Windows <- MCWindows
  Targets = {1, 2}
  NoOutput = NoOutput
  SgSize = 2
  SurfaceRows = 16
  PrefillSgs = 2
  QPacked = 4
  Calls <- MCCalls
INVARIANTS
  PlanContract
  CleanOutput
PROPERTIES
  AttendedOnce
  Answered
  RowsAttended
CHECK_DEADLOCK FALSE
