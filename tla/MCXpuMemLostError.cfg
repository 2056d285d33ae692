SPECIFICATION MCSpec
CONSTANTS
  Threads = {t1, t2}
  Addr = {a1, a2}
  Tags = {g1}
  NoThread = NoThread
  NoAddr = NoAddr
  NoTag = NoTag
  NoEntry = NoEntry
SYMMETRY Symmetry
INVARIANT ErrorsReported
