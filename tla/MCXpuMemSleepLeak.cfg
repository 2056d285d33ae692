SPECIFICATION MCSpec
CONSTANTS
  Threads = {t1}
  Addr = {a1}
  Tags = {g1}
  NoThread = NoThread
  NoAddr = NoAddr
  NoTag = NoTag
  NoEntry = NoEntry
INVARIANT SleepReleases
