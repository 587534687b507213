SPECIFICATION MeteredSpec
CONSTANTS
  t1 = t1
  t2 = t2
  t3 = t3
  NoThread = NoThread
  PageIdLimit = 1
  MaxPins = 2
  NumFrames = 1
  Threads = {t1, t2}
  Fetchers = {t1, t2}
  Creators = {}
  Writers = {}
  Flushers = {}
  Deleters = {}
  DiskFaults = FALSE
  ForeignIds = {0}
  NumCvs = 4
  MaxHeld = 1
  MaxFetches = 2
INVARIANTS
  HitsAndMissesAreFetches
CHECK_DEADLOCK FALSE
