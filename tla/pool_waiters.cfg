SPECIFICATION FairSpec
CONSTANTS
  t1 = t1
  t2 = t2
  t3 = t3
  NoThread = NoThread
  PageIdLimit = 1
  MaxPins = 3
  NumFrames = 2
  Threads = {t1, t2, t3}
  Fetchers = {t1, t2, t3}
  Creators = {}
  Writers = {}
  Flushers = {}
  Deleters = {}
  DiskFaults = FALSE
  ForeignIds = {0, 1}
  NumCvs = 5
  MaxHeld = 1
PROPERTIES
  FetchReturns
CHECK_DEADLOCK FALSE
