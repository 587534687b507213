SPECIFICATION FairSpec
CONSTANTS
  t1 = t1
  t2 = t2
  t3 = t3
  NoThread = NoThread
  PageIdLimit = 2
  MaxPins = 2
  NumFrames = 2
  Threads = {t1, t2}
  Fetchers = {t1, t2}
  Creators = {}
  Writers = {}
  Flushers = {}
  Deleters = {}
  DiskFaults = FALSE
  ForeignIds = {0, 1, 2}
  NumCvs = 4
  MaxHeld = 1
PROPERTIES
  LoadWaitEnds
CHECK_DEADLOCK FALSE
