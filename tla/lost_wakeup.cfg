SPECIFICATION FairSpec
CONSTANTS
  t1 = t1
  t2 = t2
  t3 = t3
  NoThread = NoThread
  PageIdLimit = 1
  MaxPins = 2
  NumFrames = 1
  Threads = {t1, t2}
  Fetchers = {t2}
  Creators = {t1}
  Writers = {}
  Flushers = {t1}
  Deleters = {}
  DiskFaults = FALSE
  ForeignIds = {}
  NumCvs = 4
  MaxHeld = 1
PROPERTIES
  StateWaitEnds
CHECK_DEADLOCK FALSE
