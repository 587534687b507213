SPECIFICATION Spec
CONSTANTS
  t1 = t1
  t2 = t2
  t3 = t3
  NoThread = NoThread
  PageIdLimit = 2
  MaxPins = 2
  NumFrames = 1
  Threads = {t1, t2}
  Fetchers = {t1, t2}
  Creators = {t1}
  Writers = {}
  Flushers = {t1}
  Deleters = {t1, t2}
  DiskFaults = TRUE
  ForeignIds = {}
  NumCvs = 4
  MaxHeld = 1
INVARIANTS
  UniqueLoader
CONSTRAINT FreeListBound
CHECK_DEADLOCK FALSE
