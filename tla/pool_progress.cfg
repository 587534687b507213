SPECIFICATION FairSpec
CONSTANTS
  t1 = t1
  t2 = t2
  t3 = t3
  NoThread = NoThread
  PageIdLimit = 2
  MaxPins = 2
  NumFrames = 1
  Threads = {t1, t2}
  Fetchers = {t1, t2}
  Creators = {t1}
  Writers = {t2}
  Flushers = {t1}
  Deleters = {}
  DiskFaults = TRUE
  ForeignIds = {}
  NumCvs = 4
  MaxHeld = 1
INVARIANTS
  DirtyNotLost
PROPERTIES
  ReservationEnds
  ScanEnds
CHECK_DEADLOCK FALSE
