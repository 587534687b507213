SPECIFICATION FairMeteredSpec
CONSTANTS
  t1 = t1
  t2 = t2
  t3 = t3
  NoThread = NoThread
  PageIdLimit = 2
  MaxPins = 4
  NumFrames = 2
  Threads = {t1, t2}
  Fetchers = {t1, t2}
  Creators = {}
  Writers = {t1}
  Flushers = {}
  Deleters = {}
  DiskFaults = TRUE
  ForeignIds = {0, 1, 2}
  NumCvs = 5
  MaxHeld = 2
  MaxFetches = 4
INVARIANTS
  FramesAccounted
  ReservedHasOwner
  HeldPageUnpins
  CountersAddUp
PROPERTIES
  NoEvictableIsGenuine
  StateWaitEnds
CHECK_DEADLOCK FALSE
