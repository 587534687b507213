SPECIFICATION Spec
CONSTANTS
  t1 = t1
  t2 = t2
  t3 = t3
  NoThread = NoThread
  PageIdLimit = 2
  MaxPins = 4
  NumFrames = 2
  Threads = {t1, t2}
  Fetchers = {t1, t2}
  Creators = {t1}
  Writers = {t1}
  Flushers = {t1}
  Deleters = {t2}
  DiskFaults = FALSE
  ForeignIds = {2}
  NumCvs = 5
  MaxHeld = 2
INVARIANTS
  TypeOK
  MappingExact
  FramesAccounted
  ReservedHasOwner
  PinsExact
  DirtyNotLost
  UniqueLoader
  LoadingNotResident
  LoadReadsNewest
PROPERTIES
  PinnedStaysPut
  EvictionCommits
  ImplementsPageCache
CHECK_DEADLOCK FALSE
