SPECIFICATION FairSpec
CONSTANTS
  PageSize = 8
  HeaderSize = 1
  SlotSize = 2
  BucketSize = 2
  BucketCount = 4
  Capacities = {1, 2, 3}
  RecordSizes = {1, 3, 6}
  Mutations = {"insert", "delete", "compact"}
  MutablePages = {0}
INVARIANTS
  TypeOK
  RecordsReadBack
  DirectoriesIntact
  MapFollowsPages
  MapFindsFirst
  ScanComplete
PROPERTIES
  InsertAddsOne
  FullIsGenuine
  CallsEnd
CHECK_DEADLOCK FALSE
