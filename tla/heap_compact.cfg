SPECIFICATION Spec
CONSTANTS
  PageSize = 8
  HeaderSize = 1
  SlotSize = 2
  BucketSize = 2
  BucketCount = 4
  Capacities = {1}
  RecordSizes = {0, 1, 3}
  Mutations = {"compact"}
  MutablePages = {0}
INVARIANTS
  CompactStaysInPage
CHECK_DEADLOCK FALSE
