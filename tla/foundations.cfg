SPECIFICATION Spec
CONSTANTS
  NumTasks = 4
  Limits = {0, 1, 2}
  Operations = 5
  Blocks = 4
  BlockSize = 2
  QueueDepths = {1, 2}
  Stride = 3
  Columns = 2
  PageRows = 2
  Values = {1, 2}
  MaxRows = 5
  Radix = 2
INVARIANTS
  TypeOK
  LimitKept
  ResultsInOrder
  DepthKept
  BytesExact
  LayoutsAgree
  ReadBack
PROPERTIES
  PartsEnd
CHECK_DEADLOCK FALSE
