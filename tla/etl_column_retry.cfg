SPECIFICATION Spec
CONSTANTS
  web = web
  db = db
  c1 = c1
  c2 = c2
  NoTable = none
  Table = {web, db}
  Row <- Line
  MaxLine = 2
  LineLen <- TwoLen
  Kind <- TwoKind
  TableOf <- TwoTable
  MaxInode = 1
  MaxTruncate = 0
  ChannelCap = 1
  Column = {c1}
  Reserved = {}
  BatchSize = 2
  MaxDbFault = 1
  SeekToEnd = FALSE
  MaxCrash = 0
  MaxStop = 0
  MaxSaveFail = 0
  MaxReload = 0
INVARIANT RegisteredExists
\* The manager may be done and the service stopped for good.
CHECK_DEADLOCK FALSE
