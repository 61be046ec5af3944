SPECIFICATION Spec
CONSTANTS
  web = web
  db = db
  c1 = c1
  c2 = c2
  NoTable = none
  Table = {web, db}
  Row <- Line
  MaxLine = 5
  LineLen <- FiveLen
  Kind <- FiveKind
  TableOf <- FiveTable
  MaxInode = 1
  MaxTruncate = 0
  ChannelCap = 1
  Column = {}
  Reserved = {}
  BatchSize = 2
  MaxDbFault = 1
  SeekToEnd = TRUE
  MaxCrash = 1
  MaxStop = 1
  MaxSaveFail = 1
  MaxReload = 0
INVARIANT TypeOK
INVARIANT CommittedSettled
INVARIANT NothingForgotten
INVARIANT IInv
INVARIANT ReplayBounded
INVARIANT MemoryBounded
PROPERTY KeepsPromise
\* The manager may be done and the service stopped for good.
CHECK_DEADLOCK FALSE
