SPECIFICATION Spec
CONSTANTS
  web = web
  db = db
  c1 = c1
  c2 = c2
  NoTable = none
  Table = {web, db}
  Row <- Message
  MaxMessage = 3
  Payload <- Payloads
  HighWater = 1
  ChannelCap = 1
  MaxLinkFault = 1
  TableOf <- Tables
  FileInode = 1
  FileSize = 1
  SeekToEnd = TRUE
  Column = {c1}
  Reserved = {}
  BatchSize = 2
  MaxDbFault = 1
  MaxCrash = 1
  MaxStop = 1
  MaxReload = 1
INVARIANT TypeOK
INVARIANT TakenIsKept
INVARIANT ZmqInv
PROPERTY KeepsAtMostOnce
PROPERTY FileNotSkipped
PROPERTY RegisteredEverywhere
PROPERTY LinkRestored
PROPERTY ArrivedIsSettled
PROPERTY ShutdownCompletes
\* The service may be stopped for good.
CHECK_DEADLOCK FALSE
