SPECIFICATION Spec
CONSTANTS
  MaxLine = 2
  LineLen <- ShortLen
  Kind <- ShortKind
  MaxInode = 2
  MaxTruncate = 0
  ChannelCap = 1
INVARIANT NoAlertTwice
CHECK_DEADLOCK FALSE
