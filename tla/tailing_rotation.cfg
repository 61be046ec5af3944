SPECIFICATION Spec
CONSTANTS
  MaxLine = 4
  LineLen <- MixedLen
  Kind <- MixedKind
  MaxInode = 3
  MaxTruncate = 0
  ChannelCap = 1
INVARIANT TypeOK
INVARIANT NoTornLine
INVARIANT SentUpToOffset
INVARIANT OffsetIsLineEnd
PROPERTY StreamsLines
PROPERTY LastFileDrained
\* The task may return, and the manager then be done.
CHECK_DEADLOCK FALSE
