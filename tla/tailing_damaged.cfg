SPECIFICATION Spec
CONSTANTS
  MaxLine = 4
  LineLen <- DamagedLen
  Kind <- DamagedKind
  MaxInode = 1
  MaxTruncate = 1
  ChannelCap = 1
PROPERTY DamageIsLocal
PROPERTY TruncationNoticed
