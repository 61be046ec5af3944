SPECIFICATION Spec
CONSTANTS
  FieldList <- Lists
  Extracted <- Other
  Hidden <- Objects
  Mapping <- DocMappings
  NoMapping <- None
  Unloadable = Unloadable
  Mtime = {0, 1, 2}
  Input <- Files
  Probe <- Probes
  KindOf <- Kinds
  ColumnOf <- Columns
  Sanitised <- Names
  Seconds = {1, 2, 3}
  MaxEvent = 1
INVARIANT PromotedAsDocumented
\* The service may be stopped for good.
CHECK_DEADLOCK FALSE
