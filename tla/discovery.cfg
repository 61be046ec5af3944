SPECIFICATION Spec
CONSTANTS
  FieldList <- Lists
  Extracted <- Other
  Hidden <- Objects
  Mapping <- Mappings
  NoMapping <- None
  Unloadable = Unloadable
  Mtime = {0, 1, 2}
  Input <- Files
  Probe <- Probes
  KindOf <- Kinds
  ColumnOf <- Columns
  Sanitised <- Names
  Seconds = {1, 2, 3}
  MaxEvent = 3
INVARIANT TypeOK
INVARIANT PublishedKept
INVARIANT CommittedReported
INVARIANT PromotedIsVisible
INVARIANT PathsArePromotable
INVARIANT LookupsAgree
PROPERTY MappingsFollow
PROPERTY ReportCatchesUp
\* The service may be stopped for good.
CHECK_DEADLOCK FALSE
