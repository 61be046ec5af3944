SPECIFICATION Spec
CONSTANTS
  Call <- Calls
  ExtKey <- Ext
INVARIANT TypeOK
INVARIANT RowsAreValid
INVARIANT ReplayGivesSameRow
INVARIANT ColumnsByPrecedence
INVARIANT SeverityByPrecedence
INVARIANT OutcomesAgree
