SPECIFICATION ReportsSpec
CONSTANTS
  K = 3
  ReadOrder <- ImuReadOrder
  ClearOrder <- ImuClearOrder
  MaxReports = 4
INVARIANT SkewBounded
