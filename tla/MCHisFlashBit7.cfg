SPECIFICATION Spec
CONSTANTS
  Channels = {1, 2}
  MaxMonth = 2
  Days = {8}
  Quarters = {0}
  LowBits = {0, 1}
  Flag = 7
  Quantities <- MCQuantities
  MaxReports = 2
  MaxPublished = 1
  MaxBreaks = 0
INVARIANT
  Bit7MeansNotReported
CHECK_DEADLOCK FALSE
