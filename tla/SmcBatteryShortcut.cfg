CONSTANTS
  Count = 2
  Averages = {1}
  QuickPollCount = 2
  Elapsed = {0}
  AcpiFails = FALSE

SPECIFICATION Spec
CHECK_DEADLOCK FALSE

INVARIANT NoZeroCapacity
