CONSTANTS
  Fans = {f}
  Posters = {p}
  MaxUpdates = 3

SPECIFICATION Spec
CHECK_DEADLOCK FALSE

INVARIANT FansAutomaticAsleep
