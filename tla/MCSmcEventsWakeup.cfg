SPECIFICATION Spec
CONSTANTS
  Posters = {p1, p2}
  Driver = driver
  Codes <- MCCodes
  NoEvent = NoEvent
  Data = {d1, d2}
  Oversize = Oversize
  NoData = NoData
  MaxActiveInterrupts = 2
INVARIANT
  AlreadyCaused
