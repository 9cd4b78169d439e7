CONSTANTS
  Threads = {t1, t2}
  Pages = {a}
  ReadOnly = {}
  Returns = {x, y}
  None = none

SPECIFICATION Spec
CHECK_DEADLOCK FALSE

INVARIANT PathRestored
