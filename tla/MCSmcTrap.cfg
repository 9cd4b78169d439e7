CONSTANTS
  Threads = {t1, t2}
  Pages = {a, b}
  ReadOnly = {b}
  Returns = {x, y}
  None = none

SPECIFICATION Spec
SYMMETRY Symmetry
CHECK_DEADLOCK FALSE

INVARIANTS
  TypeOK
  ReturnsHome
  NoSelfDeadlock
