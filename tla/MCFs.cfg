CONSTANTS
  Proc = {p1, p2}
  NINODE = 3
  NInum = 4
  Name = {a, b}
  MaxPath = 2
  MaxCalls = 2
  NONE = NONE
SPECIFICATION Spec
SYMMETRY Symmetric
CHECK_DEADLOCK FALSE
INVARIANTS TableExact LinksExact PanicOnlyAbove PwdExact
