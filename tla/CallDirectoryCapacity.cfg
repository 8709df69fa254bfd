SPECIFICATION Spec
CONSTANTS
  p1 = p1
  o1 = o1
  o2 = o2
  a = a
  q1 = q1
  Placed = {p1}
  Offered = {o1, o2}
  Operators = {a}
  Requests = {q1}
  MaxCalls = 1
  Free = Free
  NoCall = NoCall
  NoOwner = NoOwner
  NoRecord = NoRecord
CONSTRAINT NoMedia
SYMMETRY Symmetry
INVARIANTS
  CapacityBound
CHECK_DEADLOCK FALSE
