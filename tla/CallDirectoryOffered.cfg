SPECIFICATION Spec
CONSTANTS
  o1 = o1
  a = a
  b = b
  q1 = q1
  q2 = q2
  Placed = {}
  Offered = {o1}
  Operators = {a, b}
  Requests = {q1, q2}
  MaxCalls = 1
  Free = Free
  NoCall = NoCall
  NoOwner = NoOwner
  NoRecord = NoRecord
SYMMETRY Symmetry
INVARIANTS
  TypeOK
  StatusIsCurrent
  EndedIsFiled
CHECK_DEADLOCK FALSE
