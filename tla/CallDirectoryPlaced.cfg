SPECIFICATION FairSpec
CONSTANTS
  p1 = p1
  a = a
  q1 = q1
  Placed = {p1}
  Offered = {}
  Operators = {a}
  Requests = {q1}
  MaxCalls = 1
  Free = Free
  NoCall = NoCall
  NoOwner = NoOwner
  NoRecord = NoRecord
INVARIANTS
  VisibleWhileRegistered
PROPERTIES
  
  RequestsReturn
CHECK_DEADLOCK FALSE
