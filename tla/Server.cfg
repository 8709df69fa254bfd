SPECIFICATION Spec
CONSTANTS
  p1 = p1
  p2 = p2
  s1 = s1
  Publishers = {p1, p2}
  Streams = {s1}
  ChannelSize = 2
  MaxVersion = 3
  c1 = c1
  c2 = c2
  Recorded = {c1, c2}
  MaxTakes = 2
  NoRow = NoRow
  w1 = w1
  a1 = a1
  a2 = a2
  Workers = {w1}
  Accounts = {a1, a2}
  Listed = 2
INVARIANTS
  TypeOK
  NoSendOnClosed
  ViewIsCurrent
  RecordingsAgree
  AnswersAreTrue
PROPERTIES
  ExpiredIsDeleted
CHECK_DEADLOCK FALSE
