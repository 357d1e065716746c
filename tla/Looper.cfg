CONSTANTS
  Message = {p1, p2, w1}
  Awaited = {w1}
  Delays = {0, 1}
  MaxDelay = 1
  LastPost = 1
  None = None
  Forever = Forever
SPECIFICATION Spec
INVARIANTS
  TypeOK
  SleepsUntilDue
PROPERTIES
  DeliversInOrder
  CallersReturn
