SPECIFICATION Spec
CONSTANTS
  e0 = e0
  e1 = e1
  e2 = e2
  NoEvent = NoEvent
  Absent = Absent
  Torn = Torn
  Events = {e0, e1, e2}
  CreatedAt <- MCCreatedAt
  MaxTime = 2
  MaxStops = 2
CHECK_DEADLOCK FALSE
INVARIANT
  NothingLostWhileDown
