CONSTANTS
  e1 = e1
  e2 = e2
  p1 = p1
  p2 = p2
  i1 = i1
  i2 = i2
  Events = {e1, e2}
  Publishers = {p1, p2}
  Batch = 1
  Ids = {i1, i2}
  NoId = NoId
  None = None
SPECIFICATION FairSpec
INVARIANTS
  TypeOK
  DispatchedWasDelivered
  IdsIdentifyEvents
PROPERTIES
  DispatchedIsFinal
  EnqueuedIsDelivered
CHECK_DEADLOCK FALSE
