CONSTANTS
  Tasks = {1}
  ProjectIds = {p, q}
  Actors = {a, b}
  Blank = Blank
  MaxSerial = 3
SPECIFICATION PlanSpec
INVARIANTS
  HomesInSync
  PlacementIsMeant
PROPERTIES
  DeletedProjectIsEmpty
  SignOffNeedsEveryone
CHECK_DEADLOCK FALSE
