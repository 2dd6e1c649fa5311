CONSTANTS
  Users = {u1, u2}
  MaxMade = 3
  MaxBatch = 2
  MaxRecords = 3
SPECIFICATION Spec
INVARIANTS TypeOK RecordsKeepTheirTask OneRunningTimer
CHECK_DEADLOCK FALSE
