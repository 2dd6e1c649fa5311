CONSTANTS
  r1 = r1
  r2 = r2
  Replicas = {r1, r2}
  Release <- MCRelease
  Last = 3
  MaxCrashes = 2
SPECIFICATION FairSpec
INVARIANTS
  ServingMeansMigrated
PROPERTIES
  BodiesRunOnceInOrder
  ReplicasStart
CHECK_DEADLOCK FALSE
