CONSTANTS
  w1 = w1
  w2 = w2
  c1 = c1
  r1 = r1
  r2 = r2
  owner = owner
  member = member
  NoProc = NoProc
  NoFrame = NoFrame
  Conns = {c1}
  Writers = {w1, w2}
  Replicas = {r1, r2}
  Procs = {w1, w2, c1, r1, r2}
  Users = {owner, member}
  Owner = owner
  UserOf <- MCUserOf
  ReplicaOf <- MCReplicaOf
SPECIFICATION FairSpec
INVARIANTS
  OneWriterWhileJoined
  CaughtUp
PROPERTIES
  PushArrives
CHECK_DEADLOCK FALSE
