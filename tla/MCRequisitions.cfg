CONSTANTS
  ann = ann
  cal = cal
  o1 = o1
  o2 = o2
  Nobody = Nobody
  Reqs = {o1, o2}
  Users = {ann, cal}
  Owners = {ann}
  By <- Submitters
  Sharing <- Shared
  Preapproved = {o2}
  Prebooked = {o2}
  Consumers = {c1, c2}
  MaxNumber = 2
  MaxRetries = 1
  MaxFaults = 2
SPECIFICATION FairSpec
INVARIANTS TypeOK ProcessedIsApplied BookedIsKept
PROPERTIES DecisionIsCommitted
CHECK_DEADLOCK FALSE
