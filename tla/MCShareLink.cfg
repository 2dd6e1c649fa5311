SPECIFICATION ShareSpec
CONSTANTS
  v1 = v1
  v2 = v2
  Views = {v1, v2}
  LastWorkspace = 1
  TTL <- Ttl
  Timeout <- Wait
  MaxTime = 3
SYMMETRY Symmetry
INVARIANTS WithdrawnIsRefused ServedWasShown
