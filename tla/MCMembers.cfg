SPECIFICATION MembersSpec
CONSTANTS
  w1 = w1
  u1 = u1
  u2 = u2
  c1 = c1
  c2 = c2
  AN = AN
  None = None
  Workspaces = {w1}
  Users = {u1, u2}
  Consumers = {c1, c2}
  NameOf <- Name
  InitialsOf <- Initials
  MaxEvents = 2
  MaxFaults = 1
  MaxLinks = 1
  MaxByHand = 1
  MaxTasks = 2
SYMMETRY Symmetry
CONSTRAINT Scenario
INVARIANTS JoinersGetIn LeaversStayOut
CHECK_DEADLOCK FALSE
