CONSTANTS
  ann = ann
  cal = cal
  m1 = m1
  m2 = m2
  p1 = p1
  a1 = a1
  c1 = c1
  Nobody = Nobody
  Users = {ann, cal}
  Provisioned = {ann}
  Mutations = {m1}
  Puts = {p1}
  Archivers = {a1}
  Recurrers = {c1}
  Admins = {}
  RoleEdits = {m1}
  Private = {a1, c1}
  Sendable = {0, 1, 2, 3}
  Assignments <- Cast
  Schedules <- OneJob
  Sharing <- SharedWithCal
SPECIFICATION Spec
INVARIANTS
  TypeOK
  CommittedEditSurvives
  OwnerIfMatchPutKeepsEdits
  AnswerMatchesOutcome
PROPERTIES
  RolesNeedAdmin
  WritesAreAtomic
CHECK_DEADLOCK FALSE
