CONSTANTS
  Creates = {c1, c2, c3}
  ClientIds = {1}
  MaxId = 2
  MaxVersion = 6
SPECIFICATION Spec
INVARIANTS TypeOK ParentsResolve RowsMatchAnswers
SYMMETRY Symmetry
CHECK_DEADLOCK FALSE
