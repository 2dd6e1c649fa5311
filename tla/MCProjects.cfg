CONSTANTS
  Nil = Nil
  Forged = Forged
  Puts = {r1, r2}
  Admins = {r1}
  Updates = {u1}
  Contracts = {k1}
  Threads = {t1, t2}
  MaxVersion = 2
SPECIFICATION Spec
INVARIANTS TypeOK ConversationFromChat
PROPERTIES AccessNeedsAdmin ConversationIsFinal
CHECK_DEADLOCK FALSE
