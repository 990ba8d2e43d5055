SPECIFICATION Spec
CONSTANTS
  Drafts = {d1}
  Texts = {none, a, b}
  Empty = none
  Files = {f1}
  Users <- OneUser
  MaxCalls = 2
  Mounts = {m1, m2}
  None = None
  none = none
  a = a
  b = b
CHECK_DEADLOCK FALSE
INVARIANTS
  SentAsOnScreen
