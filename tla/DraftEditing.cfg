SPECIFICATION FairSpec
CONSTANTS
  Drafts = {d1, d2}
  Texts = {none, a, b}
  Empty = none
  Files = {f1}
  Users <- MCUsers
  MaxCalls = 2
  Mounts = {m1, m2}
  None = None
  none = none
  a = a
  b = b
CHECK_DEADLOCK FALSE
INVARIANTS
  TypeOK
  OneDraftPerComposition
  CalmSendIsAsOnScreen
  CleanIsSaved
PROPERTIES
  EditsSettle
