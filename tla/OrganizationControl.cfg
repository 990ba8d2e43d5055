SPECIFICATION Spec
CONSTANTS
  q1 = q1
  q2 = q2
  q3 = q3
  q4 = q4
  o1 = o1
  o2 = o2
  u1 = u1
  u2 = u2
  Overlap = 3
  Losses = 1
  Requests = {q1, q2, q3, q4}
  Plans <- MCPlans
  Operations = {o1, o2}
  Actors = {u1, u2}
  Names = {n1, n2}
  Initial = Initial
  None = None
SYMMETRY Symmetry
CHECK_DEADLOCK FALSE
INVARIANTS
  TypeOK
  SealedOwner
  HistoryIsWhole
  AnswersAreTrue
  RefusalsAreFinal
