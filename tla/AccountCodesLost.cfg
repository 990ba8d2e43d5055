SPECIFICATION Spec
CONSTANTS
  q1 = q1
  q2 = q2
  q3 = q3
  q4 = q4
  o1 = o1
  o2 = o2
  Overlap = 2
  Losses = 1
  Requests = {q1, q2, q3, q4}
  Plans <- MCPlans
  Operations = {o1, o2}
  Addresses = {a1}
  Passkeys = {k1, k2, k3, k4}
  FirstKeys = {k1, k2}
  CodeNumbers = {n1, n2}
  Flows = {f1, f2}
  Challenges = {c1, c2}
  SignIns = {s1}
  FirstSignIn = s1
  Initial = Initial
  None = None
SYMMETRY Symmetry
CHECK_DEADLOCK FALSE
INVARIANT
  CodesCanBeRotated
