SPECIFICATION Spec
CONSTANTS
  u1 = u1
  u2 = u2
  u3 = u3
  jobs = jobs
  User = {u1, u2, u3}
  Matrix = {m1, m2}
  MaxVersion = 2
  MaxWorkflows = 1
  Delegation = {}
  Grant <- OneGrant
  Assignee = {u3}
  Plan <- TwoLevels
  Request = {r1, r2, jobs}
  Worker = jobs
  MaxConns = 4
  None = None
INVARIANTS
  AllLevelsPassed
  VetoEnds
PROPERTIES
  ApprovalContract
SYMMETRY RequestSymmetry
CHECK_DEADLOCK FALSE
