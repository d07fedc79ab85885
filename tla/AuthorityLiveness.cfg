SPECIFICATION FairSpec
CONSTANTS
  u1 = u1
  u2 = u2
  u3 = u3
  jobs = jobs
  User = {u2, u3}
  Matrix = {m1}
  MaxVersion = 1
  MaxWorkflows = 1
  Delegation = {d1}
  Grant <- OneGrant
  Assignee = {u3}
  Plan <- OneLevel
  Request = {r1, r2, jobs}
  Worker = jobs
  MaxConns = 4
  None = None
PROPERTIES
  EveryRequestAnswered
  EveryWorkflowSettles
CHECK_DEADLOCK FALSE
