SPECIFICATION FairSpec
CONSTANTS
  None = None
  Name = {daily}
  Proc = {p1, p2}
  Expr = {1, 3}
  Cycle = 3
  Default = {daily}
  DefaultExpr = 3
  MaxIds = 2
  MaxFaults = 2
INVARIANTS
  FiredOncePerSlot
  NextMatchesExpression
PROPERTIES
  NoSilentSkip
  DueIsServed
