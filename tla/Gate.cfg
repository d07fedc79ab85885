SPECIFICATION GateSpec
CONSTANTS
  MaxWorkflows = 2
  Value = {v1, v2}
  Requested <- PublishRequests
  Protected = {"status", "body"}
  From = {}
  To = {"published"}
  Required = FALSE
  Patcher = {p1, p2}
  None = None
  Null = Null
  Nullable = {"body"}
SYMMETRY Interchangeable
INVARIANTS
  OneWritePerApproval
PROPERTIES
  PublishNeedsApproval
  SetsWhatWasApproved
CHECK_DEADLOCK FALSE
