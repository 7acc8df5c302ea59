SPECIFICATION FairSpec
CONSTANTS
  t1 = t1
  t2 = t2
  Tasks = {t1, t2}
  Tools = {"phase_complete"}
  Categories = {"billing"}
  NoCategory = NoCategory
  NoTool = NoTool
  TriageMaxTurns = 2
  DiagnoseMaxTurns = 2
  MaxTurns = 2
  FailureLimit = 1
  FrustrationLimit = 1
  InboxBound = 1
  Env = {"slow", "frustration", "malformed"}
CHECK_DEADLOCK FALSE
PROPERTIES
  ToolCallsAreHandled
  EscalationCompletes
  CloseEndsSession
