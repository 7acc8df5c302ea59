SPECIFICATION Spec
CONSTANTS
  t1 = t1
  t2 = t2
  Tasks = {t1, t2}
  Tools = {"phase_complete", "escalate_to_agent"}
  Categories = {"billing"}
  NoCategory = NoCategory
  NoTool = NoTool
  TriageMaxTurns = 2
  DiagnoseMaxTurns = 2
  MaxTurns = 2
  FailureLimit = 1
  FrustrationLimit = 1
  InboxBound = 2
  Env = {}
CHECK_DEADLOCK FALSE
PROPERTY ClosesAfterTransferOrWrapUp
