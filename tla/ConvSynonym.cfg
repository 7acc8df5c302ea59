SPECIFICATION Spec
CONSTANTS
  t1 = t1
  t2 = t2
  Tasks = {t1, t2}
  Tools = {"phase_complete", "get_service_status", "get_tickets"}
  Categories = {"billing"}
  NoCategory = NoCategory
  NoTool = NoTool
  TriageMaxTurns = 2
  DiagnoseMaxTurns = 4
  MaxTurns = 2
  FailureLimit = 1
  FrustrationLimit = 1
  InboxBound = 3
  Env = {}
CHECK_DEADLOCK FALSE
PROPERTY DuplicatesAreRejected
