SPECIFICATION Spec
CONSTANTS
  t1 = t1
  t2 = t2
  Tasks = {t1, t2}
  Tools = {"phase_complete", "report_new_issue", "get_service_status", "wait_for_user"}
  Categories = {"billing"}
  NoCategory = NoCategory
  NoTool = NoTool
  TriageMaxTurns = 2
  DiagnoseMaxTurns = 2
  MaxTurns = 2
  FailureLimit = 1
  FrustrationLimit = 1
  InboxBound = 3
  Env = {"speech", "hangup"}
SYMMETRY Symmetry
INVARIANTS
  TypeOK
  HandlersSerialised
  GateFollowsServer
PROPERTIES
  VerifyTakesATurn
  ClassifiedInTriage
