SPECIFICATION Spec
CONSTANTS
  t1 = t1
  t2 = t2
  Tasks = {t1, t2}
  Tools = {"get_service_status", "escalate_to_agent"}
  Categories = {"billing"}
  NoCategory = NoCategory
  NoTool = NoTool
  TriageMaxTurns = 2
  DiagnoseMaxTurns = 3
  MaxTurns = 1
  FailureLimit = 1
  FrustrationLimit = 1
  InboxBound = 2
  Env = {"speech", "failure", "drop", "frustration"}
SYMMETRY Symmetry
INVARIANTS
  OncePerPhase
  EscalatesOnce
