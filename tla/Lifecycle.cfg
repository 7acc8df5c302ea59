SPECIFICATION FairSpec
CONSTANTS
  MaxReconnects = 1
  Actors = {"frustration", "failures", "tool", "wrap_up", "operator", "operator_hangup"}
  Env = {"drop", "failure"}
INVARIANTS
  TypeOK
  FinalCallHasCause
PROPERTIES
  KeepsContract
  SessionEnds
