SPECIFICATION FairSpec
CONSTANTS
  w1 = w1
  w2 = w2
  w3 = w3
  c1 = c1
  c2 = c2
  Webhooks = {w1, w2, w3}
  Calls = {c1, c2}
  CallOf <- CallOfWebhook
  NoObject = NoObject
  Threshold = 2
  Window = 2
  Cooldown = 2
  Remember = 2
  Budget = 2
  HistoryLimit = 1
  Casts <- FiveCasts
INVARIANTS
  TypeOK
  BreakerMatchesHistory
  BudgetGateTellsTheTruth
  OneAlertPerDay
  RingingIsPending
  OpenCallsAreClosed
  FinishedCallsSurvive
PROPERTIES
  CallsAreDecided
  BreakerCloses
