SPECIFICATION Spec
CONSTANTS
  MaxReconnects = 1
  Actors = {"failures"}
  Env = {"drop"}
INVARIANT CauseSurvivesHangup
