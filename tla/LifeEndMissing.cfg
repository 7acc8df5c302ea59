SPECIFICATION Spec
CONSTANTS
  MaxReconnects = 1
  Actors = {"wrap_up"}
  Env = {}
INVARIANT TeardownPublishesCallEnded
