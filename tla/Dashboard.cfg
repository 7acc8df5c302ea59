SPECIFICATION FairSpec
CONSTANTS
  Versions = 2
  Turns = {1, 2}
  Events = {1, 2}
  Items = 2
  QueueSize = 2
  Limit = 1
  MaxAttempts = 1
  Env = {"failure", "break", "stall", "key"}
INVARIANTS
  TypeOK
  ShownTurnsAreStored
  CaughtUp
  BrokenRowMissedCreation
PROPERTIES
  GoesBackOnlyToQueued
  ClientSettles
CHECK_DEADLOCK FALSE
