SPECIFICATION MCSpec
CONSTANTS
  c1 = c1
  c2 = c2
  c3 = c3
  NoOne = NoOne
  Connections = {c1, c2, c3}
  Requests = {"batch", "options", "pause", "resume", "stop"}
  MaxQueue = 1
INVARIANTS
  OneWorker
  AcceptedStopAborts
  StatusIsTrue
PROPERTIES
  NobodyWaitsForEver
CHECK_DEADLOCK FALSE
