SPECIFICATION Spec
CONSTANTS
  Reports = {r1}
  Workers = {w1}
  Receivers = {x1}
  Decisions <- Rulings
  Malformed = Malformed
  NoOne = NoOne
  Mode = "automatic"
  MaxRevisions = 2
  MaxAttempts = 2
  MaxFaults = 0
INVARIANT ClearedCourierIsReinstated
CHECK_DEADLOCK FALSE
