SPECIFICATION LiveSpec
CONSTANTS
  Reports = {r1}
  Workers = {w1, w2}
  Receivers = {x1}
  Decisions <- Payloads
  Malformed = Malformed
  NoOne = NoOne
  Mode = "automatic"
  MaxRevisions = 2
  MaxAttempts = 2
  MaxFaults = 1
INVARIANTS
  TypeOK
  OneEffectPerAction
  QueuedMeansOwed
PROPERTIES
  AnswersOnlyMoveForward
  SettledRowsStaySettled
  EveryRowSettles
CHECK_DEADLOCK FALSE
