\* Two requests of two users, two tasks, one push; two calls fail, or one task
\* dies, or one lease lapses.
SPECIFICATION LiveSpec
CONSTANTS
  Users = {u1, u2}
  Requests = {r1, r2}
  Tasks = {t1, t2}
  Pushes = {p1}
  None = None
  Journey <- Delivered
  MaxFailures = 2
  MaxNotFound = 1
  MaxFaults = 2
  Toll = 2
INVARIANTS
  TypeOK
  OnePollAtATime
  NoCheckpointIsCountedTwice
PROPERTIES
  DueParcelsAreShown
  CountComesRight
CHECK_DEADLOCK FALSE
