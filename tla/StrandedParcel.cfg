\* Two users who track the parcel at once, and one task.
SPECIFICATION LiveSpec
CONSTANTS
  Users = {u1, u2}
  Requests = {r1, r2}
  Tasks = {t1}
  Pushes = {}
  None = None
  Journey <- Delivered
  MaxFailures = 1
  MaxNotFound = 1
  MaxFaults = 0
  Toll = 1
PROPERTIES
  WatchedParcelsAreAskedAbout
CHECK_DEADLOCK FALSE
