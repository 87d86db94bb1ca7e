SPECIFICATION LiveSpec
CONSTANTS
  Entities = {e1}
  Curated = {}
  Files = {f1}
  Art = {}
  Cap = 1
  Writers = {p1}
  Workers = {w1, w2}
  None = None
  MaxWrites = 1
  MaxEvents = 2
  MaxFaults = 1
INVARIANTS
  TypeOK
  EveryChangeIsOwed
  ClearingsAreAnswered
PROPERTIES
  TakedownFindsEveryUse
  OxyComesToAgree
CHECK_DEADLOCK FALSE
