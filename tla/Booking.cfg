SPECIFICATION LiveSpec
CONSTANTS
  CourierQuotes = {c1}
  CarrierQuotes = {e1, e2}
  Keys = {k1, k2}
  ForeignKeys = {k2}
  None = None
  Requests = {r1}
  Reconcilers = {w1}
  MaxAttempts = 2
  MaxCrashes = 1
INVARIANTS
  TypeOK
  OneParcel
  OneJobPerKeyedShipment
PROPERTIES
  ImplementsFulfilment
  EveryParcelGetsItsJob
CHECK_DEADLOCK FALSE
