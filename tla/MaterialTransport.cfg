SPECIFICATION TransportSpec
CONSTANTS
  CourierQuotes = {c1, c2}
  CarrierQuotes = {e1}
  Keys = {k1}
  ForeignKeys = {}
  TransportKey = k1
  None = None
  Requests = {r1, r2}
  Reconcilers = {w1}
  MaxAttempts = 2
  MaxCrashes = 1
SYMMETRY Symmetry
INVARIANTS
  CancelledTransportHasNoJob
  JobIsTheAuthorizedOne
  BookedTransportHasItsJob
PROPERTIES
  LiveConsentStands
CHECK_DEADLOCK FALSE
