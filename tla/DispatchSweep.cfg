\* The repeated sweep against one request, either of which may die, over a job that
\* may be unpaid.
CONSTANTS
  Jobs = {j1}
  Couriers = {c1}
  Offers = {o1, o2}
  Handlers = {h1}
  Sweepers = {s1}
  Sender = Sender
  None = None
  WaveSize = 1
  MaxWaves = 1
  MaxCrashes = 1
  MaxShifts = 0
SPECIFICATION FairSpec
INVARIANTS
  TypeOK
  NoDispatchBeforePayment
  TrailTellsTheStory
  AtMostOneExtraWave
PROPERTIES
  ImplementsJobLifecycle
  NoJobWaitsForever
  NoOfferStaysOpen
