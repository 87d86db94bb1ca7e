\* Requests race for one job: accepts, legs and cancellations, one dying, while a
\* courier goes online and offline and is suspended and reinstated.
CONSTANTS
  Jobs = {j1}
  Couriers = {c1, c2}
  Offers = {o1, o2}
  Handlers = {h1, h2}
  Sweepers = {}
  Sender = Sender
  None = None
  WaveSize = 2
  MaxWaves = 1
  MaxCrashes = 1
  MaxShifts = 2
SYMMETRY Symmetry
SPECIFICATION Spec
CHECK_DEADLOCK FALSE
INVARIANTS
  AcceptedOfferIsTheWinners
  CourierIsTheOneWhoAccepted
  SuspendedIsNeverOnline
