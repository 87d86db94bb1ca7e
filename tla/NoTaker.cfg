\* A courier's accept meets the sweep that gives up on the job.
CONSTANTS
  Jobs = {j1}
  Couriers = {c1}
  Offers = {o1}
  Handlers = {h1}
  Sweepers = {s1}
  Sender = Sender
  None = None
  WaveSize = 1
  MaxWaves = 1
  MaxCrashes = 0
  MaxShifts = 0
SPECIFICATION Spec
INVARIANT NoTakerMeansNoTaker
