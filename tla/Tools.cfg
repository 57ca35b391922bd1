CONSTANTS
  e1 = e1
  e2 = e2
  w1 = w1
  w2 = w2
  link = link
  real = real
  Op = {e1, e2, w1, w2}
  Path = {link, real}
  Missing = Missing
  Torn = Torn
  None = None
  Kind <- KindMC
  Run <- RunMC
  Names <- ByLink
  RealPath <- RealPathMC
  DEFAULT_MAX_BYTES = 2
  DEFAULT_MAX_LINES = 2
  MaxOutput = 5
  MaxPiece = 3
SPECIFICATION SpecTools
INVARIANTS InCallOrder FileHoldsSuccesses OutputKept
PROPERTIES EveryCallReturns EditsAreSimultaneous KilledReturns
CHECK_DEADLOCK FALSE
