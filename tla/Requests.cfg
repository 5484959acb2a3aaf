CONSTANTS
  WordBits = 10
  Mantissa = 6
  TopExponent = 15
  RateUnit = 32
  HeadroomDivisor = 8
  BufferBytes = 64
  Infinite = 100
  NaN = NaN
  None = None
  GoldenGamma = 633
  Mix1 = 765
  Mix2 = 595
  Shifts <- ThreeShifts
  Asked <- CommandLines
  Lengths <- Measured
SPECIFICATION RequestsSpec
INVARIANTS AcceptedIsSound SeedsReplay EstimateCovers
CHECK_DEADLOCK FALSE
