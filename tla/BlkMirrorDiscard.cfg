SPECIFICATION Spec
CONSTANTS
  Block = {b1, b2}
  MaxWrites = 2
  MaxPasses = 2
  MaxIters = 2
  Threshold = 1
  MaxFaults = 0
  Discards = TRUE
INVARIANT NoWriteMissed
