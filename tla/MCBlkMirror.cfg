SPECIFICATION LiveSpec
CONSTANTS
  Block = {b1, b2}
  MaxWrites = 2
  MaxPasses = 2
  MaxIters = 2
  Threshold = 1
  MaxFaults = 2
  Discards = FALSE
INVARIANTS FinalExact OneCopier BaselineShipped MInv
PROPERTIES Converges DetachEnds
