\* The array of the chip.
CONSTANTS
  ROWS = 2
  COLS = 2
  BYTE = 2
SPECIFICATION FairSpec
INVARIANTS TypeOK NothingInFlight MacAligned DoneMeansCaptured PipelineInv
PROPERTIES OperandsHeld ExactLatency RunEnds RefinesTileSpec
