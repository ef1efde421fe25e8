SPECIFICATION Spec
CONSTANTS
  ROWS_PER_BLOCK = 8
  Q8_SUBBLOCKS = 4
  ACT_BEATS = 4
  MAX_SUB_INDEX = 8
  REDUCER_LATENCY = 2
  MAX_STARTS = 3
  Shapes <- KernelShapes
INVARIANTS RowsExact
PROPERTIES Finishes
