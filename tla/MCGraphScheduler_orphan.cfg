\* An op raises while a matmul streams; the next client uploads to its result.
CONSTANTS
  c1 = c1
  c2 = c2
  Clients = {c1, c2}
  NoClient = NoClient
  NoTensor = NoTensor
  Scripts <- OrphanScripts
  TensorCells <- Cells
  ROWS_PER_BLOCK = 2
  EXTENT = 4
  MAX_ROWBLOCKS = 2
  MAX_STALLS = 0
SPECIFICATION FairSpec
PROPERTIES WaitBeforeReuse
CHECK_DEADLOCK FALSE
