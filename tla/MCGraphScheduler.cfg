\* Graphs of up to three ops beside a second client.
CONSTANTS
  c1 = c1
  c2 = c2
  Clients = {c1, c2}
  NoClient = NoClient
  NoTensor = NoTensor
  Scripts <- DrainedScripts
  TensorCells <- Cells
  ROWS_PER_BLOCK = 2
  EXTENT = 4
  MAX_ROWBLOCKS = 2
  MAX_STALLS = 1
SPECIFICATION FairSpec
INVARIANTS TypeOK
PROPERTIES RefinesGraphSpec WaitBeforeReuse Answered
CHECK_DEADLOCK FALSE
