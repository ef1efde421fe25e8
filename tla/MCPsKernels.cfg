CONSTANTS
  ROWS_PER_BLOCK = 2
  Q8_SUBBLOCKS = 2
  ACT_BEATS = 1
  Q8_BLOCK = 1
  MAX_FLASH_ATTN_KV = 4
  FATTN_MAX_HEAD_DIM = 2
  MAX_OPS = 2
  Cases <- MCCases
  Contents <- MCContents
SPECIFICATION PSpec
INVARIANTS CutsAreHidden FlushCovers
PROPERTIES RefinesPsSpec
CHECK_DEADLOCK FALSE
