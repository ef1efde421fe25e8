CONSTANTS
  ROWS_PER_BLOCK = 2
  Q8_SUBBLOCKS = 2
  ACT_BEATS = 1
  Q8_BLOCK = 1
  MAX_FLASH_ATTN_KV = 4
  FATTN_MAX_HEAD_DIM = 2
  MAX_OPS = 1
  Cases <- CutCacheCases
  Contents <- MCContents
SPECIFICATION PSpec
PROPERTIES RefinesPsSpec
CHECK_DEADLOCK FALSE
