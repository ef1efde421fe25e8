\* Two slabs, requests that need one, several or too many extents.
CONSTANTS
  SlabSize <- TwoSlabs
  Requests = {0, 1, 3, 5, 9}
  Alignments = {2, 4}
  LINE = 2
  MAX_HANDLES = 4
SPECIFICATION Spec
INVARIANTS TypeOK Coalesced Partition LinesPrivate RangesExact
PROPERTIES FailsOnlyWhenFull
CHECK_DEADLOCK FALSE
