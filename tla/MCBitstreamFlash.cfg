\* Power is lost anywhere; hosts die while uploading; power is lost inside
\* flash operations too.
CONSTANTS
  PAGE = 2
  SECTOR = 4
  REGION = 12
  CHUNK = 3
  Images <- Files
  Faults <- OneFault
  MAX_UPLOADS = 3
  MAX_LOSSES = 2
SPECIFICATION FairSpec
INVARIANTS TypeOK PresentIsWhole Authentic CellsClean OkMeansStored BootRestores
PROPERTIES UploadsEnd
CHECK_DEADLOCK FALSE
