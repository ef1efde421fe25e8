\* A host dies while uploading, and another uploads.
CONSTANTS
  PAGE = 2
  SECTOR = 4
  REGION = 12
  CHUNK = 3
  Images <- Files
  Faults <- Dying
  MAX_UPLOADS = 2
  MAX_LOSSES = 0
SPECIFICATION FairSpec
INVARIANTS StoredIsUploaded
CHECK_DEADLOCK FALSE
