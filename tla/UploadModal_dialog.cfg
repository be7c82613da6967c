SPECIFICATION ModalSpec
CONSTANTS
  Chunks = 2
  Kinds = {"duration"}
  MaxOpens = 2
  MaxPicks = 2
  MaxUploads = 2
INVARIANTS FormConsistent OneUploadPerOpening SentAsReviewed
CHECK_DEADLOCK FALSE
