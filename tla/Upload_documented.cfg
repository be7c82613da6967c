\* A client that follows docs/api.md, two requests at a time, and as many failures as a second
\* message takes.
SPECIFICATION FairSpec
CONSTANTS
  Indices = {0, 1, 2}
  SizeOf <- ThreeChunks
  MaxTotal = 6
  Requests = {1, 2}
  Tracker = "redis"
  Documented = TRUE
  MaxFaults = 5
  MaxJobs = 2
INVARIANTS QueuedWholeOnce RefusedForCause ChunksAccounted
PROPERTIES UploadEnds
CHECK_DEADLOCK FALSE
