\* A buffered and an unbuffered request, retried through every kind of failure.
SPECIFICATION FairSpec
CONSTANTS
  Keys = {"small", "large"}
  Small = {"small"}
  Requests = {1, 2}
  Limit = 2
  MaxDepth = 1
  MaxJobs = 6
  MaxTrouble = 2
INVARIANTS Promised OncePerKey
PROPERTIES ClientServed
CHECK_DEADLOCK FALSE
