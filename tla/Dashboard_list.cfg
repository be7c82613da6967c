SPECIFICATION ProjectsSpec
CONSTANTS
  Jobs = {"j1", "j2"}
  Path <- MCPath
  Coming = {"j2"}
  Opened = {"j1", "j2"}
  Nowhere = "none"
  MaxFlight = 2
  MaxAsks = 2
  MaxFailures = 1
INVARIANTS NothingGoneIsOffered LinkWorks
PROPERTIES DropsOnlyDeleted PollingCatchesUp
CHECK_DEADLOCK FALSE
