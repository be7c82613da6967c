SPECIFICATION Spec
CONSTANTS
  Users = {"ana", "bo"}
  None = "none"
  MaxTokens = 2
  MaxFaults = 1
  MaxName = 2
  MaxPrefs = 1
  MaxCalls = 1
INVARIANTS BarShowsSession SaveMarksTrue DeletesTheConfirmed
PROPERTIES DangerLeaves
CHECK_DEADLOCK FALSE
