\* The Python half with two tts replicas, transcript edits and regeneration.
SPECIFICATION Spec
CONSTANTS
  Jobs = {j1}
  Segs = {1, 2}
  Consumers <- PythonWorkers
  Serves <- AnalyzerTts
  QueueType = "classic"
  DeliveryLimit = 3
  Ops = {"ingest", "upload", "edit", "regenerate", "resynthesize", "delete"}
  MaxMsgs = 4
  MaxFaults = 1
  MaxOps = 2
INVARIANTS TypeOK AudioPathBacked AnnouncedIsVoiced
CHECK_DEADLOCK FALSE
