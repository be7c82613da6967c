\* The Go half with two delivery replicas and a concurrent DELETE, classic queues.
SPECIFICATION Spec
CONSTANTS
  Jobs = {j1}
  Segs = {1}
  Consumers <- DeliveryWorkers
  Serves <- TwoDeliveries
  QueueType = "classic"
  DeliveryLimit = 3
  Ops = {"audio", "delete", "ttl"}
  MaxMsgs = 4
  MaxFaults = 1
  MaxOps = 2
INVARIANTS Accounted CompletedHasVideo DuplicatesNeedFaults
CHECK_DEADLOCK FALSE
