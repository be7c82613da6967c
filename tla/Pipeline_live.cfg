\* Through one failure every redelivery loop ends, and a documented audio message completes its job.
SPECIFICATION FairSpec
CONSTANTS
  Jobs = {j1}
  Segs = {1}
  Consumers <- MuxAndDelivery
  Serves <- MuxThenDelivery
  QueueType = "quorum"
  DeliveryLimit = 3
  Ops = {"audio", "delete"}
  MaxMsgs = 6
  MaxFaults = 1
  MaxOps = 2
PROPERTIES Settles AudioCompletes
CHECK_DEADLOCK FALSE
