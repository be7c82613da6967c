\* Two relays that overlap on two events, and failures enough to give up on one.
SPECIFICATION FairSpec
CONSTANTS
  Relays = {r1, r2}
  BatchSize = 2
  MaxAttempts = 2
  MaxEvents = 2
  MaxFaults = 3
INVARIANTS DuplicatesBounded GivesUpForCause
PROPERTIES KeepsPromise
CHECK_DEADLOCK FALSE
