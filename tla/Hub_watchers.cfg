SPECIFICATION Spec
CONSTANTS
  Jobs = {j1}
  Clients = {c1, c2}
  PubSubs = {p1, p2}
  Slow = {s1}
  SendCap = 1
  MaxEvents = 2
INVARIANTS NoLeakedSubscription OncePerClient DeafOnlyAfterDeparture
