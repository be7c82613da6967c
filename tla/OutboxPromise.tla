--------------------------- MODULE OutboxPromise ---------------------------
(***************************************************************************)
(* What pkg/outbox promises its producers, whatever crashes in between: an *)
(* event is published only if the transaction that wrote it committed, its *)
(* row is marked only once the broker has it, and every committed event is *)
(* published unless its row was dropped.                                   *)
(***************************************************************************)
CONSTANT Events

VARIABLES
  committed,  \* events whose transaction committed
  delivered,  \* events the broker has been handed at least once
  marked,     \* events whose row says published
  dropped     \* events whose row was deleted or ran out of attempts

vars == <<committed, delivered, marked, dropped>>

Init == committed = {} /\ delivered = {} /\ marked = {} /\ dropped = {}

Commit(e) ==
  /\ e \notin committed /\ committed' = committed \cup {e}
  /\ UNCHANGED <<delivered, marked, dropped>>

Deliver(e) ==
  /\ e \in committed /\ delivered' = delivered \cup {e}
  /\ UNCHANGED <<committed, marked, dropped>>

Mark(e) ==
  /\ e \in delivered /\ marked' = marked \cup {e}
  /\ dropped' \in {dropped, dropped \cup {e}}      \* marking counts as an attempt
  /\ UNCHANGED <<committed, delivered>>

Drop(e) ==
  /\ e \in committed /\ dropped' = dropped \cup {e}
  /\ UNCHANGED <<committed, delivered, marked>>

Next == \E e \in Events : Commit(e) \/ Deliver(e) \/ Mark(e) \/ Drop(e)

Safety == Init /\ [][Next]_vars
Live == \A e \in Events : e \in committed ~> e \in delivered \cup dropped
Spec == Safety /\ Live
=============================================================================
