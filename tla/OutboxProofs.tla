---------------------------- MODULE OutboxProofs ----------------------------
(***************************************************************************)
(* Theorems about Outbox, for every number of relays, batch size, attempt  *)
(* limit and bound: its states are type correct; every step of the relays  *)
(* is a step the promise of the outbox allows, or none; and how often an   *)
(* event may be published, and why a row runs out of attempts.  The last   *)
(* two count relays, so their invariant says which may still add to one.   *)
(***************************************************************************)
EXTENDS Outbox, FiniteSetTheorems, TLAPS

USE ConfigAssumption, BoundsAssumption

-----------------------------------------------------------------------------
(* The invariant.                                                          *)

Settled(e) == row[e].state \in {"committed", "deleted"}

\* Ids not taken yet have no row, so an INSERT never overwrites one.
IdsFresh == \A e \in Ids : e >= next => row[e].state = "none"

\* What a relay holds in its hands was committed, and at the marking step the
\* broker has it.
TickOK(r) ==
  /\ relay[r].pc # "idle" => relay[r].id \in Ids /\ Settled(relay[r].id)
  /\ \A e \in relay[r].rest : Settled(e)
  /\ relay[r].pc = "mark" => sent[relay[r].id] > 0

RelayInv == TypeOK /\ IdsFresh /\ \A r \in Relays : TickOK(r)

LEMMA InitRelayInv == Init => RelayInv
  BY DEF Init, RelayInv, TypeOK, IdsFresh, TickOK, Settled, Row, NoRow, Tick, Idle, Ids

-----------------------------------------------------------------------------
(* The steps keep it.                                                      *)

Advanced(r, batch) ==
  /\ relay' \in [Relays -> Tick]
  /\ \A q \in Relays \ {r} : relay'[q] = relay[q]
  /\ relay'[r].pc \in {"idle", "publish"}
  /\ relay'[r].pc = "publish" => relay'[r].id \in batch
  /\ relay'[r].rest \subseteq batch

\* Advancing hands the relay ids of the batch only.
LEMMA AdvanceKeeps ==
  ASSUME TypeOK, NEW r \in Relays, NEW batch \in SUBSET Ids, Advance(r, batch)
  PROVE  Advanced(r, batch)
<1> USE DEF Advanced
<1>1. relay \in [Relays -> Tick]
  BY DEF TypeOK
<1>2. CASE batch = {} /\ relay' = [relay EXCEPT ![r] = Idle]
  <2>1. Idle \in Tick
    BY DEF Idle, Tick
  <2>2. QED
    BY <1>1, <1>2, <2>1 DEF Idle
<1>3. ASSUME NEW e \in batch,
             relay' = [relay EXCEPT ![r] = [pc |-> "publish", id |-> e, rest |-> batch \ {e}]]
      PROVE  Advanced(r, batch)
  <2>1. [pc |-> "publish", id |-> e, rest |-> batch \ {e}] \in Tick
    BY DEF Tick, Ids
  <2>2. QED
    BY <1>1, <1>3, <2>1
<1>4. QED
  BY <1>2, <1>3 DEF Advance

\* While rows stay settled and counts do not drop, the relays that did not
\* move keep what they hold.
LEMMA OthersKeep ==
  ASSUME NEW q \in Relays, TypeOK, TickOK(q), relay'[q] = relay[q],
         \A e \in Ids : Settled(e) => Settled(e)',
         \A e \in Ids : sent[e] > 0 => sent'[e] > 0
  PROVE  TickOK(q)'
  BY DEF TypeOK, TickOK, Settled, Tick

LEMMA TxPublishKeeps == ASSUME RelayInv, TxPublish PROVE RelayInv'
<1>1. TypeOK'
  <2>1. row' \in [Ids -> Row]
    <3>1. row \in [Ids -> Row] /\ next \in Ids
      BY DEF RelayInv, TypeOK, TxPublish
    <3>2. [row[next] EXCEPT !.state = "open"] \in Row
      BY <3>1 DEF Row
    <3>3. row' = [row EXCEPT ![next] = [row[next] EXCEPT !.state = "open"]]
      BY DEF TxPublish
    <3>4. QED
      BY <3>1, <3>2, <3>3
  <2>2. next' \in 1..(MaxEvents + 1) /\ UNCHANGED <<sent, relay, faults>>
    BY DEF TxPublish, Ids
  <2>3. QED
    BY <2>1, <2>2 DEF RelayInv, TypeOK
<1>2. IdsFresh'
  BY DEF RelayInv, TypeOK, IdsFresh, TxPublish, Row, Ids
<1>3. ASSUME NEW q \in Relays PROVE TickOK(q)'
  <2>1. \A e \in Ids : Settled(e) => Settled(e)'
    BY DEF RelayInv, TypeOK, IdsFresh, Settled, TxPublish, Row, Ids
  <2>2. QED
    BY <2>1, OthersKeep DEF RelayInv, TxPublish
<1>4. QED
  BY <1>1, <1>2, <1>3 DEF RelayInv

LEMMA RowEventKeeps ==
  ASSUME RelayInv, NEW e \in Ids, TxEnds(e) \/ DeleteRow(e)
  PROVE  RelayInv'
<1>1. TypeOK'
  <2>1. row \in [Ids -> Row] /\ UNCHANGED <<next, sent, relay, faults>>
    BY DEF RelayInv, TypeOK, TxEnds, DeleteRow
  <2>2. ASSUME NEW s \in {"committed", "rolledback", "deleted"}, row' = [row EXCEPT ![e].state = s]
        PROVE  row' \in [Ids -> Row]
    <3>1. [row[e] EXCEPT !.state = s] \in Row
      BY <2>1 DEF Row
    <3>2. QED
      BY <2>1, <2>2, <3>1
  <2>3. row' \in [Ids -> Row]
    BY <2>2 DEF TxEnds, DeleteRow
  <2>4. QED
    BY <2>1, <2>3 DEF RelayInv, TypeOK
<1>2. IdsFresh'
  BY DEF RelayInv, TypeOK, IdsFresh, TxEnds, DeleteRow, Exists, Row, Ids
<1>3. ASSUME NEW q \in Relays PROVE TickOK(q)'
  <2>1. \A f \in Ids : Settled(f) => Settled(f)'
    BY DEF RelayInv, TypeOK, Settled, TxEnds, DeleteRow, Exists, Row
  <2>2. QED
    BY <2>1, OthersKeep DEF RelayInv, TxEnds, DeleteRow
<1>4. QED
  BY <1>1, <1>2, <1>3 DEF RelayInv

LEMMA ClaimKeeps ==
  ASSUME RelayInv, NEW r \in Relays, NEW locked \in SUBSET Ids, Claim(r, locked)
  PROVE  RelayInv'
<1>1. PICK batch \in SUBSET (Claimable \ locked) : Advance(r, batch)
  BY DEF Claim
<1>2. batch \in SUBSET Ids /\ \A e \in batch : Settled(e)
  BY <1>1 DEF Claimable, Exists, Settled
<1>3. UNCHANGED <<row, next, sent, faults>>
  BY DEF Claim
<1>4. Advanced(r, batch)
  BY <1>1, <1>2, AdvanceKeeps DEF RelayInv
<1>5. TypeOK' /\ IdsFresh'
  BY <1>3, <1>4 DEF Advanced, RelayInv, TypeOK, IdsFresh
<1>6. ASSUME NEW q \in Relays PROVE TickOK(q)'
  <2>1. CASE q = r
    BY <1>2, <1>3, <1>4, <2>1 DEF Advanced, TickOK, Settled
  <2>2. CASE q # r
    BY <1>3, <1>4, <2>2 DEF Advanced, RelayInv, TickOK, Settled
  <2>3. QED
    BY <2>1, <2>2
<1>7. QED
  BY <1>5, <1>6 DEF RelayInv

LEMMA PublishKeeps ==
  ASSUME RelayInv, NEW r \in Relays, Publish(r)
  PROVE  RelayInv'
<1> DEFINE i == relay[r].id
<1>1. i \in Ids /\ Settled(i)
  BY DEF RelayInv, TickOK, Publish, At
<1>2. /\ relay' \in [Relays -> Tick]
      /\ \A q \in Relays \ {r} : relay'[q] = relay[q]
      /\ relay'[r].pc \in {"mark", "fail"}
      /\ relay'[r].id = i /\ relay'[r].rest = relay[r].rest
  BY DEF RelayInv, TypeOK, Publish, Goto, Tick
<1>3. /\ sent' \in [Ids -> Nat]
      /\ \A e \in Ids : sent[e] > 0 => sent'[e] > 0
      /\ relay'[r].pc = "mark" => sent'[i] > 0
  BY <1>1 DEF RelayInv, TypeOK, Publish, Goto, Tick
<1>4. TypeOK' /\ IdsFresh'
  <2>1. UNCHANGED <<row, next>> /\ faults' \in 0..MaxFaults
    BY DEF RelayInv, TypeOK, Publish, Fault
  <2>2. QED
    BY <1>2, <1>3, <2>1 DEF RelayInv, TypeOK, IdsFresh
<1>5. ASSUME NEW q \in Relays PROVE TickOK(q)'
  <2>1. UNCHANGED row
    BY DEF Publish
  <2>2. CASE q = r
    BY <1>1, <1>2, <1>3, <2>1, <2>2 DEF RelayInv, TickOK, Settled
  <2>3. CASE q # r
    BY <1>2, <1>3, <2>1, <2>3, OthersKeep DEF RelayInv, Settled
  <2>4. QED
    BY <2>2, <2>3
<1>6. QED
  BY <1>4, <1>5 DEF RelayInv

LEMMA UpdateKeeps ==
  ASSUME RelayInv, NEW r \in Relays, markPublished(r) \/ markFailure(r)
  PROVE  RelayInv'
<1> DEFINE i == relay[r].id
<1>1. i \in Ids /\ Settled(i)
  BY DEF RelayInv, TickOK, markPublished, markFailure, At
<1>2. /\ row' \in [Ids -> Row]
      /\ \A e \in Ids : row'[e].state = row[e].state
  <2>1. row \in [Ids -> Row]
    BY DEF RelayInv, TypeOK
  <2>2. ASSUME NEW new \in Row, new.state = row[i].state, Update(i, new)
        PROVE  row' \in [Ids -> Row] /\ \A e \in Ids : row'[e].state = row[e].state
    BY <1>1, <2>1, <2>2 DEF Update
  <2>3. /\ [row[i] EXCEPT !.published = TRUE, !.attempts = @ + 1] \in Row
        /\ [row[i] EXCEPT !.attempts = @ + 1] \in Row
    <3>1. row[i] \in Row /\ row[i].attempts + 1 \in Nat
      BY <1>1, <2>1 DEF Row
    <3>2. QED
      BY <3>1 DEF Row
  <2>4. /\ [row[i] EXCEPT !.published = TRUE, !.attempts = @ + 1].state = row[i].state
        /\ [row[i] EXCEPT !.attempts = @ + 1].state = row[i].state
    BY <1>1, <2>1 DEF Row
  <2>5. CASE UNCHANGED row
    BY <2>1, <2>5
  <2>6. CASE Update(i, [row[i] EXCEPT !.published = TRUE, !.attempts = @ + 1])
    BY <2>2, <2>3, <2>4, <2>6
  <2>7. CASE Update(i, [row[i] EXCEPT !.attempts = @ + 1])
    BY <2>2, <2>3, <2>4, <2>7
  <2>8. QED
    BY <2>5, <2>6, <2>7 DEF markPublished, markFailure
<1>3. Advance(r, relay[r].rest) /\ UNCHANGED <<next, sent>> /\ faults' \in 0..MaxFaults
  BY DEF RelayInv, TypeOK, markPublished, markFailure, Fault
<1>4. Advanced(r, relay[r].rest)
  <2>1. relay[r].rest \in SUBSET Ids
    BY DEF RelayInv, TypeOK, Tick
  <2>2. QED
    BY <1>3, <2>1, AdvanceKeeps DEF RelayInv
<1>5. TypeOK' /\ IdsFresh'
  BY <1>2, <1>3, <1>4 DEF Advanced, RelayInv, TypeOK, IdsFresh
<1>6. ASSUME NEW q \in Relays PROVE TickOK(q)'
  <2>1. CASE q = r
    <3>1. relay[r].rest \in SUBSET Ids /\ \A e \in relay[r].rest : Settled(e)
      BY DEF RelayInv, TypeOK, Tick, TickOK
    <3>2. QED
      BY <1>2, <1>4, <2>1, <3>1 DEF Advanced, TickOK, Settled
  <2>2. CASE q # r
    BY <1>2, <1>3, <1>4, <2>2, OthersKeep DEF Advanced, RelayInv, Settled
  <2>3. QED
    BY <2>1, <2>2
<1>7. QED
  BY <1>5, <1>6 DEF RelayInv

LEMMA CrashKeeps ==
  ASSUME RelayInv, NEW r \in Relays, Crash(r)
  PROVE  RelayInv'
<1>1. TypeOK' /\ IdsFresh'
  BY DEF RelayInv, TypeOK, IdsFresh, Crash, Fault, Idle, Tick
<1>2. ASSUME NEW q \in Relays PROVE TickOK(q)'
  BY DEF RelayInv, TypeOK, TickOK, Settled, Crash, Idle
<1>3. QED
  BY <1>1, <1>2 DEF RelayInv

LEMMA NextKeeps == RelayInv /\ [Next]_vars => RelayInv'
<1> SUFFICES ASSUME RelayInv, [Next]_vars PROVE RelayInv'
  OBVIOUS
<1>1. CASE TxPublish
  BY <1>1, TxPublishKeeps
<1>2. CASE \E e \in Ids : TxEnds(e) \/ DeleteRow(e)
  BY <1>2, RowEventKeeps
<1>3. ASSUME NEW r \in Relays, NEW locked \in SUBSET Ids, Claim(r, locked) PROVE RelayInv'
  BY <1>3, ClaimKeeps
<1>4. ASSUME NEW r \in Relays, Relaying(r) \/ Crash(r) PROVE RelayInv'
  BY <1>4, PublishKeeps, UpdateKeeps, CrashKeeps DEF Relaying
<1>5. CASE UNCHANGED vars
  BY <1>5 DEF vars, RelayInv, TypeOK, IdsFresh, TickOK, Settled
<1>6. QED
  BY <1>1, <1>2, <1>3, <1>4, <1>5 DEF Next

\* The states of the relays and of their table are type correct.
THEOREM TypeCorrect == Spec => []TypeOK
<1>1. RelayInv => TypeOK
  BY DEF RelayInv
<1>2. QED
  BY <1>1, InitRelayInv, NextKeeps, PTL DEF Spec

-----------------------------------------------------------------------------
(* Every step is a step of the promise, or leaves it alone.                *)

LEMMA InitPromise == Init => Promise!Init
  BY DEF Init, Promise!Init, NoRow, Ids

LEMMA TxPublishPromised == ASSUME RelayInv, TxPublish PROVE UNCHANGED Promise!vars
  BY DEF RelayInv, TypeOK, IdsFresh, TxPublish, Row, Ids, Promise!vars

LEMMA TxEndsPromised ==
  ASSUME RelayInv, NEW e \in Ids, TxEnds(e)
  PROVE  Promise!Commit(e) \/ UNCHANGED Promise!vars
  BY DEF RelayInv, TypeOK, TxEnds, Row, Promise!Commit, Promise!vars

LEMMA DeleteRowPromised ==
  ASSUME RelayInv, NEW e \in Ids, DeleteRow(e)
  PROVE  Promise!Drop(e)
  BY DEF RelayInv, TypeOK, DeleteRow, Exists, Row, Promise!Drop

LEMMA PublishPromised ==
  ASSUME RelayInv, NEW r \in Relays, Publish(r)
  PROVE  Promise!Next \/ UNCHANGED Promise!vars
<1>1. PICK i \in Ids : i = relay[r].id
  BY DEF RelayInv, TickOK, Publish, At
<1>2. Settled(i) /\ UNCHANGED row
  BY <1>1 DEF RelayInv, TickOK, Publish, At
<1>3. sent' = [sent EXCEPT ![i] = @ + 1] \/ UNCHANGED sent
  BY <1>1 DEF Publish
<1>4. Promise!Deliver(i) \/ UNCHANGED Promise!vars
  BY <1>2, <1>3 DEF RelayInv, TypeOK, Settled, Promise!Deliver, Promise!vars
<1>5. QED
  BY <1>4 DEF Promise!Next

LEMMA MarkingPromised ==
  ASSUME RelayInv, NEW e \in Ids, sent[e] > 0, UNCHANGED sent,
         Update(e, [row[e] EXCEPT !.published = TRUE, !.attempts = @ + 1])
  PROVE  Promise!Mark(e) \/ UNCHANGED Promise!vars
<1>1. row \in [Ids -> Row]
  BY DEF RelayInv, TypeOK
<1>2. CASE ~Exists(e)
  BY <1>2 DEF Update, Promise!vars
<1>3. CASE Exists(e)
  <2>1. row' = [row EXCEPT ![e] = [row[e] EXCEPT !.published = TRUE, !.attempts = @ + 1]]
    BY <1>3 DEF Update
  <2>2. /\ \A f \in Ids : f # e => row'[f] = row[f]
        /\ row'[e].state = row[e].state /\ row'[e].published
        /\ row'[e].attempts = row[e].attempts + 1 /\ row[e].attempts \in Nat
    BY <1>1, <2>1 DEF Row
  <2>3. QED
    BY <1>1, <1>3, <2>2 DEF Promise!Mark
<1>4. QED
  BY <1>2, <1>3

LEMMA CountingPromised ==
  ASSUME RelayInv, NEW e \in Ids, UNCHANGED sent,
         Update(e, [row[e] EXCEPT !.attempts = @ + 1])
  PROVE  Promise!Drop(e) \/ UNCHANGED Promise!vars
<1>1. row \in [Ids -> Row]
  BY DEF RelayInv, TypeOK
<1>2. CASE ~Exists(e)
  BY <1>2 DEF Update, Promise!vars
<1>3. CASE Exists(e)
  <2>1. row' = [row EXCEPT ![e] = [row[e] EXCEPT !.attempts = @ + 1]]
    BY <1>3 DEF Update
  <2>2. /\ \A f \in Ids : f # e => row'[f] = row[f]
        /\ row'[e].state = row[e].state /\ row'[e].published = row[e].published
        /\ row'[e].attempts = row[e].attempts + 1 /\ row[e].attempts \in Nat
    BY <1>1, <2>1 DEF Row
  <2>3. CASE row'[e].attempts >= MaxAttempts
    BY <1>3, <2>2, <2>3 DEF Exists, Promise!Drop
  <2>4. CASE ~(row'[e].attempts >= MaxAttempts)
    BY <1>3, <2>2, <2>4 DEF Promise!vars
  <2>5. QED
    BY <2>3, <2>4
<1>4. QED
  BY <1>2, <1>3

LEMMA RelayUpdatePromised ==
  ASSUME RelayInv, NEW r \in Relays, markPublished(r) \/ markFailure(r)
  PROVE  Promise!Next \/ UNCHANGED Promise!vars
<1>1. PICK i \in Ids : i = relay[r].id
  BY DEF RelayInv, TickOK, At, markPublished, markFailure
<1>2. UNCHANGED sent
  BY DEF markPublished, markFailure
<1>3. CASE UNCHANGED row
  BY <1>2, <1>3 DEF Promise!vars
<1>4. CASE markPublished(r) /\ Update(i, [row[i] EXCEPT !.published = TRUE, !.attempts = @ + 1])
  <2>1. sent[i] > 0
    BY <1>1, <1>4 DEF markPublished, At, RelayInv, TickOK
  <2>2. Promise!Mark(i) \/ UNCHANGED Promise!vars
    BY <1>2, <1>4, <2>1, MarkingPromised
  <2>3. QED
    BY <2>2 DEF Promise!Next
<1>5. CASE Update(i, [row[i] EXCEPT !.attempts = @ + 1])
  <2>1. Promise!Drop(i) \/ UNCHANGED Promise!vars
    BY <1>2, <1>5, CountingPromised
  <2>2. QED
    BY <2>1 DEF Promise!Next
<1>6. QED
  BY <1>1, <1>3, <1>4, <1>5 DEF markPublished, markFailure

LEMMA StepPromised == RelayInv /\ [Next]_vars => [Promise!Next]_(Promise!vars)
<1> SUFFICES ASSUME RelayInv, [Next]_vars PROVE Promise!Next \/ UNCHANGED Promise!vars
  OBVIOUS
<1>1. CASE TxPublish
  BY <1>1, TxPublishPromised
<1>2. ASSUME NEW e \in Ids, TxEnds(e) \/ DeleteRow(e)
      PROVE  Promise!Next \/ UNCHANGED Promise!vars
  BY <1>2, TxEndsPromised, DeleteRowPromised DEF Promise!Next
<1>3. ASSUME NEW r \in Relays, Relaying(r)
      PROVE  Promise!Next \/ UNCHANGED Promise!vars
  BY <1>3, PublishPromised, RelayUpdatePromised DEF Relaying
<1>4. ASSUME NEW r \in Relays, Crash(r) \/ \E locked \in SUBSET Ids : Claim(r, locked)
      PROVE  UNCHANGED Promise!vars
  BY <1>4 DEF Crash, Claim, Promise!vars
<1>5. CASE UNCHANGED vars
  BY <1>5 DEF vars, Promise!vars
<1>6. QED
  BY <1>1, <1>2, <1>3, <1>4, <1>5 DEF Next

\* The relays refine the safety part of the promise: only committed events are
\* published, and a row is marked only once the broker has its event.
THEOREM RelaysKeepPromise == Spec => Promise!Safety
<1>1. QED
  BY InitRelayInv, NextKeeps, InitPromise, StepPromised, PTL DEF Spec, Promise!Safety

-----------------------------------------------------------------------------
(* Counting: the invariant.                                                *)

\* A relay is about to mark an event, or to count a failure for it, or still
\* has it in its batch.
Marks(r, e) == At(r, "mark") /\ relay[r].id = e
Fails(r, e) == At(r, "fail") /\ relay[r].id = e
Holds(r, e) == (At(r, "publish") /\ relay[r].id = e) \/ e \in relay[r].rest

Markers(e) == {r \in Relays : Marks(r, e)}
Failing(e) == {r \in Relays : Fails(r, e)}
Holders(e) == {r \in Relays : Holds(r, e)}

\* No relay claims an event that is not open any more.
Open(e) == row[e].state # "deleted" /\ ~row[e].published

\* A batch names an event once, and an idle relay has none.
BatchOK(r) ==
  /\ relay[r].id \notin relay[r].rest
  /\ relay[r].pc = "idle" => relay[r].rest = {}

\* While an event is open, each of its publishes is a relay's that is about to
\* mark it, or a failure's; once it is closed, only those who hold it may add one.
SendsCounted(e) ==
  /\ Open(e) => sent[e] <= Cardinality(Markers(e)) + faults
  /\ ~Open(e) => sent[e] + Cardinality(Holders(e)) <= Cardinality(Relays) + faults

\* The attempts of an unpublished row, and those about to be counted, failed.
AttemptsCounted(e) ==
  ~row[e].published => row[e].attempts + Cardinality(Failing(e)) <= faults

CountInv ==
  /\ RelayInv
  /\ \A r \in Relays : BatchOK(r)
  /\ \A e \in Ids : SendsCounted(e) /\ AttemptsCounted(e)

-----------------------------------------------------------------------------
(* Counting relays.                                                        *)

\* A set of relays in which only r may change grows or shrinks by r.
LEMMA CountMoves ==
  ASSUME NEW r \in Relays, NEW S \in SUBSET Relays, NEW T \in SUBSET Relays,
         \A q \in Relays \ {r} : q \in S <=> q \in T
  PROVE  /\ Cardinality(S) \in Nat /\ Cardinality(T) \in Nat
         /\ (r \in S <=> r \in T) => Cardinality(T) = Cardinality(S)
         /\ r \in S /\ r \notin T => Cardinality(T) = Cardinality(S) - 1
         /\ r \notin S /\ r \in T => Cardinality(T) = Cardinality(S) + 1
<1>1. IsFiniteSet(S) /\ IsFiniteSet(T)
  BY RelaysAssumption, FS_Subset
<1>2. Cardinality(S) \in Nat /\ Cardinality(T) \in Nat
  BY <1>1, FS_CardinalityType
<1>3. CASE r \in S <=> r \in T
  <2>1. S = T
    BY <1>3
  <2>2. QED
    BY <1>2, <1>3, <2>1
<1>4. CASE r \in S /\ r \notin T
  <2>1. T = S \ {r}
    BY <1>4
  <2>2. Cardinality(T) = Cardinality(S) - 1
    BY <1>1, <1>4, <2>1, FS_RemoveElement
  <2>3. QED
    BY <1>2, <1>4, <2>2
<1>5. CASE r \notin S /\ r \in T
  <2>1. T = S \cup {r}
    BY <1>5
  <2>2. Cardinality(T) = Cardinality(S) + 1
    BY <1>1, <1>5, <2>1, FS_AddElement
  <2>3. QED
    BY <1>2, <1>5, <2>2
<1>6. QED
  BY <1>3, <1>4, <1>5

\* A relay does not mark an event it still holds, so the two sets share the relays.
LEMMA MarkersBesideHolders ==
  ASSUME NEW e \in Ids, \A r \in Relays : BatchOK(r)
  PROVE  /\ Cardinality(Markers(e)) \in Nat /\ Cardinality(Holders(e)) \in Nat
         /\ Cardinality(Relays) \in Nat
         /\ Cardinality(Markers(e)) + Cardinality(Holders(e)) <= Cardinality(Relays)
<1> DEFINE M == Markers(e)
<1> DEFINE H == Holders(e)
<1>1. M \in SUBSET Relays /\ H \in SUBSET Relays /\ (M \cup H) \in SUBSET Relays
  BY DEF Markers, Holders
<1>2. IsFiniteSet(M) /\ IsFiniteSet(H)
  BY <1>1, RelaysAssumption, FS_Subset
<1>3. M \cap H = {}
  BY DEF Markers, Holders, Marks, Holds, BatchOK, At
<1>4. /\ Cardinality(M) \in Nat /\ Cardinality(H) \in Nat /\ Cardinality(Relays) \in Nat
      /\ Cardinality(M \cup H) <= Cardinality(Relays)
  <2> HIDE DEF M, H
  <2>1. Cardinality(M \cup H) <= Cardinality(Relays)
    BY <1>1, RelaysAssumption, FS_Subset
  <2>2. QED
    BY <1>2, <2>1, RelaysAssumption, FS_CardinalityType
<1>5. Cardinality(M \cup H) = Cardinality(M) + Cardinality(H)
  <2> HIDE DEF M, H
  <2>1. Cardinality(M \cup H) = Cardinality(M) + Cardinality(H) - Cardinality(M \cap H)
    BY <1>2, FS_Union
  <2>2. Cardinality(M \cap H) = 0
    BY <1>3, FS_EmptySet
  <2>3. QED
    BY <1>4, <2>1, <2>2
<1>6. QED
  BY <1>4, <1>5

\* When only relay r moves, each of the three sets changes by r at most.
LEMMA TalliesMove ==
  ASSUME NEW e \in Ids, NEW r \in Relays,
         \A q \in Relays \ {r} : relay'[q] = relay[q]
  PROVE  /\ Cardinality(Markers(e)) \in Nat /\ Cardinality(Markers(e))' \in Nat
         /\ (Marks(r, e) <=> Marks(r, e)') => Cardinality(Markers(e))' = Cardinality(Markers(e))
         /\ Marks(r, e) /\ ~Marks(r, e)' => Cardinality(Markers(e))' = Cardinality(Markers(e)) - 1
         /\ ~Marks(r, e) /\ Marks(r, e)' => Cardinality(Markers(e))' = Cardinality(Markers(e)) + 1
         /\ Cardinality(Failing(e)) \in Nat /\ Cardinality(Failing(e))' \in Nat
         /\ (Fails(r, e) <=> Fails(r, e)') => Cardinality(Failing(e))' = Cardinality(Failing(e))
         /\ Fails(r, e) /\ ~Fails(r, e)' => Cardinality(Failing(e))' = Cardinality(Failing(e)) - 1
         /\ ~Fails(r, e) /\ Fails(r, e)' => Cardinality(Failing(e))' = Cardinality(Failing(e)) + 1
         /\ Cardinality(Holders(e)) \in Nat /\ Cardinality(Holders(e))' \in Nat
         /\ (Holds(r, e) <=> Holds(r, e)') => Cardinality(Holders(e))' = Cardinality(Holders(e))
         /\ Holds(r, e) /\ ~Holds(r, e)' => Cardinality(Holders(e))' = Cardinality(Holders(e)) - 1
         /\ ~Holds(r, e) /\ Holds(r, e)' => Cardinality(Holders(e))' = Cardinality(Holders(e)) + 1
<1>1. /\ Markers(e) \in SUBSET Relays /\ Markers(e)' \in SUBSET Relays
      /\ \A q \in Relays \ {r} : q \in Markers(e) <=> q \in Markers(e)'
      /\ r \in Markers(e) <=> Marks(r, e)
      /\ r \in Markers(e)' <=> Marks(r, e)'
  BY DEF Markers, Marks, At
<1>2. /\ Failing(e) \in SUBSET Relays /\ Failing(e)' \in SUBSET Relays
      /\ \A q \in Relays \ {r} : q \in Failing(e) <=> q \in Failing(e)'
      /\ r \in Failing(e) <=> Fails(r, e)
      /\ r \in Failing(e)' <=> Fails(r, e)'
  BY DEF Failing, Fails, At
<1>3. /\ Holders(e) \in SUBSET Relays /\ Holders(e)' \in SUBSET Relays
      /\ \A q \in Relays \ {r} : q \in Holders(e) <=> q \in Holders(e)'
      /\ r \in Holders(e) <=> Holds(r, e)
      /\ r \in Holders(e)' <=> Holds(r, e)'
  BY DEF Holders, Holds, At
<1>4. /\ Cardinality(Markers(e)) \in Nat /\ Cardinality(Markers(e))' \in Nat
      /\ (Marks(r, e) <=> Marks(r, e)') => Cardinality(Markers(e))' = Cardinality(Markers(e))
      /\ Marks(r, e) /\ ~Marks(r, e)' => Cardinality(Markers(e))' = Cardinality(Markers(e)) - 1
      /\ ~Marks(r, e) /\ Marks(r, e)' => Cardinality(Markers(e))' = Cardinality(Markers(e)) + 1
  BY <1>1, CountMoves
<1>5. /\ Cardinality(Failing(e)) \in Nat /\ Cardinality(Failing(e))' \in Nat
      /\ (Fails(r, e) <=> Fails(r, e)') => Cardinality(Failing(e))' = Cardinality(Failing(e))
      /\ Fails(r, e) /\ ~Fails(r, e)' => Cardinality(Failing(e))' = Cardinality(Failing(e)) - 1
      /\ ~Fails(r, e) /\ Fails(r, e)' => Cardinality(Failing(e))' = Cardinality(Failing(e)) + 1
  BY <1>2, CountMoves
<1>6. /\ Cardinality(Holders(e)) \in Nat /\ Cardinality(Holders(e))' \in Nat
      /\ (Holds(r, e) <=> Holds(r, e)') => Cardinality(Holders(e))' = Cardinality(Holders(e))
      /\ Holds(r, e) /\ ~Holds(r, e)' => Cardinality(Holders(e))' = Cardinality(Holders(e)) - 1
      /\ ~Holds(r, e) /\ Holds(r, e)' => Cardinality(Holders(e))' = Cardinality(Holders(e)) + 1
  BY <1>3, CountMoves
<1>7. QED
  BY <1>4, <1>5, <1>6

-----------------------------------------------------------------------------
(* Counting: the steps keep it.                                            *)

Counts(e) == SendsCounted(e) /\ AttemptsCounted(e)

\* Advancing makes the relay hold its batch, and nothing else.
LEMMA AdvanceHolds ==
  ASSUME TypeOK, NEW r \in Relays, NEW batch \in SUBSET Ids, Advance(r, batch)
  PROVE  /\ \A q \in Relays \ {r} : relay'[q] = relay[q]
         /\ BatchOK(r)'
         /\ \A e \in Ids : ~Marks(r, e)' /\ ~Fails(r, e)' /\ (Holds(r, e)' <=> e \in batch)
<1> USE DEF Marks, Fails, Holds, At, BatchOK
<1>1. relay \in [Relays -> Tick]
  BY DEF TypeOK
<1>2. CASE batch = {} /\ relay' = [relay EXCEPT ![r] = Idle]
  BY <1>1, <1>2 DEF Idle, Ids
<1>3. ASSUME NEW b \in batch,
             relay' = [relay EXCEPT ![r] = [pc |-> "publish", id |-> b, rest |-> batch \ {b}]]
      PROVE  /\ \A q \in Relays \ {r} : relay'[q] = relay[q]
             /\ BatchOK(r)'
             /\ \A e \in Ids : ~Marks(r, e)' /\ ~Fails(r, e)' /\ (Holds(r, e)' <=> e \in batch)
  BY <1>1, <1>3
<1>4. QED
  BY <1>2, <1>3 DEF Advance

\* The numbers the counts are about.
LEMMA NumbersType ==
  ASSUME RelayInv, NEW e \in Ids
  PROVE  sent[e] \in Nat /\ row[e].attempts \in Nat /\ faults \in Nat
  BY DEF RelayInv, TypeOK, Row

LEMMA OtherBatches ==
  ASSUME CountInv, NEW r \in Relays, \A q \in Relays \ {r} : relay'[q] = relay[q], BatchOK(r)'
  PROVE  \A q \in Relays : BatchOK(q)'
  BY DEF CountInv, BatchOK

\* An event that closes: what was counted for it while it was open still is.
LEMMA ClosingKeeps ==
  ASSUME CountInv, NEW e \in Ids, Open(e)
  PROVE  sent[e] + Cardinality(Holders(e)) <= Cardinality(Relays) + faults
<1>1. sent[e] <= Cardinality(Markers(e)) + faults
  BY DEF CountInv, SendsCounted
<1>2. /\ Cardinality(Markers(e)) \in Nat /\ Cardinality(Holders(e)) \in Nat
      /\ Cardinality(Relays) \in Nat
      /\ Cardinality(Markers(e)) + Cardinality(Holders(e)) <= Cardinality(Relays)
  BY MarkersBesideHolders DEF CountInv
<1>3. QED
  BY <1>1, <1>2, NumbersType DEF CountInv

\* A transaction or a DELETE changes the state of one row only.
LEMMA RowStateCounts ==
  ASSUME CountInv, UNCHANGED <<sent, relay, faults>>, NEW e \in Ids,
         row'[e].published = row[e].published, row'[e].attempts = row[e].attempts,
         Open(e)' => Open(e)
  PROVE  Counts(e)'
<1>1. /\ Markers(e)' = Markers(e) /\ Failing(e)' = Failing(e) /\ Holders(e)' = Holders(e)
  BY DEF Markers, Failing, Holders, Marks, Fails, Holds, At
<1>2. AttemptsCounted(e)'
  BY <1>1 DEF CountInv, AttemptsCounted
<1>3. SendsCounted(e)'
  <2>1. CASE Open(e)'
    BY <1>1, <2>1 DEF CountInv, SendsCounted
  <2>2. CASE ~Open(e)' /\ ~Open(e)
    BY <1>1, <2>2 DEF CountInv, SendsCounted
  <2>3. CASE ~Open(e)' /\ Open(e)
    <3>1. sent[e] + Cardinality(Holders(e)) <= Cardinality(Relays) + faults
      BY <2>3, ClosingKeeps
    <3>2. QED
      BY <1>1, <2>3, <3>1 DEF SendsCounted
  <2>4. QED
    BY <2>1, <2>2, <2>3
<1>4. QED
  BY <1>2, <1>3 DEF Counts

LEMMA ProducerCounts ==
  ASSUME CountInv, TxPublish \/ \E e \in Ids : TxEnds(e) \/ DeleteRow(e)
  PROVE  (\A q \in Relays : BatchOK(q)') /\ \A e \in Ids : Counts(e)'
<1>1. UNCHANGED <<sent, relay, faults>>
  BY DEF TxPublish, TxEnds, DeleteRow
<1>2. row \in [Ids -> Row] /\ IdsFresh
  BY DEF CountInv, RelayInv, TypeOK
<1>3. ASSUME NEW e \in Ids
      PROVE  /\ row'[e].published = row[e].published /\ row'[e].attempts = row[e].attempts
             /\ Open(e)' => Open(e)
  <2>1. ASSUME NEW f \in Ids, NEW s \in {"open", "committed", "rolledback", "deleted"},
               row' = [row EXCEPT ![f].state = s], row[f].state # "deleted"
        PROVE  /\ row'[e].published = row[e].published /\ row'[e].attempts = row[e].attempts
               /\ Open(e)' => Open(e)
    BY <1>2, <2>1 DEF Open, Row
  <2>2. CASE TxPublish
    <3>1. next \in Ids /\ row' = [row EXCEPT ![next].state = "open"]
      BY <2>2 DEF TxPublish
    <3>2. row[next].state # "deleted"
      BY <1>2, <3>1 DEF IdsFresh, Ids
    <3>3. QED
      BY <2>1, <3>1, <3>2
  <2>3. CASE \E f \in Ids : TxEnds(f) \/ DeleteRow(f)
    BY <2>1, <2>3 DEF TxEnds, DeleteRow, Exists
  <2>4. QED
    BY <2>2, <2>3
<1>4. \A e \in Ids : Counts(e)'
  BY <1>1, <1>3, RowStateCounts
<1>5. \A q \in Relays : BatchOK(q)'
  BY <1>1 DEF CountInv, BatchOK
<1>6. QED
  BY <1>4, <1>5

\* A relay takes a batch of open events: no closed event gains a holder.
LEMMA ClaimCounts ==
  ASSUME CountInv, NEW r \in Relays, NEW locked \in SUBSET Ids, Claim(r, locked)
  PROVE  (\A q \in Relays : BatchOK(q)') /\ \A e \in Ids : Counts(e)'
<1>1. PICK batch \in SUBSET (Claimable \ locked) : Advance(r, batch)
  BY DEF Claim
<1>2. batch \in SUBSET Ids /\ \A e \in batch : Open(e)
  BY <1>1 DEF Claimable, Exists, Open
<1>3. UNCHANGED <<row, sent, faults>> /\ At(r, "idle")
  BY DEF Claim
<1>4. /\ \A q \in Relays \ {r} : relay'[q] = relay[q]
      /\ BatchOK(r)'
      /\ \A e \in Ids : ~Marks(r, e)' /\ ~Fails(r, e)' /\ (Holds(r, e)' <=> e \in batch)
  BY <1>1, <1>2, AdvanceHolds DEF CountInv, RelayInv
<1>5. \A e \in Ids : ~Marks(r, e) /\ ~Fails(r, e) /\ ~Holds(r, e)
  BY <1>3 DEF CountInv, BatchOK, Marks, Fails, Holds, At
<1>6. ASSUME NEW e \in Ids PROVE Counts(e)'
  <2>1. /\ Cardinality(Markers(e))' = Cardinality(Markers(e))
        /\ Cardinality(Failing(e))' = Cardinality(Failing(e))
        /\ ~Open(e) => Cardinality(Holders(e))' = Cardinality(Holders(e))
    BY <1>2, <1>4, <1>5, TalliesMove
  <2>2. Open(e)' <=> Open(e)
    BY <1>3 DEF Open
  <2>3. SendsCounted(e)'
    BY <1>3, <2>1, <2>2 DEF CountInv, SendsCounted
  <2>4. AttemptsCounted(e)'
    BY <1>3, <2>1 DEF CountInv, AttemptsCounted
  <2>5. QED
    BY <2>3, <2>4 DEF Counts
<1>7. QED
  BY <1>4, <1>6, OtherBatches

\* A publish turns a holder into a marker, or a failure into one that is counted.
LEMMA PublishCounts ==
  ASSUME CountInv, NEW r \in Relays, Publish(r)
  PROVE  (\A q \in Relays : BatchOK(q)') /\ \A e \in Ids : Counts(e)'
<1> DEFINE i == relay[r].id
<1>1. relay \in [Relays -> Tick] /\ sent \in [Ids -> Nat] /\ At(r, "publish") /\ i \in Ids
  BY DEF CountInv, RelayInv, TypeOK, TickOK, Publish, At
<1>2. PICK p \in {"mark", "fail"} :
        /\ Goto(r, p)
        /\ p = "mark" => sent' = [sent EXCEPT ![i] = @ + 1] /\ UNCHANGED faults
        /\ p = "fail" => faults' = faults + 1
                         /\ (sent' = [sent EXCEPT ![i] = @ + 1] \/ UNCHANGED sent)
  BY DEF Publish, Fault
<1>3. UNCHANGED row
  BY DEF Publish
<1>4. /\ \A q \in Relays \ {r} : relay'[q] = relay[q]
      /\ relay'[r].pc = p /\ relay'[r].id = i /\ relay'[r].rest = relay[r].rest
  BY <1>1, <1>2 DEF Goto, Tick
<1>5. BatchOK(r)'
  BY <1>4 DEF CountInv, BatchOK
<1>6. ASSUME NEW e \in Ids PROVE Counts(e)'
  <2>1. Open(e)' <=> Open(e)
    BY <1>3 DEF Open
  <2>2. sent[e] \in Nat /\ row[e].attempts \in Nat /\ faults \in Nat
    BY NumbersType DEF CountInv
  <2>3. Cardinality(Relays) \in Nat
    BY RelaysAssumption, FS_CardinalityType
  <2>4. /\ SendsCounted(e)
        /\ AttemptsCounted(e)
    BY DEF CountInv
  <2>5. CASE e # i
    <3>1. /\ ~Marks(r, e) /\ ~Marks(r, e)' /\ ~Fails(r, e) /\ ~Fails(r, e)'
          /\ Holds(r, e)' <=> Holds(r, e)
      BY <1>1, <1>4, <2>5 DEF Marks, Fails, Holds, At
    <3>2. /\ Cardinality(Markers(e)) \in Nat /\ Cardinality(Holders(e)) \in Nat
          /\ Cardinality(Failing(e)) \in Nat
          /\ Cardinality(Markers(e))' = Cardinality(Markers(e))
          /\ Cardinality(Failing(e))' = Cardinality(Failing(e))
          /\ Cardinality(Holders(e))' = Cardinality(Holders(e))
      BY <1>4, <3>1, TalliesMove
    <3>3. sent'[e] = sent[e] /\ (faults' = faults \/ faults' = faults + 1)
      BY <1>1, <1>2, <2>5
    <3>4. SendsCounted(e)'
      BY <2>1, <2>2, <2>3, <2>4, <3>2, <3>3 DEF SendsCounted
    <3>5. AttemptsCounted(e)'
      BY <1>3, <2>2, <2>4, <3>2, <3>3 DEF AttemptsCounted
    <3>6. QED
      BY <3>4, <3>5 DEF Counts
  <2>6. CASE e = i
    <3>1. /\ ~Marks(r, e) /\ ~Fails(r, e) /\ Holds(r, e) /\ ~Holds(r, e)'
          /\ Marks(r, e)' <=> p = "mark"
          /\ Fails(r, e)' <=> p = "fail"
      BY <1>1, <1>4, <2>6 DEF CountInv, BatchOK, Marks, Fails, Holds, At
    <3>2. /\ Cardinality(Markers(e)) \in Nat /\ Cardinality(Holders(e)) \in Nat
          /\ Cardinality(Failing(e)) \in Nat
          /\ Cardinality(Holders(e))' = Cardinality(Holders(e)) - 1
          /\ p = "mark" => /\ Cardinality(Markers(e))' = Cardinality(Markers(e)) + 1
                           /\ Cardinality(Failing(e))' = Cardinality(Failing(e))
          /\ p = "fail" => /\ Cardinality(Markers(e))' = Cardinality(Markers(e))
                           /\ Cardinality(Failing(e))' = Cardinality(Failing(e)) + 1
      BY <1>4, <3>1, TalliesMove
    <3>3. /\ p = "mark" => sent'[e] = sent[e] + 1 /\ faults' = faults
          /\ p = "fail" => (sent'[e] = sent[e] \/ sent'[e] = sent[e] + 1) /\ faults' = faults + 1
      BY <1>1, <1>2, <2>6
    <3>4. SendsCounted(e)'
      BY <2>1, <2>2, <2>3, <2>4, <3>2, <3>3 DEF SendsCounted
    <3>5. AttemptsCounted(e)'
      BY <1>3, <2>2, <2>4, <3>2, <3>3 DEF AttemptsCounted
    <3>6. QED
      BY <3>4, <3>5 DEF Counts
  <2>7. QED
    BY <2>5, <2>6
<1>7. QED
  BY <1>4, <1>5, <1>6, OtherBatches

\* After an update the relay goes on with the rest of its batch, which it held
\* already, and is no marker of its event any more.
LEMMA UpdateTallies ==
  ASSUME CountInv, NEW r \in Relays, At(r, "mark") \/ At(r, "fail"), Advance(r, relay[r].rest)
  PROVE  /\ \A q \in Relays : BatchOK(q)'
         /\ relay[r].id \in Ids
         /\ \A e \in Ids :
              /\ Cardinality(Markers(e)) \in Nat /\ Cardinality(Failing(e)) \in Nat
              /\ Cardinality(Holders(e)) \in Nat
              /\ Cardinality(Holders(e))' = Cardinality(Holders(e))
              /\ Cardinality(Markers(e))' =
                   IF At(r, "mark") /\ relay[r].id = e
                   THEN Cardinality(Markers(e)) - 1 ELSE Cardinality(Markers(e))
              /\ Cardinality(Failing(e))' =
                   IF At(r, "fail") /\ relay[r].id = e
                   THEN Cardinality(Failing(e)) - 1 ELSE Cardinality(Failing(e))
<1>1. relay[r].rest \in SUBSET Ids /\ relay[r].id \in Ids
  BY DEF CountInv, RelayInv, TypeOK, Tick, TickOK, At
<1>2. /\ \A q \in Relays \ {r} : relay'[q] = relay[q]
      /\ BatchOK(r)'
      /\ \A e \in Ids : /\ ~Marks(r, e)' /\ ~Fails(r, e)'
                        /\ (Holds(r, e)' <=> e \in relay[r].rest)
  BY <1>1, AdvanceHolds DEF CountInv, RelayInv
<1>3. \A e \in Ids : Holds(r, e) <=> e \in relay[r].rest
  BY DEF Holds, At
<1>4. ASSUME NEW e \in Ids
      PROVE  /\ Cardinality(Markers(e)) \in Nat /\ Cardinality(Failing(e)) \in Nat
             /\ Cardinality(Holders(e)) \in Nat
             /\ Cardinality(Holders(e))' = Cardinality(Holders(e))
             /\ Cardinality(Markers(e))' =
                  IF At(r, "mark") /\ relay[r].id = e
                  THEN Cardinality(Markers(e)) - 1 ELSE Cardinality(Markers(e))
             /\ Cardinality(Failing(e))' =
                  IF At(r, "fail") /\ relay[r].id = e
                  THEN Cardinality(Failing(e)) - 1 ELSE Cardinality(Failing(e))
  BY <1>2, <1>3, TalliesMove DEF Marks, Fails
<1>5. QED
  BY <1>1, <1>2, <1>4, OtherBatches

\* Marking closes the row, or costs a failure.
LEMMA MarkCounts ==
  ASSUME CountInv, NEW r \in Relays, markPublished(r)
  PROVE  (\A q \in Relays : BatchOK(q)') /\ \A e \in Ids : Counts(e)'
<1> DEFINE i == relay[r].id
<1>1. At(r, "mark") /\ ~At(r, "fail") /\ Advance(r, relay[r].rest) /\ UNCHANGED sent
  BY DEF markPublished, At
<1>2. row \in [Ids -> Row] /\ i \in Ids /\ Settled(i)
  BY <1>1 DEF CountInv, RelayInv, TypeOK, TickOK, At
<1>3. ASSUME NEW e \in Ids PROVE Counts(e)'
  <2>1. /\ sent[e] \in Nat /\ row[e].attempts \in Nat /\ faults \in Nat
        /\ Cardinality(Relays) \in Nat
    BY NumbersType, RelaysAssumption, FS_CardinalityType DEF CountInv
  <2>2. SendsCounted(e) /\ AttemptsCounted(e)
    BY DEF CountInv
  <2>3. /\ Cardinality(Markers(e)) \in Nat /\ Cardinality(Failing(e)) \in Nat
        /\ Cardinality(Holders(e)) \in Nat
        /\ Cardinality(Holders(e))' = Cardinality(Holders(e))
        /\ Cardinality(Failing(e))' = Cardinality(Failing(e))
        /\ e # i => Cardinality(Markers(e))' = Cardinality(Markers(e))
        /\ e = i => Cardinality(Markers(e))' = Cardinality(Markers(e)) - 1
    BY <1>1, UpdateTallies
  <2>4. CASE row' = [row EXCEPT ![i] = [row[i] EXCEPT !.published = TRUE, !.attempts = @ + 1]]
             /\ UNCHANGED faults /\ e = i
    <3>1. ~Open(e)' /\ row'[e].published
      BY <1>2, <2>4 DEF Open, Row
    <3>2. sent[e] + Cardinality(Holders(e)) <= Cardinality(Relays) + faults
      BY <2>2, ClosingKeeps DEF SendsCounted
    <3>3. SendsCounted(e)'
      BY <1>1, <2>3, <2>4, <3>1, <3>2 DEF SendsCounted
    <3>4. AttemptsCounted(e)'
      BY <3>1 DEF AttemptsCounted
    <3>5. QED
      BY <3>3, <3>4 DEF Counts
  <2>5. CASE row'[e] = row[e] /\ UNCHANGED faults /\ (e # i \/ ~Open(e))
    <3>1. Open(e)' <=> Open(e)
      BY <2>5 DEF Open
    <3>2. SendsCounted(e)'
      BY <1>1, <2>2, <2>3, <2>5, <3>1 DEF SendsCounted
    <3>3. AttemptsCounted(e)'
      BY <2>2, <2>3, <2>5 DEF AttemptsCounted
    <3>4. QED
      BY <3>2, <3>3 DEF Counts
  <2>6. CASE UNCHANGED row /\ faults' = faults + 1
    <3>1. Open(e)' <=> Open(e)
      BY <2>6 DEF Open
    <3>2. SendsCounted(e)'
      BY <1>1, <2>1, <2>2, <2>3, <2>6, <3>1 DEF SendsCounted
    <3>3. AttemptsCounted(e)'
      BY <2>1, <2>2, <2>3, <2>6 DEF AttemptsCounted
    <3>4. QED
      BY <3>2, <3>3 DEF Counts
  <2>7. CASE Update(i, [row[i] EXCEPT !.published = TRUE, !.attempts = @ + 1]) /\ UNCHANGED faults
    <3>1. CASE Exists(i)
      <4>1. row' = [row EXCEPT ![i] = [row[i] EXCEPT !.published = TRUE, !.attempts = @ + 1]]
        BY <2>7, <3>1 DEF Update
      <4>2. e # i => row'[e] = row[e]
        BY <1>2, <4>1
      <4>3. QED
        BY <2>4, <2>5, <2>7, <4>1, <4>2
    <3>2. CASE ~Exists(i)
      <4>1. row' = row /\ row[i].state = "deleted"
        BY <1>2, <2>7, <3>2 DEF Update, Exists, Settled
      <4>2. QED
        BY <2>5, <2>7, <4>1 DEF Open
    <3>3. QED
      BY <3>1, <3>2
  <2>8. QED
    BY <2>6, <2>7 DEF markPublished, Fault
<1>4. QED
  BY <1>1, <1>3, UpdateTallies

\* Counting a failure uses up one that was paid for when the publish failed.
LEMMA FailureCounts ==
  ASSUME CountInv, NEW r \in Relays, markFailure(r)
  PROVE  (\A q \in Relays : BatchOK(q)') /\ \A e \in Ids : Counts(e)'
<1> DEFINE i == relay[r].id
<1>1. At(r, "fail") /\ ~At(r, "mark") /\ Advance(r, relay[r].rest) /\ UNCHANGED sent
  BY DEF markFailure, At
<1>2. row \in [Ids -> Row] /\ i \in Ids
  BY <1>1 DEF CountInv, RelayInv, TypeOK, TickOK, At
<1>3. \/ /\ row' = [row EXCEPT ![i] = [row[i] EXCEPT !.attempts = @ + 1]]
         /\ UNCHANGED faults
      \/ UNCHANGED row /\ (faults' = faults \/ faults' = faults + 1)
  BY DEF markFailure, Update, Fault
<1>4. ASSUME NEW e \in Ids PROVE Counts(e)'
  <2>1. /\ sent[e] \in Nat /\ row[e].attempts \in Nat /\ faults \in Nat
        /\ Cardinality(Relays) \in Nat
    BY NumbersType, RelaysAssumption, FS_CardinalityType DEF CountInv
  <2>2. SendsCounted(e) /\ AttemptsCounted(e)
    BY DEF CountInv
  <2>3. /\ Cardinality(Markers(e)) \in Nat /\ Cardinality(Failing(e)) \in Nat
        /\ Cardinality(Holders(e)) \in Nat
        /\ Cardinality(Holders(e))' = Cardinality(Holders(e))
        /\ Cardinality(Markers(e))' = Cardinality(Markers(e))
        /\ e # i => Cardinality(Failing(e))' = Cardinality(Failing(e))
        /\ e = i => Cardinality(Failing(e))' = Cardinality(Failing(e)) - 1
    BY <1>1, UpdateTallies
  <2>4. /\ row'[e].published = row[e].published
        /\ row'[e].state = row[e].state
        /\ faults' = faults \/ faults' = faults + 1
        /\ row'[e].attempts = row[e].attempts
             \/ (e = i /\ row'[e].attempts = row[e].attempts + 1)
    BY <1>2, <1>3 DEF Row
  <2>5. SendsCounted(e)'
    <3>1. Open(e)' <=> Open(e)
      BY <2>4 DEF Open
    <3>2. QED
      BY <1>1, <2>1, <2>2, <2>3, <2>4, <3>1 DEF SendsCounted
  <2>6. AttemptsCounted(e)'
    BY <2>1, <2>2, <2>3, <2>4 DEF AttemptsCounted
  <2>7. QED
    BY <2>5, <2>6 DEF Counts
<1>5. QED
  BY <1>1, <1>4, UpdateTallies

\* A relay that dies leaves every set it was in, and that is a failure.
LEMMA CrashCounts ==
  ASSUME CountInv, NEW r \in Relays, Crash(r)
  PROVE  (\A q \in Relays : BatchOK(q)') /\ \A e \in Ids : Counts(e)'
<1>1. /\ \A q \in Relays \ {r} : relay'[q] = relay[q]
      /\ relay'[r] = Idle /\ faults' = faults + 1 /\ UNCHANGED <<row, sent>>
  BY DEF CountInv, RelayInv, TypeOK, Crash, Fault
<1>2. BatchOK(r)'
  BY <1>1 DEF BatchOK, Idle
<1>3. ASSUME NEW e \in Ids PROVE Counts(e)'
  <2>1. /\ sent[e] \in Nat /\ row[e].attempts \in Nat /\ faults \in Nat
        /\ Cardinality(Relays) \in Nat
    BY NumbersType, RelaysAssumption, FS_CardinalityType DEF CountInv
  <2>2. SendsCounted(e) /\ AttemptsCounted(e)
    BY DEF CountInv
  <2>3. ~Marks(r, e)' /\ ~Fails(r, e)' /\ ~Holds(r, e)'
    BY <1>1 DEF Marks, Fails, Holds, At, Idle, Ids
  <2>4. /\ Cardinality(Markers(e)) \in Nat /\ Cardinality(Markers(e))' \in Nat
        /\ Cardinality(Failing(e)) \in Nat /\ Cardinality(Failing(e))' \in Nat
        /\ Cardinality(Holders(e)) \in Nat /\ Cardinality(Holders(e))' \in Nat
        /\ Cardinality(Markers(e))' >= Cardinality(Markers(e)) - 1
        /\ Cardinality(Failing(e))' <= Cardinality(Failing(e))
        /\ Cardinality(Holders(e))' <= Cardinality(Holders(e))
    BY <1>1, <2>3, TalliesMove
  <2>5. Open(e)' <=> Open(e)
    BY <1>1 DEF Open
  <2>6. SendsCounted(e)'
    BY <1>1, <2>1, <2>2, <2>4, <2>5 DEF SendsCounted
  <2>7. AttemptsCounted(e)'
    BY <1>1, <2>1, <2>2, <2>4 DEF AttemptsCounted
  <2>8. QED
    BY <2>6, <2>7 DEF Counts
<1>4. QED
  BY <1>1, <1>2, <1>3, OtherBatches

LEMMA InitCountInv == Init => CountInv
<1> SUFFICES ASSUME Init PROVE CountInv
  OBVIOUS
<1>1. RelayInv
  BY InitRelayInv
<1>2. \A r \in Relays : BatchOK(r)
  BY DEF Init, Idle, BatchOK
<1>3. ASSUME NEW e \in Ids PROVE SendsCounted(e) /\ AttemptsCounted(e)
  <2>1. Failing(e) = {}
    BY DEF Init, Idle, Failing, Fails, At
  <2>2. Cardinality(Failing(e)) = 0
    BY <2>1, FS_EmptySet
  <2>3. Cardinality(Markers(e)) \in Nat
    BY <1>2, MarkersBesideHolders
  <2>4. row[e] = NoRow /\ sent[e] = 0 /\ faults = 0
    BY DEF Init
  <2>5. QED
    BY <2>2, <2>3, <2>4 DEF SendsCounted, AttemptsCounted, Open, NoRow
<1>4. QED
  BY <1>1, <1>2, <1>3 DEF CountInv

LEMMA CountInvStep == CountInv /\ [Next]_vars => CountInv'
<1> SUFFICES ASSUME CountInv, [Next]_vars PROVE CountInv'
  OBVIOUS
<1>1. RelayInv'
  BY NextKeeps DEF CountInv
<1>2. (\A q \in Relays : BatchOK(q)') /\ \A e \in Ids : Counts(e)'
  <2>1. CASE TxPublish \/ \E e \in Ids : TxEnds(e) \/ DeleteRow(e)
    BY <2>1, ProducerCounts
  <2>2. ASSUME NEW r \in Relays, NEW locked \in SUBSET Ids, Claim(r, locked)
        PROVE  (\A q \in Relays : BatchOK(q)') /\ \A e \in Ids : Counts(e)'
    BY <2>2, ClaimCounts
  <2>3. ASSUME NEW r \in Relays, Relaying(r) \/ Crash(r)
        PROVE  (\A q \in Relays : BatchOK(q)') /\ \A e \in Ids : Counts(e)'
    BY <2>3, PublishCounts, MarkCounts, FailureCounts, CrashCounts DEF Relaying
  <2>4. CASE UNCHANGED vars
    <3>1. \A q \in Relays : BatchOK(q)'
      BY <2>4 DEF CountInv, BatchOK, vars
    <3>2. ASSUME NEW e \in Ids PROVE Counts(e)'
      <4>1. Open(e)' => Open(e)
        BY <2>4 DEF Open, vars
      <4>2. QED
        BY <2>4, <4>1, RowStateCounts DEF vars
    <3>3. QED
      BY <3>1, <3>2
  <2>5. QED
    BY <2>1, <2>2, <2>3, <2>4 DEF Next
<1>3. QED
  BY <1>1, <1>2 DEF CountInv, Counts

-----------------------------------------------------------------------------
(* The theorems.                                                           *)

\* However many relays overlap and however they fail, the broker is handed an
\* event at most once by each relay and once for each failure.
THEOREM DuplicatesAreBounded == Spec => []DuplicatesBounded
<1>1. CountInv => DuplicatesBounded
  <2> SUFFICES ASSUME CountInv, NEW e \in Ids
               PROVE  sent[e] <= Cardinality(Relays) + faults
    BY DEF DuplicatesBounded
  <2>1. /\ Cardinality(Markers(e)) \in Nat /\ Cardinality(Holders(e)) \in Nat
        /\ Cardinality(Relays) \in Nat
        /\ Cardinality(Markers(e)) + Cardinality(Holders(e)) <= Cardinality(Relays)
    BY MarkersBesideHolders DEF CountInv
  <2>2. sent[e] \in Nat /\ faults \in Nat /\ SendsCounted(e)
    BY NumbersType DEF CountInv
  <2>3. QED
    BY <2>1, <2>2 DEF SendsCounted
<1>2. QED
  BY <1>1, InitCountInv, CountInvStep, PTL DEF Spec

\* A row that was never marked has at most one attempt per failure, so relays give
\* up on it only after MaxAttempts failures, and never because one succeeded.
THEOREM GivingUpHasCause == Spec => []GivesUpForCause
<1>1. CountInv => GivesUpForCause
  <2> SUFFICES ASSUME CountInv, NEW e \in Ids, ~row[e].published
               PROVE  row[e].attempts <= faults
    BY DEF GivesUpForCause
  <2>1. Failing(e) \in SUBSET Relays
    BY DEF Failing
  <2>2. Cardinality(Failing(e)) \in Nat
    BY <2>1, RelaysAssumption, FS_Subset, FS_CardinalityType
  <2>3. row[e].attempts \in Nat /\ faults \in Nat /\ AttemptsCounted(e)
    BY NumbersType DEF CountInv
  <2>4. QED
    BY <2>2, <2>3 DEF AttemptsCounted
<1>2. QED
  BY <1>1, InitCountInv, CountInvStep, PTL DEF Spec

=============================================================================
