------------------------------- MODULE Outbox -------------------------------
(***************************************************************************)
(* pkg/outbox: producers write an event to job_events in the transaction   *)
(* that updates the job, relays poll the unpublished rows, publish them    *)
(* with a broker confirm and mark them.  The claiming SELECT runs outside  *)
(* a transaction, so its row locks are gone when the relay publishes.      *)
(***************************************************************************)
EXTENDS Integers, FiniteSets

CONSTANTS
  Relays,       \* relay loops, one per service instance
  BatchSize,    \* RelayConfig.BatchSize
  MaxAttempts,  \* RelayConfig.MaxAttempts
  MaxEvents,    \* bound: ids taken from the sequence of job_events
  MaxFaults     \* bound: failed calls and crashes

ASSUME RelaysAssumption == IsFiniteSet(Relays)
ASSUME ConfigAssumption == BatchSize \in Nat \ {0} /\ MaxAttempts \in Nat \ {0}
ASSUME BoundsAssumption == MaxEvents \in Nat /\ MaxFaults \in Nat

VARIABLES
  row,     \* the rows of job_events by id, and what became of their transaction
  next,    \* next value of the id sequence
  sent,    \* how often the broker was handed each event
  relay,   \* local variables of each relay's tick
  faults   \* failed calls and crashes so far

vars == <<row, next, sent, relay, faults>>

Ids == 1..MaxEvents
Row == [state: {"none", "open", "committed", "rolledback", "deleted"},
        published: BOOLEAN, attempts: Nat]
NoRow == [state |-> "none", published |-> FALSE, attempts |-> 0]
Idle == [pc |-> "idle", id |-> 0, rest |-> {}]
Tick == [pc: {"idle", "publish", "mark", "fail"}, id: 0..MaxEvents, rest: SUBSET Ids]

Init ==
  /\ row = [e \in Ids |-> NoRow] /\ next = 1
  /\ sent = [e \in Ids |-> 0]
  /\ relay = [r \in Relays |-> Idle]
  /\ faults = 0

Fault == faults < MaxFaults /\ faults' = faults + 1
Exists(e) == row[e].state = "committed"
At(r, p) == relay[r].pc = p
Goto(r, p) == relay' = [relay EXCEPT ![r].pc = p]

-----------------------------------------------------------------------------
(* Producers: the id is taken at the INSERT, the row is seen at the COMMIT.*)

TxPublish ==
  /\ next \in Ids /\ next' = next + 1
  /\ row' = [row EXCEPT ![next].state = "open"]
  /\ UNCHANGED <<sent, relay, faults>>

TxEnds(e) ==
  /\ row[e].state = "open"
  /\ \E s \in {"committed", "rolledback"} : row' = [row EXCEPT ![e].state = s]
  /\ UNCHANGED <<next, sent, relay, faults>>

\* The job is deleted and its events with it (ON DELETE CASCADE).
DeleteRow(e) ==
  /\ Exists(e)
  /\ row' = [row EXCEPT ![e].state = "deleted"]
  /\ UNCHANGED <<next, sent, relay, faults>>

-----------------------------------------------------------------------------
(* tick.                                                                   *)

\* The batch goes on with its least id, or is done.
Advance(r, batch) ==
  \/ batch = {} /\ relay' = [relay EXCEPT ![r] = Idle]
  \/ \E e \in batch :
       /\ \A f \in batch : e <= f
       /\ relay' = [relay EXCEPT ![r] = [pc |-> "publish", id |-> e, rest |-> batch \ {e}]]

Claimable == {e \in Ids : Exists(e) /\ ~row[e].published /\ row[e].attempts < MaxAttempts}

\* The first BatchSize claimable rows in id order, less those a statement of
\* another relay holds locked at that moment (SKIP LOCKED).
Claim(r, locked) ==
  /\ At(r, "idle")
  /\ locked # {} => \E q \in Relays \ {r} : ~At(q, "idle")
  /\ \E batch \in SUBSET (Claimable \ locked) :
       LET left == (Claimable \ locked) \ batch
       IN /\ batch # {} /\ Cardinality(batch) <= BatchSize
          /\ left # {} => Cardinality(batch) = BatchSize
          /\ \A e \in batch, f \in left : e < f
          /\ Advance(r, batch)
  /\ UNCHANGED <<row, next, sent, faults>>

Publish_Unconfirmed(r) ==                \* wrong: marked without the broker's ack
  /\ At(r, "publish")
  /\ Goto(r, "mark")
  /\ sent' \in {sent, [sent EXCEPT ![relay[r].id] = @ + 1]}
  /\ UNCHANGED <<row, next, faults>>

\* A publish fails before or after the broker took the message.
Publish(r) ==
  /\ At(r, "publish")
  /\ LET handed == sent' = [sent EXCEPT ![relay[r].id] = @ + 1]
     IN \/ handed /\ Goto(r, "mark") /\ UNCHANGED faults
        \/ Fault /\ handed /\ Goto(r, "fail")
        \/ Fault /\ UNCHANGED sent /\ Goto(r, "fail")
  /\ UNCHANGED <<row, next>>

\* An UPDATE that finds no row is no error.
Update(e, new) == row' = IF Exists(e) THEN [row EXCEPT ![e] = new] ELSE row

markPublished_AttemptOnly(r) ==          \* wrong: published_at stays NULL
  /\ At(r, "mark")
  /\ LET e == relay[r].id
     IN Update(e, [row[e] EXCEPT !.attempts = @ + 1])
  /\ Advance(r, relay[r].rest)
  /\ UNCHANGED <<next, sent, faults>>

markPublished(r) ==
  /\ At(r, "mark")
  /\ LET e == relay[r].id
     IN \/ /\ Update(e, [row[e] EXCEPT !.published = TRUE, !.attempts = @ + 1])
           /\ UNCHANGED faults
        \/ Fault /\ UNCHANGED row                    \* logged only
  /\ Advance(r, relay[r].rest)
  /\ UNCHANGED <<next, sent>>

markFailure_Final(r) ==                  \* wrong: one failure uses up the attempts
  /\ At(r, "fail")
  /\ LET e == relay[r].id IN Update(e, [row[e] EXCEPT !.attempts = MaxAttempts])
  /\ Advance(r, relay[r].rest)
  /\ UNCHANGED <<next, sent, faults>>

markFailure(r) ==
  /\ At(r, "fail")
  /\ LET e == relay[r].id
     IN \/ Update(e, [row[e] EXCEPT !.attempts = @ + 1]) /\ UNCHANGED faults
        \/ Fault /\ UNCHANGED row
  /\ Advance(r, relay[r].rest)
  /\ UNCHANGED <<next, sent>>

\* The instance dies or its context is cancelled, and a new one starts.
Crash(r) ==
  /\ ~At(r, "idle") /\ Fault
  /\ relay' = [relay EXCEPT ![r] = Idle]
  /\ UNCHANGED <<row, next, sent>>

Relaying(r) == Publish(r) \/ markPublished(r) \/ markFailure(r)

Next ==
  \/ TxPublish
  \/ \E e \in Ids : TxEnds(e) \/ DeleteRow(e)
  \/ \E r \in Relays :
       Relaying(r) \/ Crash(r) \/ \E locked \in SUBSET Ids : Claim(r, locked)

\* The ticker goes on, row locks last a statement only, calls return.
Fairness == \A r \in Relays : WF_vars(Relaying(r)) /\ WF_vars(Claim(r, {}))

Spec == Init /\ [][Next]_vars
FairSpec == Spec /\ Fairness

-----------------------------------------------------------------------------
(* Properties.                                                             *)

TypeOK ==
  /\ row \in [Ids -> Row] /\ next \in 1..(MaxEvents + 1)
  /\ sent \in [Ids -> Nat]
  /\ relay \in [Relays -> Tick]
  /\ faults \in 0..MaxFaults

\* The relays implement the promise of the outbox: nothing of an open or
\* rolled back transaction is published, a row is marked only after its event
\* was handed over, and a committed event is published unless its row goes.
Promise == INSTANCE OutboxPromise WITH
  Events <- Ids,
  committed <- {e \in Ids : row[e].state \in {"committed", "deleted"}},
  delivered <- {e \in Ids : sent[e] > 0},
  marked <- {e \in Ids : row[e].published},
  dropped <- {e \in Ids : row[e].state = "deleted" \/ row[e].attempts >= MaxAttempts}
KeepsPromise == Promise!Spec

\* Relays overlap, since no lock outlives the claim, but no more than that: an
\* event is published at most once by each relay and once for each failure.
DuplicatesBounded ==
  \A e \in Ids : sent[e] <= Cardinality(Relays) + faults

\* A row the relays give up on had a failure for each of its attempts, so as
\* many as MaxAttempts allows: it is no victim of another relay's success.
GivesUpForCause ==
  \A e \in Ids : ~row[e].published => row[e].attempts <= faults
=============================================================================
