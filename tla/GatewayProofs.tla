--------------------------- MODULE GatewayProofs ---------------------------
(***************************************************************************)
(* Proof that the gateway keeps its promises: whatever calls fail, answers *)
(* are lost, requests overlap and processes crash, an id a client was told *)
(* or a cached response would tell is a queued job of that very request.   *)
(* And that lost answers never duplicate a job: what is counted for a key  *)
(* is its rows with the requests that may still insert one.                *)
(***************************************************************************)
EXTENDS Gateway, TLAPS, FiniteSetTheorems

\* Row j is a job of k whose message went out.
Kept(j, k) == jobs[j] = [key |-> k, queued |-> TRUE]

\* A request past the insert has a row with its own key, and one past the publish a row whose
\* message went out: what Promised leaves open between the two calls.
HandlerOK(r) ==
  /\ ~At(r, "idle") => KeyOf(r) \in Keys
  /\ At(r, "publish") => req[r].job \in JobIds /\ jobs[req[r].job].key = KeyOf(r)
  /\ At(r, "save") => req[r].job \in JobIds /\ Kept(req[r].job, KeyOf(r))
HandlersOK == \A r \in Requests : HandlerOK(r)

ToldOK == \A k \in Keys : \A j \in told[k] : Kept(j, k)
CacheOK == \A k \in Keys : cache[k] # 0 => Kept(cache[k], k)

PromiseInv == TypeOK /\ HandlersOK /\ ToldOK /\ CacheOK

\* No step takes a key from a row or a message back.
RowsGrow ==
  \A j \in JobIds : \A k \in Keys :
    /\ jobs[j].key = k => jobs'[j].key = k
    /\ Kept(j, k) => Kept(j, k)'

\* The request r alone moves, to a point where it owes no row.
StepsTo(r, pcs) ==
  \/ Done(r)
  \/ \E p \in pcs : Goto(r, p)
Owing == {"publish", "save"}

-----------------------------------------------------------------------------
LEMMA InitPromise == Init => PromiseInv
<1> SUFFICES ASSUME Init PROVE PromiseInv
  OBVIOUS
<1> USE LimitAssumption, BoundsAssumption
<1>1. req \in [Requests -> Request] /\ jobs \in [JobIds -> Rows \cup {NoRow}]
  BY DEF Init, Request, Pcs, Idle
<1>2. TypeOK
  <2>1. ttl \in BOOLEAN /\ healthy \in BOOLEAN
    BY Zenon DEF Init
  <2>2. count \in 0..Limit + 1 /\ cache \in [Keys -> 0..MaxJobs] /\ told \in [Keys -> SUBSET JobIds]
    BY DEF Init
  <2> QED BY <1>1, <2>1, <2>2 DEF Init, TypeOK
<1>3. HandlersOK
  BY DEF Init, HandlersOK, HandlerOK, Idle, At
<1>4. ToldOK /\ CacheOK
  BY DEF Init, ToldOK, CacheOK
<1> QED BY <1>2, <1>3, <1>4 DEF PromiseInv

\* Rows that only grow keep what was told and what is cached.
LEMMA PromisesStay ==
  ASSUME PromiseInv, RowsGrow
  PROVE  /\ told' = told => ToldOK'
         /\ cache' = cache => CacheOK'
         /\ \A r \in Requests : req'[r] = req[r] => HandlerOK(r)'
<1>1. told \in [Keys -> SUBSET JobIds] /\ cache \in [Keys -> 0..MaxJobs]
  BY DEF PromiseInv, TypeOK
<1>2. ASSUME told' = told PROVE ToldOK'
  BY <1>1, <1>2 DEF PromiseInv, ToldOK, RowsGrow
<1>3. ASSUME cache' = cache PROVE CacheOK'
  BY <1>1, <1>3, BoundsAssumption DEF PromiseInv, CacheOK, RowsGrow, JobIds
<1>4. ASSUME NEW r \in Requests, req'[r] = req[r] PROVE HandlerOK(r)'
  <2>1. HandlerOK(r)
    BY DEF PromiseInv, HandlersOK
  <2> QED BY <2>1, <1>4 DEF HandlerOK, At, KeyOf, RowsGrow, Kept
<1> QED BY <1>2, <1>3, <1>4

\* A step that leaves the rows alone.
LEMMA SameRows ==
  ASSUME PromiseInv, jobs' = jobs
  PROVE  RowsGrow
  BY DEF RowsGrow, Kept

\* The request of a step, once the others are known to be fine.
LEMMA OneMoves ==
  ASSUME PromiseInv, RowsGrow, NEW r \in Requests,
         NEW v, req' = [req EXCEPT ![r] = v], HandlerOK(r)'
  PROVE  HandlersOK'
<1>1. \A s \in Requests : s # r => req'[s] = req[s]
  BY DEF PromiseInv, TypeOK
<1>2. \A s \in Requests : s # r => HandlerOK(s)'
  BY <1>1, PromisesStay
<1> QED BY <1>2 DEF HandlersOK

\* Ending a request, or moving it to a point before its insert.
LEMMA MovesFreely ==
  ASSUME PromiseInv, RowsGrow, NEW r \in Requests, ~At(r, "idle"),
         StepsTo(r, Pcs \ (Owing \cup {"idle"}))
  PROVE  HandlersOK' /\ req' \in [Requests -> Request]
<1> USE DEF Pcs, Owing
<1>0. req \in [Requests -> Request] /\ HandlerOK(r)
  BY DEF PromiseInv, TypeOK, HandlersOK
<1>1. CASE Done(r)
  <2>1. req' = [req EXCEPT ![r] = Idle]
    BY <1>1 DEF Done
  <2>2. req'[r] = Idle /\ req' \in [Requests -> Request]
    BY <2>1, <1>0, BoundsAssumption DEF Idle, Request
  <2>3. HandlerOK(r)'
    BY <2>2 DEF HandlerOK, At, KeyOf, Idle
  <2> QED BY <2>1, <2>2, <2>3, OneMoves
<1>2. ASSUME NEW p \in Pcs \ (Owing \cup {"idle"}), Goto(r, p)
      PROVE  HandlersOK' /\ req' \in [Requests -> Request]
  <2>1. req' = [req EXCEPT ![r] = [req[r] EXCEPT !.pc = p]]
    BY <1>2, <1>0 DEF Goto, Request
  <2>2. req'[r] = [req[r] EXCEPT !.pc = p] /\ req[r] \in Request
    BY <2>1, <1>0
  <2>3. req'[r].pc = p /\ req'[r].key = req[r].key /\ req' \in [Requests -> Request]
    BY <2>1, <2>2, <1>0 DEF Request
  <2>4. HandlerOK(r)'
    BY <2>3, <1>0 DEF HandlerOK, At, KeyOf
  <2> QED BY <2>1, <2>3, <2>4, OneMoves
<1> QED BY <1>1, <1>2 DEF StepsTo

\* Faults, lost answers and overlaps only grow.
LEMMA BoundsGrow ==
  ASSUME PromiseInv
  PROVE  /\ Fault => (faults' \in Nat /\ lost' \in Nat /\ overlaps' \in Nat)
         /\ AnswerLost => (faults' \in Nat /\ lost' \in Nat /\ overlaps' \in Nat /\ told' = told)
         /\ UNCHANGED bounds => (faults' \in Nat /\ lost' \in Nat /\ overlaps' \in Nat)
  BY DEF PromiseInv, TypeOK, Fault, AnswerLost, bounds

-----------------------------------------------------------------------------
(* One lemma per action.                                                   *)

LEMMA SendStep ==
  ASSUME PromiseInv, NEW r \in Requests, NEW k \in Keys, Send(r, k)
  PROVE  PromiseInv'
<1>1. /\ req' = [req EXCEPT ![r] = [pc |-> "rate", key |-> k, job |-> 0]]
      /\ UNCHANGED <<count, ttl, cache, jobs, depth, polled, healthy, told, faults, lost>>
      /\ overlaps' \in Nat
  BY DEF Send, PromiseInv, TypeOK, limiter, admission
<1>2. RowsGrow
  BY <1>1, SameRows
<1>3. req' \in [Requests -> Request] /\ req'[r] = [pc |-> "rate", key |-> k, job |-> 0]
  <2>1. [pc |-> "rate", key |-> k, job |-> 0] \in Request
    BY BoundsAssumption DEF Request, Pcs
  <2>2. req \in [Requests -> Request]
    BY DEF PromiseInv, TypeOK
  <2> QED BY <1>1, <2>1, <2>2
<1>4. HandlerOK(r)'
  BY <1>3 DEF HandlerOK, At, KeyOf
<1>5. HandlersOK' /\ ToldOK' /\ CacheOK'
  BY <1>1, <1>2, <1>4, OneMoves, PromisesStay
<1> QED BY <1>1, <1>3, <1>5 DEF PromiseInv, TypeOK

LEMMA IncrStep ==
  ASSUME PromiseInv, NEW r \in Requests, Incr(r)
  PROVE  PromiseInv'
<1>1. /\ UNCHANGED <<ttl, cache, jobs, depth, polled, healthy, told>>
      /\ faults' \in Nat /\ lost' \in Nat /\ overlaps' \in Nat
  BY BoundsGrow DEF Incr, admission
<1>2. count \in 0..(Limit + 1) /\ Limit \in Nat \ {0}
  BY LimitAssumption DEF PromiseInv, TypeOK
<1>3. count' \in 0..(Limit + 1)
  <2>1. count' = (IF count > Limit THEN count ELSE count + 1) \/ count' = count
    BY DEF Incr
  <2> QED BY <2>1, <1>2
<1>4. AfterLimiter(r) \in {"lookup", "admit"}
  BY DEF AfterLimiter
<1>5. StepsTo(r, Pcs \ (Owing \cup {"idle"})) /\ ~At(r, "idle")
  <2>1. ~At(r, "idle")
    BY DEF Incr, At
  <2>2. CASE Goto(r, AfterLimiter(r))
    BY <2>1, <2>2, <1>4 DEF StepsTo, Pcs, Owing
  <2>3. CASE ~Goto(r, AfterLimiter(r))
    <3>1. /\ count' = IF count > Limit THEN count ELSE count + 1
          /\ CASE count' = 1                   -> Goto(r, "expire")
               [] count' > Limit               -> Done(r)
               [] count' > 1 /\ count' <= Limit -> Goto(r, AfterLimiter(r))
      BY <2>3 DEF Incr
    <3>2. count' = 1 \/ count' > Limit \/ (count' > 1 /\ count' <= Limit)
      BY <3>1, <1>2
    <3>3. CASE count' = 1
      <4>1. Goto(r, "expire")
        <5>1. ~(count' > Limit) /\ ~(count' > 1 /\ count' <= Limit)
          BY <3>3, <1>2
        <5> QED BY <3>1, <3>3, <5>1
      <4> QED BY <4>1, <2>1 DEF StepsTo, Pcs, Owing
    <3>4. CASE count' # 1
      <4>1. Done(r)
        BY <3>1, <3>2, <3>4, <1>2, <2>3
      <4> QED BY <4>1, <2>1 DEF StepsTo
    <3> QED BY <3>3, <3>4
  <2> QED BY <2>2, <2>3
<1>6. HandlersOK' /\ req' \in [Requests -> Request] /\ ToldOK' /\ CacheOK'
  BY <1>1, <1>5, SameRows, MovesFreely, PromisesStay
<1> QED BY <1>1, <1>2, <1>3, <1>6 DEF PromiseInv, TypeOK

LEMMA SetExpiryStep ==
  ASSUME PromiseInv, NEW r \in Requests, SetExpiry(r)
  PROVE  PromiseInv'
<1>1. /\ UNCHANGED <<count, cache, jobs, depth, polled, healthy, told>>
      /\ faults' \in Nat /\ lost' \in Nat /\ overlaps' \in Nat
  BY BoundsGrow DEF SetExpiry, admission
<1>2. ttl' \in BOOLEAN
  BY Zenon DEF SetExpiry, PromiseInv, TypeOK
<1>3. AfterLimiter(r) \in {"lookup", "admit"}
  BY DEF AfterLimiter
<1>4. StepsTo(r, Pcs \ (Owing \cup {"idle"})) /\ ~At(r, "idle")
  BY <1>3 DEF SetExpiry, At, StepsTo, Pcs, Owing
<1>5. HandlersOK' /\ req' \in [Requests -> Request] /\ ToldOK' /\ CacheOK'
  BY <1>1, <1>4, SameRows, MovesFreely, PromisesStay
<1> QED BY <1>1, <1>2, <1>5 DEF PromiseInv, TypeOK

LEMMA WindowEndsStep ==
  ASSUME PromiseInv, WindowEnds
  PROVE  PromiseInv'
<1>1. /\ UNCHANGED <<cache, jobs, depth, polled, healthy, req, told, faults, lost, overlaps>>
      /\ count' = 0 /\ ttl' \in BOOLEAN
  BY Zenon DEF WindowEnds, admission, bounds
<1>2. HandlersOK' /\ ToldOK' /\ CacheOK'
  BY <1>1, SameRows, PromisesStay DEF HandlersOK
<1> QED BY <1>1, <1>2, LimitAssumption DEF PromiseInv, TypeOK

LEMMA LookupStep ==
  ASSUME PromiseInv, NEW r \in Requests, Lookup(r)
  PROVE  PromiseInv'
<1>1. /\ UNCHANGED <<count, ttl, cache, jobs, depth, polled, healthy>>
      /\ faults' \in Nat /\ lost' \in Nat /\ overlaps' \in Nat
  BY BoundsGrow DEF Lookup, limiter, admission
<1>2. StepsTo(r, Pcs \ (Owing \cup {"idle"})) /\ ~At(r, "idle")
  BY DEF Lookup, At, StepsTo, Pcs, Owing
<1>3. RowsGrow /\ HandlersOK' /\ req' \in [Requests -> Request] /\ CacheOK'
  BY <1>1, <1>2, SameRows, MovesFreely, PromisesStay
<1>4. KeyOf(r) \in Keys /\ told \in [Keys -> SUBSET JobIds] /\ cache \in [Keys -> 0..MaxJobs]
  BY <1>2 DEF PromiseInv, TypeOK, HandlersOK, HandlerOK
<1>5. told' = told \/ (cache[KeyOf(r)] # 0 /\ Tell(KeyOf(r), cache[KeyOf(r)]))
  BY DEF Lookup, AnswerLost
<1>6. told' \in [Keys -> SUBSET JobIds] /\ ToldOK'
  <2>1. CASE told' = told
    BY <2>1, <1>3, <1>4, PromisesStay
  <2>2. CASE cache[KeyOf(r)] # 0 /\ Tell(KeyOf(r), cache[KeyOf(r)])
    <3>1. cache[KeyOf(r)] \in JobIds /\ Kept(cache[KeyOf(r)], KeyOf(r))
      BY <2>2, <1>4, BoundsAssumption DEF PromiseInv, CacheOK, JobIds
    <3>2. told' = [told EXCEPT ![KeyOf(r)] = @ \cup {cache[KeyOf(r)]}]
      BY <2>2 DEF Tell
    <3>3. told' \in [Keys -> SUBSET JobIds]
      BY <3>1, <3>2, <1>4
    <3>4. ASSUME NEW k \in Keys, NEW j \in told'[k] PROVE Kept(j, k)'
      BY <3>1, <3>2, <3>4, <1>1, <1>4 DEF PromiseInv, ToldOK, Kept
    <3> QED BY <3>3, <3>4 DEF ToldOK
  <2> QED BY <1>5, <2>1, <2>2
<1> QED BY <1>1, <1>3, <1>6 DEF PromiseInv, TypeOK

LEMMA SaveStep ==
  ASSUME PromiseInv, NEW r \in Requests, Save(r)
  PROVE  PromiseInv'
<1>1. /\ UNCHANGED <<count, ttl, jobs, depth, polled, healthy, told>>
      /\ faults' \in Nat /\ lost' \in Nat /\ overlaps' \in Nat
  BY BoundsGrow DEF Save, limiter, admission
<1>2. StepsTo(r, Pcs \ (Owing \cup {"idle"})) /\ ~At(r, "idle")
  BY DEF Save, At, StepsTo
<1>3. RowsGrow /\ HandlersOK' /\ req' \in [Requests -> Request] /\ ToldOK'
  BY <1>1, <1>2, SameRows, MovesFreely, PromisesStay
<1>4. /\ KeyOf(r) \in Keys /\ req[r].job \in JobIds /\ Kept(req[r].job, KeyOf(r))
      /\ cache \in [Keys -> 0..MaxJobs]
  BY <1>2 DEF Save, PromiseInv, TypeOK, HandlersOK, HandlerOK
<1>5. cache' = cache \/ cache' = [cache EXCEPT ![KeyOf(r)] = req[r].job]
  BY DEF Save
<1>6. cache' \in [Keys -> 0..MaxJobs]
  BY <1>4, <1>5, BoundsAssumption DEF JobIds
<1>7. CacheOK'
  BY <1>1, <1>4, <1>5 DEF PromiseInv, CacheOK, Kept
<1> QED BY <1>1, <1>3, <1>6, <1>7 DEF PromiseInv, TypeOK

LEMMA AdmitStep ==
  ASSUME PromiseInv, NEW r \in Requests, Admit(r)
  PROVE  PromiseInv'
<1>1. UNCHANGED <<count, ttl, cache, jobs, depth, polled, healthy, told, faults, lost, overlaps>>
  BY DEF Admit, limiter, admission, bounds
<1>2. StepsTo(r, Pcs \ (Owing \cup {"idle"})) /\ ~At(r, "idle")
  BY DEF Admit, At, StepsTo, Pcs, Owing
<1>3. HandlersOK' /\ req' \in [Requests -> Request] /\ ToldOK' /\ CacheOK'
  BY <1>1, <1>2, SameRows, MovesFreely, PromisesStay
<1> QED BY <1>1, <1>3 DEF PromiseInv, TypeOK

LEMMA PollStep ==
  ASSUME PromiseInv, Poll
  PROVE  PromiseInv'
<1>1. /\ UNCHANGED <<count, ttl, cache, jobs, depth, req, told, faults, lost, overlaps>>
      /\ polled' \in Nat
  BY DEF Poll, limiter, bounds, PromiseInv, TypeOK
<1>2. healthy' \in BOOLEAN
  BY Zenon DEF Poll
<1>3. HandlersOK' /\ ToldOK' /\ CacheOK'
  BY <1>1, SameRows, PromisesStay DEF HandlersOK
<1> QED BY <1>1, <1>2, <1>3 DEF PromiseInv, TypeOK

LEMMA ConsumeStep ==
  ASSUME PromiseInv, Consume
  PROVE  PromiseInv'
<1>1. /\ UNCHANGED <<count, ttl, cache, jobs, polled, healthy, req, told, faults, lost, overlaps>>
      /\ depth' \in Nat
  BY DEF Consume, limiter, admission, bounds, PromiseInv, TypeOK
<1>2. HandlersOK' /\ ToldOK' /\ CacheOK'
  BY <1>1, SameRows, PromisesStay DEF HandlersOK
<1> QED BY <1>1, <1>2 DEF PromiseInv, TypeOK

LEMMA CacheExpiresStep ==
  ASSUME PromiseInv, NEW k \in Keys, CacheExpires(k)
  PROVE  PromiseInv'
<1>1. /\ UNCHANGED <<count, ttl, jobs, depth, polled, healthy, req, told>>
      /\ faults' \in Nat /\ lost' \in Nat /\ overlaps' \in Nat
      /\ cache' = [cache EXCEPT ![k] = 0]
  BY BoundsGrow DEF CacheExpires, limiter, admission
<1>2. HandlersOK' /\ ToldOK'
  BY <1>1, SameRows, PromisesStay DEF HandlersOK
<1>3. CacheOK' /\ cache' \in [Keys -> 0..MaxJobs]
  BY <1>1, BoundsAssumption DEF PromiseInv, TypeOK, CacheOK, Kept
<1> QED BY <1>1, <1>2, <1>3 DEF PromiseInv, TypeOK

LEMMA CrashStep ==
  ASSUME PromiseInv, Crash
  PROVE  PromiseInv'
<1>1. /\ UNCHANGED <<count, ttl, cache, jobs, depth, told>>
      /\ faults' \in Nat /\ lost' \in Nat /\ overlaps' \in Nat
      /\ polled' = 0 /\ req' = [r \in Requests |-> Idle]
  BY BoundsGrow DEF Crash, limiter
<1>2. healthy' \in BOOLEAN
  BY Zenon DEF Crash
<1>3. req' \in [Requests -> Request] /\ HandlersOK'
  BY <1>1, BoundsAssumption DEF Request, Pcs, Idle, HandlersOK, HandlerOK, At
<1>4. ToldOK' /\ CacheOK'
  BY <1>1, SameRows, PromisesStay
<1> QED BY <1>1, <1>2, <1>3, <1>4 DEF PromiseInv, TypeOK

LEMMA InsertStep ==
  ASSUME PromiseInv, NEW r \in Requests, Insert(r)
  PROVE  PromiseInv'
<1>0. /\ req \in [Requests -> Request] /\ jobs \in [JobIds -> Rows \cup {NoRow}]
      /\ KeyOf(r) \in Keys /\ ~At(r, "idle")
  BY DEF Insert, PromiseInv, TypeOK, HandlersOK, HandlerOK, At
<1>1. /\ UNCHANGED <<count, ttl, cache, depth, polled, healthy, told>>
      /\ faults' \in Nat /\ lost' \in Nat /\ overlaps' \in Nat
  BY BoundsGrow DEF Insert, limiter, admission
<1>2. CASE Done(r) /\ UNCHANGED jobs
  <2>1. StepsTo(r, Pcs \ (Owing \cup {"idle"}))
    BY <1>2 DEF StepsTo
  <2>2. HandlersOK' /\ req' \in [Requests -> Request] /\ ToldOK' /\ CacheOK'
    BY <2>1, <1>0, <1>1, <1>2, SameRows, MovesFreely, PromisesStay
  <2> QED BY <1>1, <1>2, <2>2 DEF PromiseInv, TypeOK
<1>3. ASSUME NEW j \in JobIds, jobs[j] = NoRow,
             jobs' = [jobs EXCEPT ![j] = [key |-> KeyOf(r), queued |-> FALSE]],
             req' = [req EXCEPT ![r] = [pc |-> "publish", key |-> KeyOf(r), job |-> j]]
      PROVE  PromiseInv'
  <2>1. jobs' \in [JobIds -> Rows \cup {NoRow}]
    BY <1>0, <1>3 DEF Rows
  <2>2. RowsGrow
    <3>1. jobs[j].key \notin Keys
      BY <1>3, KeysAssumption DEF NoRow
    <3>2. \A i \in JobIds : i # j => jobs'[i] = jobs[i]
      BY <1>0, <1>3
    <3>3. ASSUME NEW i \in JobIds, NEW k \in Keys, jobs[i].key = k
          PROVE  jobs'[i] = jobs[i]
      BY <3>1, <3>2, <3>3
    <3>4. ASSUME NEW i \in JobIds, NEW k \in Keys, Kept(i, k)
          PROVE  jobs[i].key = k
      BY <3>4 DEF Kept
    <3> QED BY <3>3, <3>4 DEF RowsGrow, Kept
  <2>3. [pc |-> "publish", key |-> KeyOf(r), job |-> j] \in Request
    BY <1>0, BoundsAssumption DEF Request, Pcs, JobIds
  <2>4. /\ req'[r] = [pc |-> "publish", key |-> KeyOf(r), job |-> j]
        /\ req' \in [Requests -> Request]
    BY <2>3, <1>0, <1>3
  <2>5. HandlerOK(r)'
    BY <2>4, <1>0, <1>3 DEF HandlerOK, At, KeyOf
  <2>6. HandlersOK' /\ ToldOK' /\ CacheOK'
    BY <2>2, <2>5, <1>1, <1>3, OneMoves, PromisesStay
  <2> QED BY <1>1, <2>1, <2>4, <2>6 DEF PromiseInv, TypeOK
<1> QED BY <1>2, <1>3 DEF Insert

LEMMA PublishStep ==
  ASSUME PromiseInv, NEW r \in Requests, Publish(r)
  PROVE  PromiseInv'
<1>0. /\ req \in [Requests -> Request] /\ jobs \in [JobIds -> Rows \cup {NoRow}]
      /\ KeyOf(r) \in Keys /\ ~At(r, "idle")
      /\ req[r].job \in JobIds /\ jobs[req[r].job].key = KeyOf(r)
      /\ told \in [Keys -> SUBSET JobIds]
  BY DEF Publish, PromiseInv, TypeOK, HandlersOK, HandlerOK, At
<1>1. /\ UNCHANGED <<count, ttl, cache, polled, healthy>>
      /\ faults' \in Nat /\ lost' \in Nat /\ overlaps' \in Nat
  BY BoundsGrow DEF Publish, limiter, admission
<1>2. CASE Done(r) /\ UNCHANGED <<jobs, depth, told>>
  <2>1. StepsTo(r, Pcs \ (Owing \cup {"idle"}))
    BY <1>2 DEF StepsTo
  <2>2. HandlersOK' /\ req' \in [Requests -> Request] /\ ToldOK' /\ CacheOK'
    BY <2>1, <1>0, <1>1, <1>2, SameRows, MovesFreely, PromisesStay
  <2> QED BY <1>1, <1>2, <2>2 DEF PromiseInv, TypeOK
<1>3. ASSUME Queued(r), Done(r) \/ Goto(r, "save"),
             told' = told \/ Tell(KeyOf(r), req[r].job)
      PROVE  PromiseInv'
  <2>1. /\ jobs' = [jobs EXCEPT ![req[r].job].queued = TRUE] /\ depth' \in Nat
    BY <1>3 DEF Queued, PromiseInv, TypeOK
  <2>2. jobs[req[r].job] \in Rows
    BY <1>0, KeysAssumption DEF NoRow
  <2>3. jobs' \in [JobIds -> Rows \cup {NoRow}]
    BY <2>1, <2>2, <1>0 DEF Rows
  <2>4. jobs'[req[r].job] = [key |-> KeyOf(r), queued |-> TRUE]
    BY <2>1, <2>2, <1>0 DEF Rows
  <2>5. RowsGrow
    <3>1. \A i \in JobIds : i # req[r].job => jobs'[i] = jobs[i]
      BY <2>1, <1>0
    <3>2. ASSUME NEW i \in JobIds, NEW k \in Keys, jobs[i].key = k
          PROVE  jobs'[i] = jobs[i] \/ jobs'[i] = [key |-> k, queued |-> TRUE]
      BY <3>1, <3>2, <2>4, <1>0
    <3>3. ASSUME NEW i \in JobIds, NEW k \in Keys, Kept(i, k)
          PROVE  jobs[i].key = k
      BY <3>3 DEF Kept
    <3>4. ASSUME NEW i \in JobIds, NEW k \in Keys, jobs[i].key = k
          PROVE  jobs'[i].key = k
      <4>1. CASE jobs'[i] = jobs[i]
        BY <4>1, <3>4
      <4>2. CASE jobs'[i] = [key |-> k, queued |-> TRUE]
        BY <4>2
      <4> QED BY <4>1, <4>2, <3>2, <3>4
    <3>5. ASSUME NEW i \in JobIds, NEW k \in Keys, Kept(i, k)
          PROVE  Kept(i, k)'
      BY <3>2, <3>3, <3>5 DEF Kept
    <3> QED BY <3>4, <3>5 DEF RowsGrow
  <2>6. HandlersOK' /\ req' \in [Requests -> Request]
    <3>1. CASE Done(r)
      BY <3>1, <2>5, <1>0, MovesFreely DEF StepsTo
    <3>2. CASE Goto(r, "save")
      <4>1. /\ req' = [req EXCEPT ![r] = [req[r] EXCEPT !.pc = "save"]]
            /\ req[r] \in Request
        BY <3>2, <1>0 DEF Goto, Request
      <4>2. /\ req'[r].pc = "save" /\ req'[r].job = req[r].job /\ req'[r].key = KeyOf(r)
            /\ req' \in [Requests -> Request]
        BY <4>1, <1>0 DEF Request, Pcs, KeyOf
      <4>3. HandlerOK(r)'
        BY <4>2, <2>4, <1>0 DEF HandlerOK, At, KeyOf, Kept
      <4> QED BY <4>1, <4>2, <4>3, <2>5, OneMoves
    <3> QED BY <3>1, <3>2, <1>3
  <2>7. told' \in [Keys -> SUBSET JobIds] /\ ToldOK'
    <3>1. CASE told' = told
      BY <3>1, <2>5, <1>0, PromisesStay
    <3>2. CASE Tell(KeyOf(r), req[r].job)
      <4>1. told' = [told EXCEPT ![KeyOf(r)] = @ \cup {req[r].job}]
        BY <3>2 DEF Tell
      <4>2. told' \in [Keys -> SUBSET JobIds]
        BY <4>1, <1>0
      <4>3. ASSUME NEW k \in Keys, NEW j \in told'[k] PROVE Kept(j, k)'
        <5>1. CASE j \in told[k]
          BY <5>1, <2>5, <1>0 DEF PromiseInv, ToldOK, RowsGrow
        <5>2. CASE j \notin told[k]
          BY <5>2, <4>1, <4>3, <2>4, <1>0 DEF Kept
        <5> QED BY <5>1, <5>2
      <4> QED BY <4>2, <4>3 DEF ToldOK
    <3> QED BY <3>1, <3>2, <1>3
  <2>8. CacheOK'
    BY <2>5, <1>1, PromisesStay
  <2> QED BY <1>1, <2>1, <2>3, <2>6, <2>7, <2>8 DEF PromiseInv, TypeOK
<1> QED BY <1>2, <1>3 DEF Publish, AnswerLost

-----------------------------------------------------------------------------
LEMMA NextPromise ==
  ASSUME PromiseInv, [Next]_vars
  PROVE  PromiseInv'
<1>1. ASSUME NEW r \in Requests, Handler(r) PROVE PromiseInv'
  BY <1>1, IncrStep, SetExpiryStep, LookupStep, AdmitStep, InsertStep, PublishStep, SaveStep
     DEF Handler
<1>2. CASE UNCHANGED vars
  <2>1. UNCHANGED <<count, ttl, cache, jobs, depth, polled, healthy, req, told, faults, lost,
                    overlaps>>
    BY <1>2 DEF vars
  <2>2. HandlersOK' /\ ToldOK' /\ CacheOK'
    BY <2>1, SameRows, PromisesStay DEF HandlersOK
  <2> QED BY <2>1, <2>2 DEF PromiseInv, TypeOK
<1> QED
  BY <1>1, <1>2, SendStep, WindowEndsStep, PollStep, ConsumeStep, CrashStep, CacheExpiresStep
     DEF Next

LEMMA PromiseInvImplies == PromiseInv => Promised
  BY DEF PromiseInv, Promised, ToldOK, CacheOK, Kept

\* Every id a client was told by CreateJob or by a replay, and every id in the response cache,
\* is a row of that request whose message went out: for any number of requests and keys, any
\* limits, and whatever fails, crashes, overlaps or is lost.
THEOREM PromisesKept == Spec => []Promised
<1>1. Init => PromiseInv
  BY InitPromise
<1>2. PromiseInv /\ [Next]_vars => PromiseInv'
  BY NextPromise
<1>3. PromiseInv => Promised
  BY PromiseInvImplies
<1> QED BY <1>1, <1>2, <1>3, PTL DEF Spec

-----------------------------------------------------------------------------
(* Lost answers never duplicate a job.  What is counted for a key is its   *)
(* rows, the running requests that may still insert one, and the request   *)
(* the client may send for nothing when none of its own is running.        *)

Before == {"rate", "expire", "lookup", "admit", "insert"}
May(k) == {r \in Requests : KeyOf(r) = k /\ req[r].pc \in Before}
\* Past the cache nothing keeps a request from inserting.
Sure(k) == {r \in Requests : KeyOf(r) = k /\ req[r].pc \in {"admit", "insert"}}
Free(k) == IF Running(k) THEN 0 ELSE 1
Paid == faults + overlaps
Claims(k) == Cardinality(JobsOf(k)) + Cardinality(May(k)) + Free(k)

\* A cached response stops one request more than are paid for.
KeyOK(k) ==
  /\ Cardinality(JobsOf(k)) + Cardinality(Sure(k)) <= 1 + Paid
  /\ Claims(k) <= 2 + Paid
  /\ cache[k] = 0 => Claims(k) <= 1 + Paid
KeyInv == \A k \in Small : KeyOK(k)

LEMMA Counts ==
  ASSUME PromiseInv, NEW k
  PROVE  /\ IsFiniteSet(JobsOf(k)) /\ Cardinality(JobsOf(k)) \in Nat
         /\ IsFiniteSet(May(k)) /\ Cardinality(May(k)) \in Nat
         /\ IsFiniteSet(Sure(k)) /\ Cardinality(Sure(k)) \in Nat
         /\ Cardinality(Sure(k)) <= Cardinality(May(k))
         /\ Free(k) \in {0, 1} /\ Paid \in Nat
<1>1. IsFiniteSet(JobIds)
  BY BoundsAssumption, FS_Interval DEF JobIds
<1>2. IsFiniteSet(JobsOf(k)) /\ IsFiniteSet(May(k)) /\ IsFiniteSet(Sure(k))
  BY <1>1, RequestsAssumption, FS_Subset DEF JobsOf, May, Sure
<1>3. Sure(k) \in SUBSET May(k)
  BY DEF Sure, May, Before
<1>4. Cardinality(Sure(k)) <= Cardinality(May(k))
  BY <1>2, <1>3, FS_Subset
<1>5. Free(k) \in {0, 1} /\ Paid \in Nat
  BY DEF Free, Paid, PromiseInv, TypeOK
<1> QED BY <1>2, <1>4, <1>5, FS_CardinalityType

\* Requests that go, and one that is left.
Fewer(k) ==
  /\ Cardinality(May(k)') <= Cardinality(May(k))
  /\ Cardinality(Sure(k)') <= Cardinality(Sure(k))
  /\ May(k) \subseteq May(k)' \/ Cardinality(May(k)') <= Cardinality(May(k)) - 1

LEMMA FewerRequests ==
  ASSUME PromiseInv, PromiseInv', NEW k, May(k)' \subseteq May(k), Sure(k)' \subseteq Sure(k)
  PROVE  Fewer(k)
<1>1. /\ Cardinality(May(k)') <= Cardinality(May(k)) /\ Cardinality(Sure(k)') <= Cardinality(Sure(k))
      /\ Cardinality(May(k)) = Cardinality(May(k)') => May(k) = May(k)'
  BY Counts, FS_Subset
<1>2. Cardinality(May(k)) \in Nat /\ Cardinality(May(k)') \in Nat
  BY Counts, FS_CardinalityType, FS_Subset
<1> QED BY <1>1, <1>2 DEF Fewer

LEMMA CountsNext ==
  ASSUME PromiseInv', NEW k
  PROVE  /\ IsFiniteSet(JobsOf(k)') /\ Cardinality(JobsOf(k)') \in Nat
         /\ IsFiniteSet(May(k)') /\ Cardinality(May(k)') \in Nat
         /\ IsFiniteSet(Sure(k)') /\ Cardinality(Sure(k)') \in Nat
         /\ Cardinality(Sure(k)') <= Cardinality(May(k)')
         /\ Free(k)' \in {0, 1} /\ Paid' \in Nat
<1>1. (PromiseInv => /\ IsFiniteSet(JobsOf(k)) /\ Cardinality(JobsOf(k)) \in Nat
         /\ IsFiniteSet(May(k)) /\ Cardinality(May(k)) \in Nat
         /\ IsFiniteSet(Sure(k)) /\ Cardinality(Sure(k)) \in Nat
         /\ Cardinality(Sure(k)) <= Cardinality(May(k))
         /\ Free(k) \in {0, 1} /\ Paid \in Nat)'
  BY Counts, PTL
<1> QED BY <1>1

\* A request of k that ends without a row leaves its place to the next one.
LEMMA ClaimsKept ==
  ASSUME PromiseInv, PromiseInv', NEW k \in Small, KeyOK(k),
         JobsOf(k)' = JobsOf(k), May(k)' \subseteq May(k), Sure(k)' \subseteq Sure(k),
         Running(k) => Running(k)' \/ May(k)' # May(k),
         cache'[k] = cache[k], Paid' >= Paid
  PROVE  KeyOK(k)'
<1>1. Fewer(k)
  BY FewerRequests
<1>2. Claims(k)' <= Claims(k)
  <2>1. CASE Free(k)' <= Free(k)
    BY <1>1, <2>1, Counts, CountsNext DEF Fewer, Claims
  <2>2. CASE ~(Free(k)' <= Free(k))
    <3>1. Running(k) /\ ~Running(k)'
      BY <2>2 DEF Free
    <3>2. Cardinality(May(k)') <= Cardinality(May(k)) - 1
      BY <1>1, <3>1 DEF Fewer
    <3> QED BY <3>2, Counts, CountsNext DEF Claims
  <2> QED BY <2>1, <2>2
<1>3. Claims(k) \in Nat /\ Claims(k)' \in Nat
  BY Counts, CountsNext DEF Claims
<1> QED BY <1>1, <1>2, <1>3, Counts, CountsNext DEF Fewer, KeyOK

\* A fault pays for the request that gets past the cache, and for the next one.
LEMMA ClaimsFault ==
  ASSUME PromiseInv, PromiseInv', NEW k \in Small, KeyOK(k),
         JobsOf(k)' = JobsOf(k), May(k)' \subseteq May(k), NEW r, Sure(k)' \subseteq Sure(k) \cup {r},
         cache'[k] = cache[k] \/ (cache'[k] = 0 /\ Claims(k)' <= Claims(k)), Paid' = Paid + 1
  PROVE  KeyOK(k)'
<1>1. Cardinality(May(k)') <= Cardinality(May(k))
  BY Counts, FS_Subset
<1>2. Cardinality(Sure(k)') <= Cardinality(Sure(k)) + 1
  <2>1. /\ IsFiniteSet(Sure(k) \cup {r})
        /\ Cardinality(Sure(k) \cup {r}) = IF r \in Sure(k) THEN Cardinality(Sure(k)) ELSE Cardinality(Sure(k)) + 1
    BY Counts, FS_AddElement
  <2>2. Cardinality(Sure(k)') <= Cardinality(Sure(k) \cup {r})
    BY <2>1, FS_Subset
  <2> QED BY <2>1, <2>2, Counts, CountsNext
<1>3. Claims(k)' <= Claims(k) + 1
  BY <1>1, Counts, CountsNext DEF Claims
<1>4. Claims(k) \in Nat /\ Claims(k)' \in Nat
  BY Counts, CountsNext DEF Claims
<1> QED BY <1>2, <1>3, <1>4, Counts, CountsNext DEF KeyOK

\* A look at an empty cache lets the request go on.
LEMMA ClaimsMiss ==
  ASSUME PromiseInv, PromiseInv', NEW k \in Small, KeyOK(k), cache[k] = 0,
         JobsOf(k)' = JobsOf(k), May(k)' \subseteq May(k), Running(k)',
         cache'[k] = cache[k], Paid' = Paid
  PROVE  KeyOK(k)'
<1>1. Cardinality(May(k)') <= Cardinality(May(k))
  BY Counts, FS_Subset
<1>2. Free(k)' = 0
  BY DEF Free
<1>3. Claims(k)' <= Claims(k)
  BY <1>1, <1>2, Counts, CountsNext DEF Claims
<1>4. Cardinality(JobsOf(k)') + Cardinality(Sure(k)') <= Claims(k)'
  BY Counts, CountsNext DEF Claims
<1>5. Claims(k) \in Nat /\ Claims(k)' \in Nat
  BY Counts, CountsNext DEF Claims
<1> QED BY <1>3, <1>4, <1>5, Counts, CountsNext DEF KeyOK

\* A row is inserted by one that might.
LEMMA ClaimsRow ==
  ASSUME PromiseInv, PromiseInv', NEW k \in Small, KeyOK(k),
         NEW j, JobsOf(k)' \subseteq JobsOf(k) \cup {j}, Running(k)',
         NEW r \in Sure(k), May(k)' \subseteq May(k) \ {r}, Sure(k)' \subseteq Sure(k) \ {r},
         cache'[k] = cache[k], Paid' = Paid
  PROVE  KeyOK(k)'
<1>1. Cardinality(JobsOf(k)') <= Cardinality(JobsOf(k)) + 1
  <2>1. /\ IsFiniteSet(JobsOf(k) \cup {j})
        /\ Cardinality(JobsOf(k) \cup {j}) = IF j \in JobsOf(k) THEN Cardinality(JobsOf(k)) ELSE Cardinality(JobsOf(k)) + 1
    BY Counts, FS_AddElement
  <2>2. Cardinality(JobsOf(k)') <= Cardinality(JobsOf(k) \cup {j})
    BY <2>1, FS_Subset
  <2> QED BY <2>1, <2>2, Counts, CountsNext
<1>2. Cardinality(May(k)') <= Cardinality(May(k)) - 1
  <2>1. r \in May(k)
    BY DEF Sure, May, Before
  <2>2. IsFiniteSet(May(k) \ {r}) /\ Cardinality(May(k) \ {r}) = Cardinality(May(k)) - 1
    BY <2>1, Counts, FS_RemoveElement
  <2> QED BY <2>2, FS_Subset
<1>3. Cardinality(Sure(k)') <= Cardinality(Sure(k)) - 1
  <2>1. IsFiniteSet(Sure(k) \ {r}) /\ Cardinality(Sure(k) \ {r}) = Cardinality(Sure(k)) - 1
    BY Counts, FS_RemoveElement
  <2> QED BY <2>1, FS_Subset
<1>4. Free(k)' = 0
  BY DEF Free
<1>5. Claims(k)' <= Claims(k)
  BY <1>1, <1>2, <1>4, Counts, CountsNext DEF Claims
<1>6. Claims(k) \in Nat /\ Claims(k)' \in Nat
  BY Counts, CountsNext DEF Claims
<1> QED BY <1>1, <1>3, <1>5, <1>6, Counts, CountsNext DEF KeyOK

\* The response is cached: one more request may come, and will be answered from the cache.
LEMMA ClaimsCached ==
  ASSUME PromiseInv, PromiseInv', NEW k \in Small, KeyOK(k),
         JobsOf(k)' = JobsOf(k), May(k)' \subseteq May(k), Sure(k)' \subseteq Sure(k),
         cache'[k] # 0, Paid' = Paid
  PROVE  KeyOK(k)'
<1>1. Cardinality(May(k)') <= Cardinality(May(k)) /\ Cardinality(Sure(k)') <= Cardinality(Sure(k))
  BY Counts, FS_Subset
<1>2. Claims(k) \in Nat /\ Claims(k)' \in Nat
  BY Counts, CountsNext DEF Claims
<1>3. CASE Running(k)'
  <2>1. Free(k)' = 0
    BY <1>3 DEF Free
  <2>2. Claims(k)' <= Claims(k)
    BY <1>1, <2>1, Counts, CountsNext DEF Claims
  <2> QED BY <1>1, <1>2, <2>2, Counts, CountsNext DEF KeyOK
<1>4. CASE ~Running(k)'
  <2>1. May(k)' = {}
    BY <1>4 DEF May, Running, Before, At, KeyOf
  <2>2. Cardinality(May(k)') = 0
    BY <2>1, FS_EmptySet
  <2>3. Claims(k)' <= 1 + Cardinality(JobsOf(k))
    BY <2>2, Counts, CountsNext DEF Claims
  <2> QED BY <1>1, <1>2, <2>3, Counts, CountsNext DEF KeyOK
<1> QED BY <1>3, <1>4

\* The client sends when none of its requests is running, or pays for it.
LEMMA ClaimsSent ==
  ASSUME PromiseInv, PromiseInv', NEW k \in Small, KeyOK(k),
         JobsOf(k)' = JobsOf(k), NEW r, May(k)' \subseteq May(k) \cup {r}, Sure(k)' \subseteq Sure(k),
         Running(k)', IF Running(k) THEN Paid' = Paid + 1 ELSE Paid' = Paid, cache'[k] = cache[k]
  PROVE  KeyOK(k)'
<1>1. Cardinality(May(k)') <= Cardinality(May(k)) + 1
  <2>1. /\ IsFiniteSet(May(k) \cup {r})
        /\ Cardinality(May(k) \cup {r}) = IF r \in May(k) THEN Cardinality(May(k)) ELSE Cardinality(May(k)) + 1
    BY Counts, FS_AddElement
  <2>2. Cardinality(May(k)') <= Cardinality(May(k) \cup {r})
    BY <2>1, FS_Subset
  <2> QED BY <2>1, <2>2, Counts, CountsNext
<1>2. Cardinality(Sure(k)') <= Cardinality(Sure(k))
  BY Counts, FS_Subset
<1>3. Claims(k) \in Nat /\ Claims(k)' \in Nat /\ Free(k)' = 0
  BY Counts, CountsNext DEF Claims, Free
<1>4. CASE Running(k)
  <2>1. Claims(k)' <= Claims(k) + 1
    BY <1>1, <1>3, Counts, CountsNext DEF Claims
  <2> QED BY <1>2, <1>3, <1>4, <2>1, Counts, CountsNext DEF KeyOK
<1>5. CASE ~Running(k)
  <2>1. Free(k) = 1
    BY <1>5 DEF Free
  <2>2. Claims(k)' <= Claims(k)
    BY <1>1, <1>3, <2>1, Counts, CountsNext DEF Claims
  <2> QED BY <1>2, <1>3, <1>5, <2>2, Counts, CountsNext DEF KeyOK
<1> QED BY <1>4, <1>5

-----------------------------------------------------------------------------
(* What a step of request r does to the requests of a key.                 *)

Others(r) == \A s \in Requests : s # r => req'[s] = req[s]
Ends(r) == Others(r) /\ req'[r].pc = "idle" /\ req'[r].key = "none"
Goes(r, p) == Others(r) /\ req'[r].pc = p /\ req'[r].key = KeyOf(r)
KeysKept(k) == JobsOf(k)' = JobsOf(k) /\ cache'[k] = cache[k]

LEMMA Moving ==
  ASSUME PromiseInv, NEW r \in Requests
  PROVE  /\ Done(r) => Ends(r)
         /\ \A p \in Pcs : Goto(r, p) => Goes(r, p)
<1>1. req \in [Requests -> Request]
  BY DEF PromiseInv, TypeOK
<1>2. ASSUME Done(r) PROVE Ends(r)
  BY <1>1, <1>2 DEF Done, Ends, Others, Idle
<1>3. ASSUME NEW p \in Pcs, Goto(r, p) PROVE Goes(r, p)
  <2>1. req'[r] = [req[r] EXCEPT !.pc = p] /\ Others(r)
    BY <1>1, <1>3 DEF Goto, Others
  <2>2. req'[r].pc = p /\ req'[r].key = req[r].key
    BY <1>1, <2>1 DEF Request
  <2> QED BY <2>1, <2>2 DEF Goes, KeyOf
<1> QED BY <1>2, <1>3

LEMMA OthersCount ==
  ASSUME NEW r \in Requests, Others(r), NEW k
  PROVE  /\ \A s \in Requests : s # r => (s \in May(k)' <=> s \in May(k)) /\ (s \in Sure(k)' <=> s \in Sure(k))
         /\ May(k)' \subseteq Requests /\ Sure(k)' \subseteq Requests
         /\ r \in May(k)' <=> req'[r].key = k /\ req'[r].pc \in Before
         /\ r \in Sure(k)' <=> req'[r].key = k /\ req'[r].pc \in {"admit", "insert"}
         /\ req'[r].key = k /\ req'[r].pc # "idle" => Running(k)'
         /\ Running(k) => Running(k)' \/ (KeyOf(r) = k /\ ~At(r, "idle"))
<1>1. \A s \in Requests : s # r => req'[s] = req[s]
  BY DEF Others
<1>2. \A s \in Requests : s # r => (s \in May(k)' <=> s \in May(k)) /\ (s \in Sure(k)' <=> s \in Sure(k))
  BY <1>1 DEF May, Sure, KeyOf
<1>3. Running(k) => Running(k)' \/ (KeyOf(r) = k /\ ~At(r, "idle"))
  BY <1>1 DEF Running, At, KeyOf
<1>4. /\ r \in May(k)' <=> req'[r].key = k /\ req'[r].pc \in Before
      /\ r \in Sure(k)' <=> req'[r].key = k /\ req'[r].pc \in {"admit", "insert"}
  BY DEF May, Sure, KeyOf, Before
<1>5. May(k)' \subseteq Requests /\ Sure(k)' \subseteq Requests
  BY DEF May, Sure
<1>6. req'[r].key = k /\ req'[r].pc # "idle" => Running(k)'
  BY DEF Running, At, KeyOf
<1> QED BY <1>2, <1>3, <1>4, <1>5, <1>6

\* A request ends; or it goes on to a point no nearer to the insert.
LEMMA EndsSets ==
  ASSUME PromiseInv, NEW r \in Requests, Ends(r), NEW k \in Keys
  PROVE  /\ May(k)' \subseteq May(k) /\ Sure(k)' \subseteq Sure(k)
         /\ KeyOf(r) # k \/ At(r, "idle") => (Running(k) => Running(k)')
         /\ KeyOf(r) = k /\ req[r].pc \in Before => May(k)' # May(k)
<1>1. Others(r) /\ req'[r].key # k
  BY KeysAssumption DEF Ends
<1>2. r \notin May(k)' /\ r \notin Sure(k)'
  BY <1>1, OthersCount
<1>3. KeyOf(r) = k /\ req[r].pc \in Before => r \in May(k)
  BY DEF May
<1>4. KeyOf(r) # k \/ At(r, "idle") => (Running(k) => Running(k)')
  BY <1>1, OthersCount
<1>5. May(k)' \subseteq May(k) /\ Sure(k)' \subseteq Sure(k)
  BY <1>1, <1>2, OthersCount
<1> QED BY <1>2, <1>3, <1>4, <1>5

LEMMA GoesSets ==
  ASSUME PromiseInv, NEW r \in Requests, NEW p, Goes(r, p), p # "idle", NEW k \in Keys
  PROVE  /\ KeyOf(r) # k \/ req[r].pc \in Before \/ p \notin Before => May(k)' \subseteq May(k)
         /\ p \notin Before => May(k)' \subseteq May(k) \ {r}
         /\ Sure(k)' \subseteq Sure(k) \cup {r}
         /\ KeyOf(r) # k \/ p \notin {"admit", "insert"} \/ At(r, "admit") => Sure(k)' \subseteq Sure(k)
         /\ p \notin Before => Sure(k)' \subseteq Sure(k) \ {r}
         /\ Running(k) => Running(k)'
         /\ KeyOf(r) = k => Running(k)'
<1>1. Others(r) /\ req'[r].key = KeyOf(r) /\ req'[r].pc = p
  BY DEF Goes
<1>2. /\ r \in May(k)' <=> KeyOf(r) = k /\ p \in Before
      /\ r \in Sure(k)' <=> KeyOf(r) = k /\ p \in {"admit", "insert"}
  BY <1>1, OthersCount
<1>3. /\ r \in May(k) <=> KeyOf(r) = k /\ req[r].pc \in Before
      /\ r \in Sure(k) <=> KeyOf(r) = k /\ req[r].pc \in {"admit", "insert"}
  BY DEF May, Sure
<1>4. /\ \A s \in Requests : s # r => (s \in May(k)' <=> s \in May(k)) /\ (s \in Sure(k)' <=> s \in Sure(k))
      /\ May(k)' \subseteq Requests /\ Sure(k)' \subseteq Requests
  BY <1>1, OthersCount
<1>5. KeyOf(r) # k \/ req[r].pc \in Before \/ p \notin Before => May(k)' \subseteq May(k)
  BY <1>2, <1>3, <1>4
<1>6. /\ p \notin Before => May(k)' \subseteq May(k) \ {r} /\ Sure(k)' \subseteq Sure(k) \ {r}
      /\ Sure(k)' \subseteq Sure(k) \cup {r}
  BY <1>2, <1>4 DEF Before
<1>7. KeyOf(r) # k \/ p \notin {"admit", "insert"} \/ At(r, "admit") => Sure(k)' \subseteq Sure(k)
  BY <1>2, <1>3, <1>4 DEF At
<1>8. (Running(k) => Running(k)') /\ (KeyOf(r) = k => Running(k)')
  BY <1>1, OthersCount
<1> QED BY <1>5, <1>6, <1>7, <1>8

\* The keys a step of r is not about.
LEMMA ElseKeys ==
  ASSUME PromiseInv, PromiseInv', KeyInv, NEW r \in Requests, ~At(r, "idle"),
         Ends(r) \/ \E p \in Pcs \ {"idle"} : Goes(r, p),
         NEW own \in Keys, own = KeyOf(r), own \in Small => KeyOK(own)',
         \A k \in Keys : k # own => KeysKept(k), Paid' >= Paid
  PROVE  KeyInv'
<1> SUFFICES ASSUME NEW k \in Small, k # own PROVE KeyOK(k)'
  BY DEF KeyInv
<1>1. k \in Keys /\ KeyOK(k)
  BY KeysAssumption DEF KeyInv
<1>2. KeysKept(k)
  BY <1>1
<1>3. May(k)' \subseteq May(k) /\ Sure(k)' \subseteq Sure(k) /\ (Running(k) => Running(k)')
  BY <1>1, EndsSets, GoesSets
<1> QED BY <1>1, <1>2, <1>3, ClaimsKept DEF KeysKept

-----------------------------------------------------------------------------
(* The steps.                                                              *)

LEMMA Payments ==
  ASSUME PromiseInv
  PROVE  /\ Fault => Paid' = Paid + 1
         /\ AnswerLost => Paid' = Paid
         /\ UNCHANGED bounds => Paid' = Paid
         /\ Paid \in Nat
  BY DEF PromiseInv, TypeOK, Fault, AnswerLost, bounds, Paid

\* Up to admission control, a request goes on or is refused; only the cache is looked at.
LEMMA EarlySteps ==
  ASSUME PromiseInv, PromiseInv', KeyInv, NEW r \in Requests,
         Incr(r) \/ SetExpiry(r) \/ Admit(r)
  PROVE  KeyInv'
<1>1. PICK k \in Keys : k = KeyOf(r)
  BY DEF PromiseInv, HandlersOK, HandlerOK, Incr, SetExpiry, Admit, At
<1>2. ~At(r, "idle") /\ req[r].pc \in Before /\ UNCHANGED <<jobs, cache>>
  BY DEF Incr, SetExpiry, Admit, At, Before
<1>3. Paid' >= Paid
  <2>1. Paid' = Paid \/ Paid' = Paid + 1
    BY Payments DEF Incr, SetExpiry, Admit
  <2> QED BY <2>1, Payments
<1>4. \A h \in Keys : KeysKept(h)
  BY <1>2 DEF KeysKept, JobsOf
<1>5. \/ Done(r) \/ Goto(r, "expire") \/ Goto(r, AfterLimiter(r)) \/ (At(r, "admit") /\ Goto(r, "insert"))
  <2>1. CASE Incr(r)
    <3>1. CASE Goto(r, AfterLimiter(r))
      BY <3>1
    <3>2. CASE ~Goto(r, AfterLimiter(r))
      <4>1. /\ count' = IF count > Limit THEN count ELSE count + 1
            /\ CASE count' = 1                   -> Goto(r, "expire")
                 [] count' > Limit               -> Done(r)
                 [] count' > 1 /\ count' <= Limit -> Goto(r, AfterLimiter(r))
        BY <2>1, <3>2 DEF Incr
      <4>2. count' = 1 \/ count' > Limit \/ (count' > 1 /\ count' <= Limit)
        BY <4>1, LimitAssumption DEF PromiseInv, TypeOK
      <4> QED BY <4>1, <4>2
    <3> QED BY <3>1, <3>2
  <2>2. CASE SetExpiry(r) \/ Admit(r)
    BY <2>2 DEF SetExpiry, Admit
  <2> QED BY <2>1, <2>2
<1>6. \/ Ends(r)
      \/ \E p \in {"expire", "lookup", "admit"} : Goes(r, p) /\ (k \in Small => p # "admit")
      \/ (At(r, "admit") /\ Goes(r, "insert"))
  <2>1. AfterLimiter(r) \in {"lookup", "admit"} /\ (k \in Small => AfterLimiter(r) = "lookup")
    BY <1>1 DEF AfterLimiter
  <2> QED BY <1>5, <2>1, Moving DEF Pcs
<1>7. ASSUME k \in Small PROVE KeyOK(k)'
  <2>1. /\ May(k)' \subseteq May(k) /\ Sure(k)' \subseteq Sure(k)
        /\ Running(k) => Running(k)' \/ May(k)' # May(k)
    <3>1. CASE Ends(r)
      BY <1>1, <1>2, <3>1, EndsSets
    <3>2. CASE \E p \in {"expire", "lookup"} : Goes(r, p)
      BY <1>1, <1>2, <3>2, GoesSets
    <3>3. CASE At(r, "admit") /\ Goes(r, "insert")
      BY <1>1, <1>2, <3>3, GoesSets
    <3> QED BY <1>6, <1>7, <3>1, <3>2, <3>3
  <2> QED BY <1>3, <1>4, <1>7, <2>1, ClaimsKept DEF KeysKept, KeyInv
<1> QED BY <1>1, <1>2, <1>3, <1>4, <1>6, <1>7, ElseKeys DEF Pcs

LEMMA LookupKeys ==
  ASSUME PromiseInv, PromiseInv', KeyInv, NEW r \in Requests, Lookup(r)
  PROVE  KeyInv'
<1>1. PICK k \in Keys : k = KeyOf(r)
  BY DEF PromiseInv, HandlersOK, HandlerOK, Lookup, At
<1>2. ~At(r, "idle") /\ req[r].pc \in Before /\ UNCHANGED <<jobs, cache>>
  BY DEF Lookup, At, Before
<1>3. \A h \in Keys : KeysKept(h)
  BY <1>2 DEF KeysKept, JobsOf
<1>4. \/ Ends(r) /\ Paid' = Paid
      \/ Goes(r, "admit") /\ cache[k] = 0 /\ Paid' = Paid
      \/ Goes(r, "admit") /\ Paid' = Paid + 1
  BY <1>1, Payments, Moving DEF Lookup, Pcs
<1>5. ASSUME k \in Small PROVE KeyOK(k)'
  <2>1. KeyOK(k)
    BY <1>5 DEF KeyInv
  <2>2. CASE Ends(r) /\ Paid' = Paid
    BY <1>1, <1>2, <1>3, <1>5, <2>1, <2>2, EndsSets, ClaimsKept, Payments DEF KeysKept
  <2>3. CASE Goes(r, "admit") /\ cache[k] = 0 /\ Paid' = Paid
    BY <1>1, <1>2, <1>3, <1>5, <2>1, <2>3, GoesSets, ClaimsMiss DEF KeysKept
  <2>4. CASE Goes(r, "admit") /\ Paid' = Paid + 1
    BY <1>1, <1>2, <1>3, <1>5, <2>1, <2>4, GoesSets, ClaimsFault DEF KeysKept
  <2> QED BY <1>4, <2>2, <2>3, <2>4
<1>6. Paid' >= Paid
  BY <1>4, Payments
<1> QED BY <1>1, <1>2, <1>3, <1>4, <1>5, <1>6, ElseKeys DEF Pcs

LEMMA SaveKeys ==
  ASSUME PromiseInv, PromiseInv', KeyInv, NEW r \in Requests, Save(r)
  PROVE  KeyInv'
<1>1. PICK k \in Keys : k = KeyOf(r)
  BY DEF PromiseInv, HandlersOK, HandlerOK, Save, At
<1>2. ~At(r, "idle") /\ UNCHANGED jobs /\ Ends(r) /\ req[r].job # 0 /\ cache \in [Keys -> 0..MaxJobs]
  BY Moving DEF Save, At, PromiseInv, HandlersOK, HandlerOK, JobIds, TypeOK
<1>3. \/ cache' = [cache EXCEPT ![k] = req[r].job] /\ Paid' = Paid
      \/ cache' = cache /\ Paid' = Paid + 1
  BY <1>1, Payments DEF Save
<1>4. \A h \in Keys : JobsOf(h)' = JobsOf(h) /\ (h # k => cache'[h] = cache[h])
  BY <1>2, <1>3 DEF JobsOf
<1>5. ASSUME k \in Small PROVE KeyOK(k)'
  <2>1. KeyOK(k) /\ May(k)' \subseteq May(k) /\ Sure(k)' \subseteq Sure(k)
    BY <1>2, <1>5, EndsSets DEF KeyInv
  <2>2. CASE cache' = [cache EXCEPT ![k] = req[r].job] /\ Paid' = Paid
    <3>1. cache'[k] # 0
      BY <1>2, <2>2
    <3> QED BY <1>4, <1>5, <2>1, <2>2, <3>1, ClaimsCached
  <2>3. CASE cache' = cache /\ Paid' = Paid + 1
    BY <1>4, <1>5, <2>1, <2>3, ClaimsFault
  <2> QED BY <1>3, <2>2, <2>3
<1>6. Paid' >= Paid
  BY <1>3, Payments
<1> QED BY <1>1, <1>2, <1>4, <1>5, <1>6, ElseKeys DEF KeysKept

LEMMA InsertKeys ==
  ASSUME PromiseInv, PromiseInv', KeyInv, NEW r \in Requests, Insert(r)
  PROVE  KeyInv'
<1>1. PICK k \in Keys : k = KeyOf(r)
  BY DEF PromiseInv, HandlersOK, HandlerOK, Insert, At
<1>2. /\ ~At(r, "idle") /\ cache' = cache /\ req[r].pc = "insert"
      /\ req \in [Requests -> Request] /\ jobs \in [JobIds -> Rows \cup {NoRow}]
  BY DEF Insert, At, PromiseInv, TypeOK
<1>3. CASE Fault /\ Done(r) /\ UNCHANGED jobs
  <2>1. Ends(r) /\ Paid' = Paid + 1 /\ Paid' >= Paid /\ \A h \in Keys : KeysKept(h)
    BY <1>2, <1>3, Moving, Payments DEF KeysKept, JobsOf
  <2>2. ASSUME k \in Small PROVE KeyOK(k)'
    BY <1>1, <2>1, <2>2, EndsSets, ClaimsFault DEF KeysKept, KeyInv
  <2> QED BY <1>1, <1>2, <2>1, <2>2, ElseKeys
<1>4. ASSUME NEW j \in JobIds, jobs[j] = NoRow, UNCHANGED bounds,
             jobs' = [jobs EXCEPT ![j] = [key |-> KeyOf(r), queued |-> FALSE]],
             req' = [req EXCEPT ![r] = [pc |-> "publish", key |-> KeyOf(r), job |-> j]]
      PROVE  KeyInv'
  <2>1. Goes(r, "publish")
    BY <1>2, <1>4 DEF Goes, Others
  <2>2. /\ jobs'[j].key = k /\ jobs[j].key = "none" /\ \A i \in JobIds : i # j => jobs'[i] = jobs[i]
    BY <1>1, <1>2, <1>4 DEF NoRow
  <2>3. \A h \in Keys : h # k => JobsOf(h)' = JobsOf(h)
    BY <2>2, KeysAssumption DEF JobsOf
  <2>4. JobsOf(k)' \subseteq JobsOf(k) \cup {j}
    BY <2>2 DEF JobsOf
  <2>5. Paid' = Paid /\ Paid' >= Paid
    BY <1>4, Payments
  <2>6. ASSUME k \in Small PROVE KeyOK(k)'
    <3>1. r \in Sure(k) /\ KeyOK(k)
      BY <1>1, <1>2, <2>6 DEF Sure, KeyInv
    <3>2. May(k)' \subseteq May(k) \ {r} /\ Sure(k)' \subseteq Sure(k) \ {r} /\ Running(k)'
      BY <1>1, <2>1, GoesSets DEF Before
    <3> QED BY <1>2, <2>4, <2>5, <2>6, <3>1, <3>2, ClaimsRow
  <2> QED BY <1>1, <1>2, <2>1, <2>3, <2>5, <2>6, ElseKeys DEF KeysKept, Pcs
<1> QED BY <1>3, <1>4 DEF Insert

LEMMA PublishKeys ==
  ASSUME PromiseInv, PromiseInv', KeyInv, NEW r \in Requests, Publish(r)
  PROVE  KeyInv'
<1>1. PICK k \in Keys : k = KeyOf(r)
  BY DEF PromiseInv, HandlersOK, HandlerOK, Publish, At
<1>2. /\ ~At(r, "idle") /\ cache' = cache /\ jobs \in [JobIds -> Rows \cup {NoRow}]
      /\ req[r].job \in JobIds /\ jobs[req[r].job].key \in Keys
  BY <1>1 DEF Publish, At, PromiseInv, TypeOK, HandlersOK, HandlerOK
<1>3. \A i \in JobIds : jobs'[i].key = jobs[i].key
  <2>1. CASE jobs' = jobs
    BY <2>1
  <2>2. CASE Queued(r)
    <3>1. jobs[req[r].job] \in Rows
      BY <1>2, KeysAssumption DEF NoRow
    <3> QED BY <1>2, <2>2, <3>1 DEF Queued, Rows
  <2> QED BY <2>1, <2>2 DEF Publish
<1>4. \A h \in Keys : KeysKept(h)
  BY <1>2, <1>3 DEF KeysKept, JobsOf
<1>5. \/ Ends(r) /\ Paid' = Paid + 1
      \/ Goes(r, "save") /\ Paid' = Paid
      \/ Ends(r) /\ Paid' = Paid /\ k \notin Small
  BY <1>1, Payments, Moving DEF Publish, Pcs
<1>6. ASSUME k \in Small PROVE KeyOK(k)'
  <2>1. KeyOK(k)
    BY <1>6 DEF KeyInv
  <2>2. CASE Ends(r) /\ Paid' = Paid + 1
    BY <1>4, <1>6, <2>1, <2>2, EndsSets, ClaimsFault DEF KeysKept
  <2>3. CASE Goes(r, "save") /\ Paid' = Paid
    <3>1. May(k)' \subseteq May(k) /\ Sure(k)' \subseteq Sure(k) /\ Running(k)'
      BY <1>1, <2>3, GoesSets DEF Before
    <3> QED BY <1>4, <1>6, <2>1, <2>3, <3>1, ClaimsKept, Payments DEF KeysKept
  <2> QED BY <1>5, <1>6, <2>2, <2>3
<1>7. Paid' >= Paid
  BY <1>5, Payments
<1> QED BY <1>1, <1>2, <1>4, <1>5, <1>6, <1>7, ElseKeys DEF Pcs

LEMMA SendKeys ==
  ASSUME PromiseInv, PromiseInv', KeyInv, NEW r \in Requests, NEW own \in Keys, Send(r, own)
  PROVE  KeyInv'
<1>1. /\ UNCHANGED <<jobs, cache, faults>> /\ At(r, "idle") /\ req \in [Requests -> Request]
      /\ req' = [req EXCEPT ![r] = [pc |-> "rate", key |-> own, job |-> 0]]
  BY DEF Send, PromiseInv, TypeOK
<1>2. Others(r) /\ req'[r].pc = "rate" /\ req'[r].key = own
  BY <1>1 DEF Others
<1>3. IF Running(own) THEN Paid' = Paid + 1 ELSE Paid' = Paid
  BY <1>1 DEF Send, Paid, PromiseInv, TypeOK
<1>4. \A k \in Keys : KeysKept(k)
  BY <1>1 DEF KeysKept, JobsOf
<1>5. r \notin May(own) /\ \A k \in Keys : r \notin May(k) /\ r \notin Sure(k)
  BY <1>1 DEF May, Sure, At, Before
<1> SUFFICES ASSUME NEW k \in Small PROVE KeyOK(k)'
  BY DEF KeyInv
<1>6. k \in Keys /\ KeyOK(k)
  BY KeysAssumption DEF KeyInv
<1>7. Sure(k)' \subseteq Sure(k) /\ May(k)' \subseteq May(k) \cup {r}
  BY <1>2, OthersCount
<1>8. CASE k = own
  <2>1. Running(k)'
    BY <1>2, <1>8, OthersCount
  <2> QED BY <1>3, <1>4, <1>6, <1>7, <1>8, <2>1, ClaimsSent DEF KeysKept
<1>9. CASE k # own
  <2>1. May(k)' \subseteq May(k) /\ (Running(k) => Running(k)')
    BY <1>1, <1>2, <1>9, OthersCount
  <2>2. Paid' >= Paid
    BY <1>3, Payments
  <2> QED BY <1>4, <1>6, <1>7, <2>1, <2>2, ClaimsKept DEF KeysKept
<1> QED BY <1>8, <1>9

\* A crash ends every request and pays for the next one.
LEMMA CrashKeys ==
  ASSUME PromiseInv, PromiseInv', KeyInv, Crash
  PROVE  KeyInv'
<1>1. UNCHANGED <<jobs, cache>> /\ Paid' = Paid + 1 /\ req' = [r \in Requests |-> Idle]
  BY Payments DEF Crash
<1>2. ASSUME NEW k \in Small PROVE KeyOK(k)'
  <2>1. KeysKept(k) /\ KeyOK(k)
    BY <1>1 DEF KeysKept, JobsOf, KeyInv
  <2>2. May(k)' = {} /\ Sure(k)' = {}
    BY <1>1 DEF May, Sure, Before, Idle
  <2> QED BY <1>1, <2>1, <2>2, ClaimsFault DEF KeysKept
<1> QED BY <1>2 DEF KeyInv

\* The entry of one key expires: the request that may come for nothing is paid for now.
LEMMA ExpireKeys ==
  ASSUME PromiseInv, PromiseInv', KeyInv, NEW own \in Keys, CacheExpires(own)
  PROVE  KeyInv'
<1>1. UNCHANGED <<jobs, req>> /\ Paid' = Paid + 1 /\ cache' = [cache EXCEPT ![own] = 0]
      /\ cache \in [Keys -> 0..MaxJobs]
  BY Payments DEF CacheExpires, PromiseInv, TypeOK
<1>2. ASSUME NEW k \in Small PROVE KeyOK(k)'
  <2>1. k \in Keys /\ KeyOK(k) /\ JobsOf(k)' = JobsOf(k) /\ May(k)' = May(k) /\ Sure(k)' = Sure(k)
        /\ Free(k)' = Free(k)
    BY <1>1, KeysAssumption DEF JobsOf, KeyInv, May, Sure, Free, Running, At, KeyOf
  <2>2. cache'[k] = cache[k] \/ cache'[k] = 0
    BY <1>1, <2>1
  <2>3. Claims(k)' <= Claims(k)
    BY <2>1, Counts DEF Claims
  <2> QED BY <1>1, <2>1, <2>2, <2>3, ClaimsFault
<1> QED BY <1>2 DEF KeyInv

LEMMA QuietKeys ==
  ASSUME PromiseInv, KeyInv, UNCHANGED <<jobs, cache, req, faults, overlaps>>
  PROVE  KeyInv'
<1>1. ASSUME NEW k \in Small PROVE KeyOK(k)'
  <2>1. /\ JobsOf(k)' = JobsOf(k) /\ May(k)' = May(k) /\ Sure(k)' = Sure(k)
        /\ Free(k)' = Free(k) /\ Paid' = Paid
    BY DEF JobsOf, May, Sure, Free, Running, At, KeyOf, Paid
  <2> QED BY <2>1 DEF KeyInv, KeyOK, Claims
<1> QED BY <1>1 DEF KeyInv

LEMMA KeyStep == PromiseInv /\ KeyInv /\ [Next]_vars => KeyInv'
<1> SUFFICES ASSUME PromiseInv, KeyInv, [Next]_vars PROVE KeyInv'
  OBVIOUS
<1>1. PromiseInv'
  BY NextPromise
<1>2. ASSUME NEW r \in Requests, Handler(r) PROVE KeyInv'
  BY <1>1, <1>2, EarlySteps, LookupKeys, SaveKeys, InsertKeys, PublishKeys DEF Handler
<1>3. CASE UNCHANGED vars \/ WindowEnds \/ Poll \/ Consume
  <2>1. UNCHANGED <<jobs, cache, req, faults, overlaps>>
    BY <1>3 DEF vars, WindowEnds, Poll, Consume, bounds, limiter, admission
  <2> QED BY <2>1, QuietKeys
<1> QED BY <1>1, <1>2, <1>3, SendKeys, CrashKeys, ExpireKeys DEF Next

LEMMA KeyInit == Init => KeyInv
<1> SUFFICES ASSUME Init, NEW k \in Small PROVE KeyOK(k)
  BY DEF KeyInv
<1>1. k \in Keys /\ k # "none"
  BY KeysAssumption
<1>2. JobsOf(k) = {} /\ May(k) = {} /\ Sure(k) = {}
  BY <1>1 DEF Init, JobsOf, May, Sure, NoRow, Before, Idle, KeyOf
<1>3. Free(k) \in {0, 1} /\ Paid = 0
  BY DEF Init, Free, Paid
<1> QED BY <1>2, <1>3, FS_EmptySet DEF KeyOK, Claims

\* Lost answers alone never duplicate a job whose request is buffered: every row of a key beyond
\* the first is paid for by a failed call or by a request sent while another was running.
THEOREM OncePerKeyHolds == Spec => []OncePerKey
<1>1. PromiseInv /\ KeyInv => OncePerKey
  <2> SUFFICES ASSUME PromiseInv, KeyInv, NEW k \in Small
               PROVE  Cardinality(JobsOf(k)) <= 1 + faults + overlaps
    BY DEF OncePerKey
  <2>1. Cardinality(JobsOf(k)) + Cardinality(Sure(k)) <= 1 + Paid
    BY DEF KeyInv, KeyOK
  <2> QED BY <2>1, Counts DEF Paid, PromiseInv, TypeOK
<1>2. PromiseInv /\ KeyInv /\ [Next]_vars => PromiseInv' /\ KeyInv'
  BY NextPromise, KeyStep
<1> QED BY <1>1, <1>2, InitPromise, KeyInit, PTL DEF Spec

=============================================================================
