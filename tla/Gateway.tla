------------------------------ MODULE Gateway ------------------------------
(***************************************************************************)
(* api-gateway: POST /v1/jobs behind its middleware, in the order of the   *)
(* route table: rate limiter, idempotency cache, admission control, then   *)
(* the CreateJob handler; and the poller that feeds admission control.     *)
(*                                                                         *)
(* One user creates one job per key (an Idempotency-Key with its body) and *)
(* sends the request again until it is told a job id.                      *)
(***************************************************************************)
EXTENDS Integers, FiniteSets

CONSTANTS
  Keys,         \* the jobs the user wants, each with its Idempotency-Key
  Small,        \* those whose body is buffered: at most maxBody bytes
  Requests,     \* requests the gateway runs at a time
  Limit,        \* RATE_LIMIT_PER_MIN
  MaxDepth,     \* ADMISSION_MAX_QUEUE_DEPTH, 0 disables admission control
  MaxJobs,      \* bound: jobs ever inserted
  MaxTrouble    \* bound: failed calls, crashes, lost answers and overlapping requests

ASSUME KeysAssumption == Small \subseteq Keys /\ "none" \notin Keys
ASSUME RequestsAssumption == IsFiniteSet(Requests)
ASSUME LimitAssumption == Limit \in Nat \ {0} /\ MaxDepth \in Nat
ASSUME BoundsAssumption == MaxJobs \in Nat /\ MaxTrouble \in Nat

VARIABLES
  count,    \* the ratelimit:<user> counter, 0 when there is none; it stops one
            \* above Limit, where every value is refused alike
  ttl,      \* whether the counter has an expiry
  cache,    \* the job id in the cached response of each key, 0 when none
  jobs,     \* the rows of the jobs table: key and whether its message went out
  depth,    \* ready messages in the ingestion queue
  polled,   \* the controller's cached depth
  healthy,  \* whether its last poll succeeded
  req,      \* the running requests
  told,     \* the job ids the client was given for each key
  faults,   \* failed calls, dropped connections, expired cache entries and crashes
  lost,     \* answers that did not reach the client
  overlaps  \* requests sent while one for the same key was running

vars == <<count, ttl, cache, jobs, depth, polled, healthy, req, told, faults, lost, overlaps>>
limiter == <<count, ttl>>
admission == <<polled, healthy>>
bounds == <<faults, lost, overlaps>>

JobIds == 1..MaxJobs
NoRow == [key |-> "none", queued |-> FALSE]
Rows == [key: Keys, queued: BOOLEAN]
Pcs == {"idle", "rate", "expire", "lookup", "admit", "insert", "publish", "save"}
Idle == [pc |-> "idle", key |-> "none", job |-> 0]
Request == [pc: Pcs, key: Keys \cup {"none"}, job: 0..MaxJobs]

Init ==
  /\ count = 0 /\ ttl = FALSE
  /\ cache = [k \in Keys |-> 0]
  /\ jobs = [j \in JobIds |-> NoRow]
  /\ depth = 0 /\ polled = 0 /\ healthy = TRUE
  /\ req = [r \in Requests |-> Idle]
  /\ told = [k \in Keys |-> {}]
  /\ faults = 0 /\ lost = 0 /\ overlaps = 0

Trouble == faults + lost + overlaps < MaxTrouble
Fault == Trouble /\ faults' = faults + 1 /\ UNCHANGED <<lost, overlaps>>
AnswerLost == Trouble /\ lost' = lost + 1 /\ UNCHANGED <<told, faults, overlaps>>
At(r, p) == req[r].pc = p
Goto(r, p) == req' = [req EXCEPT ![r].pc = p]
Done(r) == req' = [req EXCEPT ![r] = Idle]
KeyOf(r) == req[r].key
JobsOf(k) == {j \in JobIds : jobs[j].key = k}
Tell(k, j) == told' = [told EXCEPT ![k] = @ \cup {j}]
Running(k) == \E r \in Requests : ~At(r, "idle") /\ KeyOf(r) = k

-----------------------------------------------------------------------------
\* The client sends until it is told a job; a restarted or impatient one does
\* not know that a request of its own is still running.
Send(r, k) ==
  /\ At(r, "idle") /\ told[k] = {}
  /\ IF Running(k)
     THEN Trouble /\ overlaps' = overlaps + 1
     ELSE UNCHANGED overlaps
  /\ req' = [req EXCEPT ![r] = [pc |-> "rate", key |-> k, job |-> 0]]
  /\ UNCHANGED <<limiter, cache, jobs, depth, admission, told, faults, lost>>

-----------------------------------------------------------------------------
(* RateLimiter.                                                            *)

\* A body that is not buffered skips the idempotency cache.
AfterLimiter(r) == IF KeyOf(r) \in Small THEN "lookup" ELSE "admit"

Incr(r) ==
  /\ At(r, "rate")
  /\ \/ /\ count' = IF count > Limit THEN count ELSE count + 1
        /\ UNCHANGED bounds
        /\ CASE count' = 1                   -> Goto(r, "expire")
             [] count' > Limit               -> Done(r)           \* 429
             [] count' > 1 /\ count' <= Limit -> Goto(r, AfterLimiter(r))
     \/ Fault /\ Goto(r, AfterLimiter(r)) /\ UNCHANGED count      \* fails open
  /\ UNCHANGED <<ttl, cache, jobs, depth, admission, told>>

SetExpiry(r) ==
  /\ At(r, "expire")
  /\ \/ ttl' = TRUE /\ UNCHANGED bounds
     \/ Fault /\ UNCHANGED ttl           \* logged only
  /\ Goto(r, AfterLimiter(r))
  /\ UNCHANGED <<count, cache, jobs, depth, admission, told>>

WindowEnds ==
  /\ ttl
  /\ count' = 0 /\ ttl' = FALSE
  /\ UNCHANGED <<cache, jobs, depth, admission, req, told, bounds>>

-----------------------------------------------------------------------------
(* Idempotency.                                                            *)

Lookup_Misses(r) ==                      \* wrong: the stored key is never found
  /\ At(r, "lookup")
  /\ Goto(r, "admit")
  /\ UNCHANGED <<limiter, cache, jobs, depth, admission, told, bounds>>

\* A failed GET counts as a miss.
Lookup(r) ==
  /\ At(r, "lookup")
  /\ \/ /\ cache[KeyOf(r)] # 0
        /\ Done(r)
        /\ \/ Tell(KeyOf(r), cache[KeyOf(r)]) /\ UNCHANGED bounds
           \/ AnswerLost
     \/ cache[KeyOf(r)] = 0 /\ Goto(r, "admit") /\ UNCHANGED <<told, bounds>>
     \/ Fault /\ Goto(r, "admit") /\ UNCHANGED told
  /\ UNCHANGED <<limiter, cache, jobs, depth, admission>>

\* Only 2xx responses are cached, after they were written to the client.
Save(r) ==
  /\ At(r, "save")
  /\ \/ cache' = [cache EXCEPT ![KeyOf(r)] = req[r].job] /\ UNCHANGED bounds
     \/ Fault /\ UNCHANGED cache
  /\ Done(r)
  /\ UNCHANGED <<limiter, jobs, depth, admission, told>>

-----------------------------------------------------------------------------
(* AdmissionController.                                                    *)

Closed_Unpolled ==                       \* wrong: fails closed without a poll
  MaxDepth > 0 /\ (~healthy \/ polled > MaxDepth)

Closed == MaxDepth > 0 /\ healthy /\ polled > MaxDepth

Admit(r) ==
  /\ At(r, "admit")
  /\ IF Closed THEN Done(r) ELSE Goto(r, "insert")                \* 429
  /\ UNCHANGED <<limiter, cache, jobs, depth, admission, told, bounds>>

Poll ==
  /\ \/ polled' = depth /\ healthy' = TRUE
     \/ healthy' = FALSE /\ UNCHANGED polled
  /\ UNCHANGED <<limiter, cache, jobs, depth, req, told, bounds>>

-----------------------------------------------------------------------------
(* CreateJob.                                                              *)

Insert_Caches(r) ==                      \* wrong: the response is cached too early
  /\ At(r, "insert")
  /\ \E j \in JobIds :
       /\ jobs[j] = NoRow /\ \A i \in JobIds : i < j => jobs[i] # NoRow
       /\ jobs' = [jobs EXCEPT ![j] = [key |-> KeyOf(r), queued |-> FALSE]]
       /\ cache' = [cache EXCEPT ![KeyOf(r)] = j]
       /\ req' = [req EXCEPT ![r] = [pc |-> "publish", key |-> KeyOf(r), job |-> j]]
  /\ UNCHANGED <<limiter, depth, admission, told, bounds>>

\* The object is stored and the row inserted; either may fail.
Insert(r) ==
  /\ At(r, "insert")
  /\ \/ \E j \in JobIds :
          /\ jobs[j] = NoRow /\ \A i \in JobIds : i < j => jobs[i] # NoRow
          /\ jobs' = [jobs EXCEPT ![j] = [key |-> KeyOf(r), queued |-> FALSE]]
          /\ req' = [req EXCEPT ![r] = [pc |-> "publish", key |-> KeyOf(r), job |-> j]]
          /\ UNCHANGED bounds
     \/ Fault /\ Done(r) /\ UNCHANGED jobs
  /\ UNCHANGED <<limiter, cache, depth, admission, told>>

Queued(r) ==
  /\ jobs' = [jobs EXCEPT ![req[r].job].queued = TRUE]
  /\ depth' = depth + 1

\* A 500 leaves the row behind, and the message too when only the broker's
\* confirm was late.  A connection that dropped cancels the request's context:
\* the client gets no answer and the response is not cached either.
Publish(r) ==
  /\ At(r, "publish")
  /\ LET answered == IF KeyOf(r) \in Small THEN Goto(r, "save") ELSE Done(r)
     IN \/ Queued(r) /\ Tell(KeyOf(r), req[r].job) /\ answered /\ UNCHANGED bounds
        \/ Queued(r) /\ answered /\ AnswerLost
        \/ Queued(r) /\ Done(r) /\ Fault /\ UNCHANGED told
        \/ Done(r) /\ Fault /\ UNCHANGED <<jobs, depth, told>>
  /\ UNCHANGED <<limiter, cache, admission>>

-----------------------------------------------------------------------------
\* External: the analyzer takes a message from the queue.
Consume ==
  /\ depth > 0 /\ depth' = depth - 1
  /\ UNCHANGED <<limiter, cache, jobs, admission, req, told, bounds>>

\* 24 hours later the cached response is gone.
CacheExpires(k) ==
  /\ cache[k] # 0 /\ Fault
  /\ cache' = [cache EXCEPT ![k] = 0]
  /\ UNCHANGED <<limiter, jobs, depth, admission, req, told>>

\* The gateway restarts: admission control starts healthy, with depth 0.
Crash ==
  /\ Fault
  /\ req' = [r \in Requests |-> Idle]
  /\ polled' = 0 /\ healthy' = TRUE
  /\ UNCHANGED <<limiter, cache, jobs, depth, told>>

Handler(r) ==
  \/ Incr(r) \/ SetExpiry(r) \/ Lookup(r) \/ Admit(r)
  \/ Insert(r) \/ Publish(r) \/ Save(r)

Next ==
  \/ \E r \in Requests : Handler(r) \/ \E k \in Keys : Send(r, k)
  \/ WindowEnds \/ Poll \/ Consume \/ Crash
  \/ \E k \in Keys : CacheExpires(k)

\* Requests run to their end, the limiter's window ends, the ticker of the
\* poller goes on, workers consume, and a client without an answer retries.
Fairness ==
  /\ \A r \in Requests : WF_vars(Handler(r))
  /\ \A k \in Keys : WF_vars(\E r \in Requests : Send(r, k))
  /\ WF_vars(WindowEnds) /\ WF_vars(Poll) /\ WF_vars(Consume)

Spec == Init /\ [][Next]_vars
FairSpec == Spec /\ Fairness

-----------------------------------------------------------------------------
(* Properties.                                                             *)

TypeOK ==
  /\ count \in 0..(Limit + 1) /\ ttl \in BOOLEAN
  /\ cache \in [Keys -> 0..MaxJobs]
  /\ jobs \in [JobIds -> Rows \cup {NoRow}]
  /\ depth \in Nat /\ polled \in Nat /\ healthy \in BOOLEAN
  /\ req \in [Requests -> Request]
  /\ told \in [Keys -> SUBSET JobIds]
  /\ faults \in Nat /\ lost \in Nat /\ overlaps \in Nat

\* A job id is a promise: every id a client was told, by the handler or by a
\* replay, and every id a cached response would replay, is a row of that very
\* request whose message went out.
Promised ==
  /\ TypeOK
  /\ \A k \in Keys : \A j \in told[k] \cup ({cache[k]} \ {0}) :
       jobs[j] = [key |-> k, queued |-> TRUE]

\* Lost answers alone never duplicate a job whose body is buffered: each row
\* beyond the first needs a failed call or a request that overlapped another.
OncePerKey ==
  \A k \in Small : Cardinality(JobsOf(k)) <= 1 + faults + overlaps

\* A client that keeps trying gets its job: neither the limiter nor admission
\* control shuts it out for good.  The exception is a counter whose EXPIRE
\* failed or was never sent: it stays, and once above Limit refuses for ever.
LockedOut == count > 0 /\ ~ttl
ClientServed == \A k \in Keys : <>(told[k] # {}) \/ <>[]LockedOut

=============================================================================
