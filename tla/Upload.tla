------------------------------- MODULE Upload -------------------------------
(***************************************************************************)
(* upload-service: the chunked upload of one video.  Every key of the      *)
(* object store and of the chunk tracker contains the upload id, so two    *)
(* uploads never meet and one is modelled.                                 *)
(*                                                                         *)
(* A request is cut at each call to the store, the tracker and the queue.  *)
(* A client sends the same bytes whenever it sends a chunk again, so an    *)
(* object is the set of chunk indices it is made of.                       *)
(***************************************************************************)
EXTENDS Integers, FiniteSets, FiniteSetsExt

CONSTANTS
  Indices,     \* the chunk_idx values of the client's file
  SizeOf,      \* [Indices -> Nat], bytes of each chunk
  MaxTotal,    \* maxTotalUploadSize
  Requests,    \* requests the service runs at a time
  Tracker,     \* "redis", or "memory" when redis does not answer at the start
  Documented,  \* whether the client follows the protocol of docs/api.md
  MaxFaults,   \* bound: failed calls and crashes
  MaxJobs      \* bound: ingestion messages

ASSUME IndicesAssumption == IsFiniteSet(Indices) /\ Indices \subseteq Nat
ASSUME SizeAssumption == SizeOf \in [Indices -> Nat \ {0}] /\ MaxTotal \in Nat
ASSUME TrackerAssumption == Tracker \in {"redis", "memory"} /\ Documented \in BOOLEAN
ASSUME BoundsAssumption == MaxFaults \in Nat /\ MaxJobs \in Nat

VARIABLES
  chunks,   \* the chunk_<idx> objects in the store
  tracked,  \* the indices in the tracker's hash
  final,    \* the chunks in the final object, {} when there is none
  jobs,     \* ingestion messages published for the final object
  req,      \* the running requests
  acked,    \* the chunks answered with 200
  outcome,  \* how the upload ended for the client
  valid,    \* whether ffprobe accepts the whole file
  expired,  \* whether the tracker's key ran out (history)
  faults

vars == <<chunks, tracked, final, jobs, req, acked, outcome, valid, expired, faults>>
stored == <<chunks, tracked, final, jobs>>
client == <<acked, outcome, valid, expired>>

Pcs == {"idle", "size", "store", "record",
        "list", "total", "concat", "probe", "final", "clean", "purge", "publish",
        "dlist", "dclean", "dpurge"}
Idle == [pc |-> "idle", idx |-> 0, listed |-> {}, todo |-> {}]
Request == [pc: Pcs, idx: Indices \cup {0}, listed: SUBSET Indices, todo: SUBSET Indices]

Init ==
  /\ chunks = {} /\ tracked = {} /\ final = {} /\ jobs = 0
  /\ req = [r \in Requests |-> Idle]
  /\ acked = {} /\ outcome = "open" /\ expired = FALSE
  /\ valid \in BOOLEAN
  /\ faults = 0

Bytes(S) == MapThenSumSet(LAMBDA i : SizeOf[i], S)
Fault == faults < MaxFaults /\ faults' = faults + 1
At(r, p) == req[r].pc = p
Goto(r, p) == req' = [req EXCEPT ![r].pc = p]
Done(r) == req' = [req EXCEPT ![r] = Idle]
Least(S) == CHOOSE i \in S : \A k \in S : i <= k

\* A 4xx answer ends the upload; after a 5xx the client may try again.
Refuse(r) == Done(r) /\ outcome' = "refused"

-----------------------------------------------------------------------------
(* The client.  A documented one sends every chunk, again after an error,  *)
(* possibly several at a time, and completes when all were accepted; it    *)
(* may cancel when no request of its own is running.                       *)

Quiet == \A r \in Requests : At(r, "idle")
OnlyChunks == \A r \in Requests : req[r].pc \in {"idle", "size", "store", "record"}
Sending(i) == \E r \in Requests : req[r].pc \in {"size", "store", "record"} /\ req[r].idx = i

SendChunk(r, i) ==
  /\ At(r, "idle")
  /\ Documented => outcome = "open" /\ i \notin acked /\ ~Sending(i) /\ OnlyChunks
  /\ req' = [req EXCEPT ![r] = [Idle EXCEPT !.pc = "size", !.idx = i]]
  /\ UNCHANGED <<stored, client, faults>>

SendComplete(r) ==
  /\ At(r, "idle")
  /\ Documented => outcome = "open" /\ acked = Indices /\ Quiet
  /\ Goto(r, "list")
  /\ UNCHANGED <<stored, client, faults>>

SendDelete(r) ==
  /\ At(r, "idle")
  /\ Documented => outcome = "open" /\ Quiet
  /\ Goto(r, "dlist")
  /\ UNCHANGED <<stored, client, faults>>

-----------------------------------------------------------------------------
(* handleChunk.                                                            *)

CheckSize_CountsTwice(r) ==              \* wrong: the chunk is counted twice
  /\ At(r, "size")
  /\ IF Bytes(tracked) + 2 * SizeOf[req[r].idx] > MaxTotal
     THEN Refuse(r) ELSE Goto(r, "store") /\ UNCHANGED outcome
  /\ UNCHANGED <<stored, acked, valid, expired, faults>>

CheckSize(r) ==
  /\ At(r, "size")
  /\ IF Bytes(tracked) + SizeOf[req[r].idx] > MaxTotal
     THEN Refuse(r) ELSE Goto(r, "store") /\ UNCHANGED outcome
  /\ UNCHANGED <<stored, acked, valid, expired, faults>>

StoreChunk(r) ==
  /\ At(r, "store")
  /\ chunks' = chunks \cup {req[r].idx}
  /\ Goto(r, "record")
  /\ UNCHANGED <<tracked, final, jobs, client, faults>>

RecordChunk_Drops(r) ==                  \* wrong: answered without being recorded
  /\ At(r, "record")
  /\ acked' = acked \cup {req[r].idx}
  /\ Done(r)
  /\ UNCHANGED <<stored, outcome, valid, expired, faults>>

RecordChunk_BestEffort(r) ==             \* wrong: a failed HSET is only logged
  /\ At(r, "record")
  /\ acked' = acked \cup {req[r].idx}
  /\ \/ tracked' = tracked \cup {req[r].idx} /\ UNCHANGED faults
     \/ Fault /\ UNCHANGED tracked
  /\ Done(r)
  /\ UNCHANGED <<chunks, final, jobs, outcome, valid, expired>>

\* HSET and then EXPIRE: when the second fails the index is recorded all the same.
RecordChunk(r) ==
  /\ At(r, "record")
  /\ tracked' = tracked \cup {req[r].idx}
  /\ \/ acked' = acked \cup {req[r].idx} /\ UNCHANGED faults
     \/ Fault /\ Tracker = "redis" /\ UNCHANGED acked
  /\ Done(r)
  /\ UNCHANGED <<chunks, final, jobs, outcome, valid, expired>>

-----------------------------------------------------------------------------
(* handleComplete.                                                         *)

ListChunks_Retry(r) ==                   \* wrong: nothing to complete is a 5xx
  /\ At(r, "list")
  /\ IF tracked = {}
     THEN Done(r)
     ELSE req' = [req EXCEPT ![r].pc = "total", ![r].listed = tracked, ![r].todo = tracked]
  /\ UNCHANGED <<stored, client, faults>>

ListChunks(r) ==
  /\ At(r, "list")
  /\ IF tracked = {}
     THEN Refuse(r)
     ELSE /\ req' = [req EXCEPT ![r].pc = "total", ![r].listed = tracked, ![r].todo = tracked]
          /\ UNCHANGED outcome
  /\ UNCHANGED <<stored, acked, valid, expired, faults>>

CheckTotal(r) ==
  /\ At(r, "total")
  /\ IF Bytes(tracked) > MaxTotal
     THEN Refuse(r) ELSE Goto(r, "concat") /\ UNCHANGED outcome
  /\ UNCHANGED <<stored, acked, valid, expired, faults>>

\* concatChunks, one download in ascending order; a missing object is a 500.
ConcatChunk(r) ==
  /\ At(r, "concat")
  /\ LET left == req[r].todo \ {Least(req[r].todo)}
     IN IF Least(req[r].todo) \in chunks
        THEN req' = [req EXCEPT ![r].todo = left,
                                ![r].pc = IF left = {} THEN "probe" ELSE "concat"]
        ELSE Done(r)
  /\ UNCHANGED <<stored, client, faults>>

\* A part of a file may or may not look like a video; an ffprobe that does not
\* run counts as a file that is none.
Probe(r) ==
  /\ At(r, "probe")
  /\ \/ (req[r].listed = Indices => valid) /\ Goto(r, "final") /\ UNCHANGED <<outcome, faults>>
     \/ (req[r].listed = Indices => ~valid) /\ Refuse(r) /\ UNCHANGED faults
     \/ Fault /\ Refuse(r)
  /\ UNCHANGED <<stored, acked, valid, expired>>

StoreFinal(r) ==
  /\ At(r, "final")
  /\ final' = req[r].listed
  /\ req' = [req EXCEPT ![r].pc = "clean", ![r].todo = req[r].listed]
  /\ UNCHANGED <<chunks, tracked, jobs, client, faults>>

\* Best effort: an object that cannot be deleted is logged and stays.
DeleteNext(r, from, to) ==
  /\ At(r, from)
  /\ IF req[r].todo = {}
     THEN Goto(r, to) /\ UNCHANGED <<chunks, faults>>
     ELSE \E i \in req[r].todo :
            /\ req' = [req EXCEPT ![r].todo = @ \ {i}]
            /\ \/ chunks' = chunks \ {i} /\ UNCHANGED faults
               \/ Fault /\ UNCHANGED chunks
  /\ UNCHANGED <<tracked, final, jobs, client>>

CleanChunk(r) == DeleteNext(r, "clean", "purge")

PurgeTracker(r) ==
  /\ At(r, "purge")
  /\ \/ tracked' = {} /\ UNCHANGED faults
     \/ Fault /\ UNCHANGED tracked
  /\ Goto(r, "publish")
  /\ UNCHANGED <<chunks, final, jobs, client>>

\* The message goes out; the 202 follows unless the broker's confirm is late.
Publish(r) ==
  /\ At(r, "publish")
  /\ jobs < MaxJobs /\ jobs' = jobs + 1
  /\ \/ outcome' = "queued" /\ UNCHANGED faults
     \/ Fault /\ UNCHANGED outcome
  /\ Done(r)
  /\ UNCHANGED <<chunks, tracked, final, acked, valid, expired>>

-----------------------------------------------------------------------------
(* handleDelete.                                                           *)

ListToDelete(r) ==
  /\ At(r, "dlist")
  /\ req' = [req EXCEPT ![r].pc = "dclean", ![r].todo = tracked]
  /\ UNCHANGED <<stored, client, faults>>

DeleteChunk(r) == DeleteNext(r, "dclean", "dpurge")

PurgeDeleted(r) ==
  /\ At(r, "dpurge")
  /\ \/ tracked' = {} /\ UNCHANGED faults
     \/ Fault /\ UNCHANGED tracked
  /\ outcome' = "deleted"
  /\ Done(r)
  /\ UNCHANGED <<chunks, final, jobs, acked, valid, expired>>

-----------------------------------------------------------------------------
(* Failures.                                                               *)

\* A call that is not best effort fails: the request ends with a 5xx.
FailingPcs == {"size", "store", "record", "list", "total", "concat", "final", "publish", "dlist"}
CallFails(r) ==
  /\ req[r].pc \in FailingPcs
  /\ Fault
  /\ Done(r)
  /\ UNCHANGED <<stored, client>>

\* The process dies with every request it runs; the in-memory tracker with it.
Crash ==
  /\ ~Quiet
  /\ Fault
  /\ req' = [r \in Requests |-> Idle]
  /\ tracked' = IF Tracker = "memory" THEN {} ELSE tracked
  /\ UNCHANGED <<chunks, final, jobs, client>>

\* 24 hours after the last recorded chunk the hash's TTL runs out.
TrackerExpires ==
  /\ Tracker = "redis" /\ tracked # {} /\ ~expired
  /\ tracked' = {} /\ expired' = TRUE
  /\ UNCHANGED <<chunks, final, jobs, req, acked, outcome, valid, faults>>

-----------------------------------------------------------------------------
Handler(r) ==
  \/ CheckSize(r) \/ StoreChunk(r) \/ RecordChunk(r)
  \/ ListChunks(r) \/ CheckTotal(r) \/ ConcatChunk(r) \/ Probe(r) \/ StoreFinal(r)
  \/ CleanChunk(r) \/ PurgeTracker(r) \/ Publish(r)
  \/ ListToDelete(r) \/ DeleteChunk(r) \/ PurgeDeleted(r)

Next ==
  \/ \E r \in Requests :
       \/ \E i \in Indices : SendChunk(r, i)
       \/ SendComplete(r) \/ SendDelete(r)
       \/ Handler(r) \/ CallFails(r)
  \/ Crash
  \/ TrackerExpires

\* Requests run to their end, and a client that has begun goes on.
Fairness ==
  /\ \A r \in Requests : WF_vars(Handler(r))
  /\ \A i \in Indices : WF_vars(\E r \in Requests : SendChunk(r, i))
  /\ WF_vars(\E r \in Requests : SendComplete(r))

Spec == Init /\ [][Next]_vars
FairSpec == Spec /\ Fairness

-----------------------------------------------------------------------------
(* Properties.                                                             *)

TypeOK ==
  /\ chunks \subseteq Indices /\ tracked \subseteq Indices /\ final \subseteq Indices
  /\ jobs \in 0..MaxJobs
  /\ req \in [Requests -> Request]
  /\ acked \subseteq Indices
  /\ outcome \in {"open", "queued", "refused", "deleted"}
  /\ valid \in BOOLEAN /\ expired \in BOOLEAN
  /\ faults \in 0..MaxFaults

\* What the analyzer will download is the client's whole file, through failed
\* calls, crashes and retries of either request, as long as the tracker's key
\* did not run out between two chunks.
FileIntact == jobs > 0 /\ ~expired => final = Indices /\ valid

\* Retrying complete queues the video a second time only when nothing of the first attempt
\* was put away: each clean-up of a chunk, the tracker's, and the 202 itself have failed.
OneJobPerUpload == jobs > 1 => faults >= Cardinality(final) + 2

\* The two together: the analyzer is asked once, and for the whole file.
QueuedWholeOnce == FileIntact /\ OneJobPerUpload

\* A documented client whose file is a video within the limit is refused only
\* because of a failure or of an expired tracker.
RefusedForCause ==
  outcome = "refused" => faults > 0 \/ expired \/ ~valid \/ Bytes(Indices) > MaxTotal

\* An upload that ended well leaves no chunk behind: neither its objects nor
\* its tracker entries, unless a call failed or the tracker expired.
NothingLeftBehind ==
  outcome \in {"queued", "deleted"} /\ faults = 0 /\ ~expired =>
    chunks = {} /\ tracked = {}

\* A chunk answered with 200 stays, object and tracker entry, until a complete
\* or delete request of the client takes it away.
AcknowledgedKept ==
  OnlyChunks /\ outcome = "open" /\ faults = 0 /\ ~expired =>
    acked \subseteq tracked /\ tracked \subseteq chunks

\* Store and tracker agree with what the client was told of its chunks, from the first 200
\* to the end of the upload.
ChunksAccounted == TypeOK /\ AcknowledgedKept /\ NothingLeftBehind

\* A client that goes on is told how its upload ended, and a message goes out
\* with every 202.  The exception is a service that died while it cleaned up:
\* the tracker then names a deleted chunk and every later complete fails.
Ended == outcome \in {"refused", "deleted"} \/ (outcome = "queued" /\ jobs > 0)
Wedged == ~ tracked \subseteq chunks
UploadEnds == <>Ended \/ <>[]Wedged

=============================================================================
