---------------------------- MODULE UploadProofs ----------------------------
(***************************************************************************)
(* Theorems about uploading, from the service to the page one uploads      *)
(* from.  Upload, for a client that follows docs/api.md: store, tracker    *)
(* and answers agree, and the video is queued whole and once.  Then the    *)
(* dialog (UploadModal), and the dashboard it is opened on (Projects).     *)
(***************************************************************************)
EXTENDS Upload, UploadModal, Projects, FiniteSetTheorems, SequenceTheorems, NaturalsInduction,
        WellFoundedInduction, TLAPS

-----------------------------------------------------------------------------
(* Who may run beside whom.                                                *)

ChunkPcs == {"size", "store", "record"}
Listing == {"total", "concat", "probe", "final"}
Storing == {"clean", "purge", "publish"}
Deleting == {"dlist", "dclean", "dpurge"}
Closing == {"list", "total", "concat", "probe", "final", "clean", "purge", "publish",
            "dlist", "dclean", "dpurge"}

\* A complete or a delete request runs alone, and a complete one only when all was accepted.
AloneOK(r) ==
  req[r].pc \in Closing =>
    /\ outcome = "open" /\ \A s \in Requests : s # r => req[s].pc = "idle"
    /\ req[r].pc \notin Deleting => acked = Indices
    /\ req[r].pc \in Listing \cup Storing => req[r].listed # {}
    /\ req[r].pc \in Storing => final = req[r].listed

\* No two requests send the same chunk, and none an accepted one.
SendingOK(r) ==
  req[r].pc \in ChunkPcs =>
    /\ req[r].idx \in Indices /\ req[r].idx \notin acked
    /\ \A s \in Requests : s # r /\ req[s].pc \in ChunkPcs => req[s].idx # req[r].idx

UploadInv ==
  /\ TypeOK
  /\ \A r \in Requests : AloneOK(r)
  /\ \A r \in Requests : SendingOK(r)
  /\ outcome \in {"queued", "deleted"} => \A r \in Requests : req[r].pc = "idle"
  /\ jobs > 0 => acked = Indices /\ final # {}

\* What is written, and by whom: the steps of request r, up to what they leave in the rest.
Moves(r) ==
  /\ req' \in [Requests -> Request]
  /\ \A s \in Requests : s # r => req'[s] = req[s]
Same(r) == req'[r].idx = req[r].idx /\ req'[r].listed = req[r].listed /\ req'[r].todo = req[r].todo

LEMMA GotoMoves ==
  ASSUME TypeOK, NEW r \in Requests, NEW p \in Pcs, Goto(r, p)
  PROVE  Moves(r) /\ Same(r) /\ req'[r].pc = p
<1>1. req \in [Requests -> Request] /\ req' = [req EXCEPT ![r].pc = p]
  BY DEF TypeOK, Goto
<1>2. PICK x : x = [req[r] EXCEPT !.pc = p]
  OBVIOUS
<1>3. /\ x \in Request /\ x.pc = p /\ x.idx = req[r].idx
      /\ x.listed = req[r].listed /\ x.todo = req[r].todo
  <2>1. req[r] \in Request
    BY <1>1
  <2> QED BY <1>2, <2>1 DEF Request
<1>4. req' = [req EXCEPT ![r] = x]
  BY <1>1, <1>2
<1> QED BY <1>1, <1>3, <1>4 DEF Moves, Same

LEMMA DoneMoves ==
  ASSUME TypeOK, NEW r \in Requests, Done(r)
  PROVE  Moves(r) /\ req'[r] = Idle /\ req'[r].pc = "idle"
<1>1. Idle \in Request
  BY DEF Idle, Request, Pcs
<1>2. req \in [Requests -> Request] /\ req' = [req EXCEPT ![r] = Idle]
  BY DEF TypeOK, Done
<1> QED BY <1>1, <1>2 DEF Moves, Idle

\* Chunks of the client's file are all a store, a tracker or an answer speaks of.
LEMMA Sets ==
  ASSUME TypeOK
  PROVE  /\ chunks \subseteq Indices /\ tracked \subseteq Indices /\ final \subseteq Indices
         /\ acked \subseteq Indices /\ jobs \in 0..MaxJobs /\ faults \in 0..MaxFaults
         /\ outcome \in {"open", "queued", "refused", "deleted"} /\ valid \in BOOLEAN
                /\ expired \in BOOLEAN
         /\ req \in [Requests -> Request]
         /\ \A r \in Requests : /\ req[r].pc \in Pcs /\ req[r].idx \in Indices \cup {0}
                                /\ req[r].listed \subseteq Indices /\ req[r].todo \subseteq Indices
  BY DEF TypeOK, Request

\* The steps, each with what it reads and writes.
LEMMA SendChunkDoes ==
  ASSUME TypeOK, NEW r \in Requests, NEW i \in Indices, SendChunk(r, i)
  PROVE  /\ Moves(r) /\ req[r].pc = "idle" /\ req'[r].pc = "size" /\ req'[r].idx = i
         /\ Documented => /\ outcome = "open" /\ i \notin acked
                          /\ \A s \in Requests : req[s].pc \notin Closing
                          /\ \A s \in Requests : req[s].pc \in ChunkPcs => req[s].idx # i
         /\ UNCHANGED <<chunks, tracked, final, jobs, acked, outcome, valid, expired, faults>>
<1>1. PICK x : x = [Idle EXCEPT !.pc = "size", !.idx = i]
  OBVIOUS
<1>2. x \in Request /\ x.pc = "size" /\ x.idx = i
  BY <1>1 DEF Idle, Request, Pcs
<1>3. req \in [Requests -> Request] /\ req' = [req EXCEPT ![r] = x]
  BY <1>1 DEF TypeOK, SendChunk
<1>4. OnlyChunks => \A s \in Requests : req[s].pc \notin Closing
  BY DEF OnlyChunks, Closing
<1> QED BY <1>2, <1>3, <1>4 DEF Moves, SendChunk, At, Sending, ChunkPcs, stored, client

LEMMA SendCompleteDoes ==
  ASSUME TypeOK, NEW r \in Requests, SendComplete(r)
  PROVE  /\ Moves(r) /\ req[r].pc = "idle" /\ req'[r].pc = "list"
         /\ Documented => /\ outcome = "open" /\ acked = Indices
                          /\ \A s \in Requests : req[s].pc = "idle"
         /\ UNCHANGED <<chunks, tracked, final, jobs, acked, outcome, valid, expired, faults>>
<1>1. "list" \in Pcs
  BY DEF Pcs
<1> QED BY <1>1, GotoMoves DEF SendComplete, At, Quiet, stored, client

LEMMA SendDeleteDoes ==
  ASSUME TypeOK, NEW r \in Requests, SendDelete(r)
  PROVE  /\ Moves(r) /\ req[r].pc = "idle" /\ req'[r].pc = "dlist"
         /\ Documented => outcome = "open" /\ \A s \in Requests : req[s].pc = "idle"
         /\ UNCHANGED <<chunks, tracked, final, jobs, acked, outcome, valid, expired, faults>>
<1>1. "dlist" \in Pcs
  BY DEF Pcs
<1> QED BY <1>1, GotoMoves DEF SendDelete, At, Quiet, stored, client

LEMMA CheckSizeDoes ==
  ASSUME TypeOK, NEW r \in Requests, CheckSize(r)
  PROVE  /\ Moves(r) /\ req[r].pc = "size"
         /\ \/ /\ Bytes(tracked) + SizeOf[req[r].idx] > MaxTotal
               /\ req'[r].pc = "idle" /\ outcome' = "refused"
            \/ req'[r].pc = "store" /\ Same(r) /\ UNCHANGED outcome
         /\ UNCHANGED <<chunks, tracked, final, jobs, acked, valid, expired, faults>>
<1>1. "store" \in Pcs
  BY DEF Pcs
<1> QED BY <1>1, GotoMoves, DoneMoves DEF CheckSize, Refuse, At, stored

LEMMA StoreChunkDoes ==
  ASSUME TypeOK, NEW r \in Requests, StoreChunk(r)
  PROVE  /\ Moves(r) /\ req[r].pc = "store" /\ req'[r].pc = "record" /\ Same(r)
         /\ chunks' = chunks \cup {req[r].idx}
         /\ UNCHANGED <<tracked, final, jobs, acked, outcome, valid, expired, faults>>
<1>1. "record" \in Pcs
  BY DEF Pcs
<1> QED BY <1>1, GotoMoves DEF StoreChunk, At, client

LEMMA RecordChunkDoes ==
  ASSUME TypeOK, NEW r \in Requests, RecordChunk(r)
  PROVE  /\ Moves(r) /\ req[r].pc = "record" /\ req'[r].pc = "idle"
         /\ tracked' = tracked \cup {req[r].idx}
         /\ \/ acked' = acked \cup {req[r].idx} /\ UNCHANGED faults
            \/ Fault /\ UNCHANGED acked
         /\ UNCHANGED <<chunks, final, jobs, outcome, valid, expired>>
  BY DoneMoves DEF RecordChunk, At

LEMMA ListChunksDoes ==
  ASSUME TypeOK, NEW r \in Requests, ListChunks(r)
  PROVE  /\ Moves(r) /\ req[r].pc = "list"
         /\ \/ tracked = {} /\ req'[r].pc = "idle" /\ outcome' = "refused"
            \/ /\ tracked # {} /\ req'[r].pc = "total" /\ UNCHANGED outcome
               /\ req'[r].listed = tracked /\ req'[r].todo = tracked
         /\ UNCHANGED <<chunks, tracked, final, jobs, acked, valid, expired, faults>>
<1>1. CASE tracked = {}
  BY <1>1, DoneMoves DEF ListChunks, Refuse, At, stored
<1>2. CASE tracked # {}
  <2>1. PICK x : x = [req[r] EXCEPT !.pc = "total", !.listed = tracked, !.todo = tracked]
    OBVIOUS
  <2>2. x \in Request /\ x.pc = "total" /\ x.listed = tracked /\ x.todo = tracked
    <3>1. req[r] \in Request /\ tracked \in SUBSET Indices
      BY DEF TypeOK
    <3> QED BY <2>1, <3>1 DEF Request, Pcs
  <2>3. req \in [Requests -> Request] /\ req' = [req EXCEPT ![r] = x]
    BY <1>2, <2>1 DEF TypeOK, ListChunks
  <2> QED BY <1>2, <2>2, <2>3 DEF ListChunks, Moves, At, stored
<1> QED BY <1>1, <1>2

LEMMA CheckTotalDoes ==
  ASSUME TypeOK, NEW r \in Requests, CheckTotal(r)
  PROVE  /\ Moves(r) /\ req[r].pc = "total"
         /\ \/ Bytes(tracked) > MaxTotal /\ req'[r].pc = "idle" /\ outcome' = "refused"
            \/ req'[r].pc = "concat" /\ Same(r) /\ UNCHANGED outcome
         /\ UNCHANGED <<chunks, tracked, final, jobs, acked, valid, expired, faults>>
<1>1. "concat" \in Pcs
  BY DEF Pcs
<1> QED BY <1>1, GotoMoves, DoneMoves DEF CheckTotal, Refuse, At, stored

LEMMA ConcatChunkDoes ==
  ASSUME TypeOK, NEW r \in Requests, ConcatChunk(r)
  PROVE  /\ Moves(r) /\ req[r].pc = "concat"
         /\ \/ Least(req[r].todo) \notin chunks /\ req'[r].pc = "idle"
            \/ /\ Least(req[r].todo) \in chunks /\ req'[r].listed = req[r].listed
               /\ req'[r].todo = req[r].todo \ {Least(req[r].todo)}
               /\ req'[r].pc = IF req'[r].todo = {} THEN "probe" ELSE "concat"
         /\ UNCHANGED <<chunks, tracked, final, jobs, acked, outcome, valid, expired, faults>>
<1>1. PICK l : l = Least(req[r].todo)
  OBVIOUS
<1>2. CASE l \notin chunks
  BY <1>1, <1>2, DoneMoves DEF ConcatChunk, At, stored, client
<1>3. CASE l \in chunks
  <2>1. PICK x : x = [req[r] EXCEPT !.todo = req[r].todo \ {l},
                                    !.pc = IF req[r].todo \ {l} = {} THEN "probe" ELSE "concat"]
    OBVIOUS
  <2>2. /\ x \in Request /\ x.listed = req[r].listed /\ x.todo = req[r].todo \ {l}
        /\ x.pc = IF x.todo = {} THEN "probe" ELSE "concat"
    <3>1. req[r] \in Request /\ req[r].todo \ {l} \in SUBSET Indices
      BY DEF TypeOK, Request
    <3> QED BY <2>1, <3>1 DEF Request, Pcs
  <2>3. req \in [Requests -> Request] /\ req' = [req EXCEPT ![r] = x]
    BY <1>1, <1>3, <2>1 DEF TypeOK, ConcatChunk
  <2> QED BY <1>1, <1>3, <2>2, <2>3 DEF ConcatChunk, Moves, At, stored, client
<1> QED BY <1>2, <1>3

LEMMA ProbeDoes ==
  ASSUME TypeOK, NEW r \in Requests, Probe(r)
  PROVE  /\ Moves(r) /\ req[r].pc = "probe"
         /\ \/ /\ req[r].listed = Indices => valid
               /\ req'[r].pc = "final" /\ Same(r) /\ UNCHANGED <<outcome, faults>>
            \/ /\ req[r].listed = Indices => ~valid
               /\ req'[r].pc = "idle" /\ outcome' = "refused" /\ UNCHANGED faults
            \/ Fault /\ req'[r].pc = "idle" /\ outcome' = "refused"
         /\ UNCHANGED <<chunks, tracked, final, jobs, acked, valid, expired>>
<1>1. "final" \in Pcs
  BY DEF Pcs
<1> QED BY <1>1, GotoMoves, DoneMoves DEF Probe, Refuse, At, stored

LEMMA StoreFinalDoes ==
  ASSUME TypeOK, NEW r \in Requests, StoreFinal(r)
  PROVE  /\ Moves(r) /\ req[r].pc = "final" /\ req'[r].pc = "clean"
         /\ req'[r].listed = req[r].listed /\ req'[r].todo = req[r].listed
         /\ final' = req[r].listed
         /\ UNCHANGED <<chunks, tracked, jobs, acked, outcome, valid, expired, faults>>
<1>1. PICK x : x = [req[r] EXCEPT !.pc = "clean", !.todo = req[r].listed]
  OBVIOUS
<1>2. x \in Request /\ x.pc = "clean" /\ x.listed = req[r].listed /\ x.todo = req[r].listed
  <2>1. req[r] \in Request /\ req[r].listed \in SUBSET Indices
    BY DEF TypeOK, Request
  <2> QED BY <1>1, <2>1 DEF Request, Pcs
<1>3. req \in [Requests -> Request] /\ req' = [req EXCEPT ![r] = x]
  BY <1>1 DEF TypeOK, StoreFinal
<1> QED BY <1>2, <1>3 DEF StoreFinal, Moves, At, client

LEMMA DeleteNextDoes ==
  ASSUME TypeOK, NEW r \in Requests, NEW from \in Pcs, NEW to \in Pcs, DeleteNext(r, from, to)
  PROVE  /\ Moves(r) /\ req[r].pc = from
         /\ \/ /\ req[r].todo = {} /\ req'[r].pc = to /\ Same(r)
               /\ UNCHANGED <<chunks, faults>>
            \/ /\ req'[r].pc = from /\ req'[r].listed = req[r].listed
               /\ \E i \in req[r].todo :
                    /\ req'[r].todo = req[r].todo \ {i}
                    /\ \/ chunks' = chunks \ {i} /\ UNCHANGED faults
                       \/ Fault /\ UNCHANGED chunks
         /\ UNCHANGED <<tracked, final, jobs, acked, outcome, valid, expired>>
<1>1. /\ req[r].pc = from
      /\ UNCHANGED <<tracked, final, jobs, acked, outcome, valid, expired>>
  BY DEF DeleteNext, At, client
<1>2. CASE req[r].todo = {}
  BY <1>1, <1>2, GotoMoves DEF DeleteNext
<1>3. CASE req[r].todo # {}
  <2>1. PICK i \in req[r].todo :
          /\ req' = [req EXCEPT ![r].todo = @ \ {i}]
          /\ \/ chunks' = chunks \ {i} /\ UNCHANGED faults
             \/ Fault /\ UNCHANGED chunks
    BY <1>3 DEF DeleteNext
  <2>2. PICK x : x = [req[r] EXCEPT !.todo = req[r].todo \ {i}]
    OBVIOUS
  <2>3. x \in Request /\ x.pc = from /\ x.listed = req[r].listed /\ x.todo = req[r].todo \ {i}
    <3>1. req[r] \in Request /\ req[r].todo \ {i} \in SUBSET Indices
      BY DEF TypeOK, Request
    <3> QED BY <1>1, <2>2, <3>1 DEF Request
  <2>4. req \in [Requests -> Request] /\ req' = [req EXCEPT ![r] = x]
    BY <2>1, <2>2 DEF TypeOK
  <2> QED BY <1>1, <2>1, <2>3, <2>4 DEF Moves
<1> QED BY <1>2, <1>3

LEMMA PurgeTrackerDoes ==
  ASSUME TypeOK, NEW r \in Requests, PurgeTracker(r)
  PROVE  /\ Moves(r) /\ req[r].pc = "purge" /\ req'[r].pc = "publish" /\ Same(r)
         /\ \/ tracked' = {} /\ UNCHANGED faults
            \/ Fault /\ UNCHANGED tracked
         /\ UNCHANGED <<chunks, final, jobs, acked, outcome, valid, expired>>
<1>1. "publish" \in Pcs
  BY DEF Pcs
<1> QED BY <1>1, GotoMoves DEF PurgeTracker, At, client

LEMMA PublishDoes ==
  ASSUME TypeOK, NEW r \in Requests, Publish(r)
  PROVE  /\ Moves(r) /\ req[r].pc = "publish" /\ req'[r].pc = "idle"
         /\ jobs < MaxJobs /\ jobs' = jobs + 1
         /\ \/ outcome' = "queued" /\ UNCHANGED faults
            \/ Fault /\ UNCHANGED outcome
         /\ UNCHANGED <<chunks, tracked, final, acked, valid, expired>>
  BY DoneMoves DEF Publish, At

LEMMA ListToDeleteDoes ==
  ASSUME TypeOK, NEW r \in Requests, ListToDelete(r)
  PROVE  /\ Moves(r) /\ req[r].pc = "dlist" /\ req'[r].pc = "dclean" /\ req'[r].todo = tracked
         /\ UNCHANGED <<chunks, tracked, final, jobs, acked, outcome, valid, expired, faults>>
<1>1. PICK x : x = [req[r] EXCEPT !.pc = "dclean", !.todo = tracked]
  OBVIOUS
<1>2. x \in Request /\ x.pc = "dclean" /\ x.todo = tracked
  <2>1. req[r] \in Request /\ tracked \in SUBSET Indices
    BY DEF TypeOK
  <2> QED BY <1>1, <2>1 DEF Request, Pcs
<1>3. req \in [Requests -> Request] /\ req' = [req EXCEPT ![r] = x]
  BY <1>1 DEF TypeOK, ListToDelete
<1> QED BY <1>2, <1>3 DEF ListToDelete, Moves, At, stored, client

LEMMA PurgeDeletedDoes ==
  ASSUME TypeOK, NEW r \in Requests, PurgeDeleted(r)
  PROVE  /\ Moves(r) /\ req[r].pc = "dpurge" /\ req'[r].pc = "idle"
         /\ outcome' = "deleted"
         /\ \/ tracked' = {} /\ UNCHANGED faults
            \/ Fault /\ UNCHANGED tracked
         /\ UNCHANGED <<chunks, final, jobs, acked, valid, expired>>
  BY DoneMoves DEF PurgeDeleted, At

LEMMA CallFailsDoes ==
  ASSUME TypeOK, NEW r \in Requests, CallFails(r)
  PROVE  /\ Moves(r) /\ req[r].pc # "idle" /\ req'[r].pc = "idle" /\ Fault
         /\ UNCHANGED <<chunks, tracked, final, jobs, acked, outcome, valid, expired>>
  BY DoneMoves DEF CallFails, FailingPcs, stored, client

LEMMA CrashDoes ==
  ASSUME TypeOK, Crash
  PROVE  /\ req' \in [Requests -> Request] /\ \A r \in Requests : req'[r].pc = "idle"
         /\ Fault /\ tracked' \in {{}, tracked} /\ (Tracker = "redis" => tracked' = tracked)
         /\ UNCHANGED <<chunks, final, jobs, acked, outcome, valid, expired>>
<1>1. Idle \in Request
  BY DEF Idle, Request, Pcs
<1> QED BY <1>1 DEF Crash, Idle, client

-----------------------------------------------------------------------------
(* Exclusion.                                                              *)

LEMMA Pcs4 ==
  /\ Pcs = {"idle"} \cup ChunkPcs \cup Closing
  /\ ChunkPcs \cap Closing = {} /\ "idle" \notin ChunkPcs \cup Closing
  /\ Closing = {"list"} \cup Listing \cup Storing \cup Deleting
  BY DEF Pcs, ChunkPcs, Closing, Listing, Storing, Deleting

\* A request for a chunk moves: no other kind of request is running.
ChunkStep(r) ==
  /\ Moves(r) /\ UNCHANGED <<final, jobs, valid, expired>>
  /\ \A s \in Requests : req[s].pc \notin Closing
  /\ req'[r].pc \in {"idle"} \cup ChunkPcs
  /\ outcome \in {"open", "refused"} /\ outcome' \in {outcome, "refused"}
  /\ \/ acked' = acked
     \/ acked' = acked \cup {req[r].idx} /\ req[r].pc = "record" /\ req'[r].pc = "idle"
  /\ req'[r].pc \in ChunkPcs =>
       /\ req'[r].idx \in Indices /\ req'[r].idx \notin acked
       /\ \A s \in Requests : s # r /\ req[s].pc \in ChunkPcs => req[s].idx # req'[r].idx

LEMMA ChunkStepKeeps ==
  ASSUME UploadInv, NEW r \in Requests, ChunkStep(r), TypeOK'
  PROVE  UploadInv'
<1>1. \A s \in Requests : req'[s].pc \notin Closing
  BY Pcs4 DEF ChunkStep, Moves
<1>2. \A s \in Requests : AloneOK(s)'
  BY <1>1 DEF AloneOK
<1>3. ASSUME NEW s \in Requests PROVE SendingOK(s)'
  <2>1. CASE s = r
    <3>1. req'[r].pc \in ChunkPcs => req'[r].idx \notin acked'
      BY Pcs4 DEF ChunkStep
    <3> QED BY <2>1, <3>1 DEF ChunkStep, Moves, SendingOK
  <2>2. CASE s # r
    <3>1. req'[s] = req[s] /\ SendingOK(s)
      BY <2>2 DEF ChunkStep, Moves, UploadInv
    <3>2. CASE req[s].pc \in ChunkPcs
      <4>1. req[s].idx \notin acked'
        <5>1. req[r].pc = "record" => req[r].idx # req[s].idx
          BY <2>2, <3>1, <3>2 DEF SendingOK, ChunkPcs
        <5> QED BY <3>1, <3>2, <5>1 DEF SendingOK, ChunkStep
      <4>2. ASSUME NEW q \in Requests, q # s, req'[q].pc \in ChunkPcs PROVE req'[q].idx # req[s].idx
        <5>1. CASE q = r
          BY <2>2, <3>2, <4>2, <5>1 DEF ChunkStep
        <5>2. CASE q # r
          BY <3>1, <3>2, <4>2, <5>2 DEF ChunkStep, Moves, SendingOK
        <5> QED BY <5>1, <5>2
      <4> QED BY <3>1, <3>2, <4>1, <4>2 DEF SendingOK
    <3>3. CASE req[s].pc \notin ChunkPcs
      BY <3>1, <3>3 DEF SendingOK
    <3> QED BY <3>2, <3>3
  <2> QED BY <2>1, <2>2
<1>4. outcome' \notin {"queued", "deleted"}
  BY DEF ChunkStep
<1>5. jobs' > 0 => acked' = Indices /\ final' # {}
  BY Sets DEF ChunkStep, UploadInv, TypeOK
<1> QED BY <1>2, <1>3, <1>4, <1>5 DEF UploadInv

\* A complete or delete request moves, alone.
ClosingStep(r) ==
  /\ Moves(r) /\ UNCHANGED acked
  /\ outcome = "open" /\ \A s \in Requests : s # r => req[s].pc = "idle"
  /\ req'[r].pc \in {"idle"} \cup Closing
  /\ req'[r].pc \in Closing =>
       /\ outcome' = "open"
       /\ req'[r].pc \notin Deleting => acked = Indices
       /\ req'[r].pc \in Listing \cup Storing => req'[r].listed # {}
       /\ req'[r].pc \in Storing => final' = req'[r].listed
  /\ jobs' > 0 => acked = Indices /\ final' # {}

LEMMA ClosingStepKeeps ==
  ASSUME UploadInv, NEW r \in Requests, ClosingStep(r), TypeOK'
  PROVE  UploadInv'
<1>1. \A s \in Requests : s # r => req'[s].pc = "idle"
  BY DEF ClosingStep, Moves
<1>2. \A s \in Requests : AloneOK(s)' /\ SendingOK(s)'
  BY <1>1, Pcs4 DEF ClosingStep, AloneOK, SendingOK
<1>3. outcome' \in {"queued", "deleted"} => \A s \in Requests : req'[s].pc = "idle"
  BY <1>1 DEF ClosingStep
<1> QED BY <1>2, <1>3 DEF ClosingStep, UploadInv

LEMMA FaultCounts ==
  ASSUME TypeOK, Fault
  PROVE  faults' = faults + 1 /\ faults' \in 0..MaxFaults /\ faults' > 0
  BY BoundsAssumption DEF TypeOK, Fault

\* Types follow from the moves.
LEMMA TypeKeeps ==
  ASSUME TypeOK, req' \in [Requests -> Request],
         chunks' \subseteq Indices, tracked' \subseteq Indices, final' \subseteq Indices,
         acked' \subseteq Indices, jobs' \in 0..MaxJobs, faults' = faults \/ Fault,
         outcome' \in {outcome, "open", "queued", "refused", "deleted"},
         UNCHANGED valid, expired' = expired \/ expired' = TRUE
  PROVE  TypeOK'
<1>1. faults' \in 0..MaxFaults
  BY Sets, FaultCounts
<1>2. valid' \in BOOLEAN /\ expired' \in BOOLEAN
  BY Zenon DEF TypeOK
<1> QED BY <1>1, <1>2 DEF TypeOK

\* In the steps of one request that has begun: chunk requests ...
LEMMA ChunkHandlers ==
  ASSUME UploadInv, NEW r \in Requests, CheckSize(r) \/ StoreChunk(r) \/ RecordChunk(r)
  PROVE  ChunkStep(r) /\ TypeOK'
<1>0. TypeOK
  BY DEF UploadInv
<1>1. req[r].pc \in ChunkPcs
  BY <1>0, CheckSizeDoes, StoreChunkDoes, RecordChunkDoes DEF ChunkPcs
<1>2. \A s \in Requests : req[s].pc \notin Closing
  <2>1. \A s \in Requests : s # r => (req[s].pc \in Closing => req[r].pc = "idle")
    BY DEF UploadInv, AloneOK
  <2> QED BY <1>1, <2>1, Pcs4
<1>3. /\ req[r].idx \in Indices /\ req[r].idx \notin acked
      /\ \A s \in Requests : s # r /\ req[s].pc \in ChunkPcs => req[s].idx # req[r].idx
  BY <1>1 DEF UploadInv, SendingOK
<1>4. outcome \in {"open", "refused"}
  BY <1>0, <1>1, Sets, Pcs4 DEF UploadInv
<1>5. CASE CheckSize(r)
  <2>1. ChunkStep(r)
    BY <1>0, <1>1, <1>2, <1>3, <1>4, <1>5, CheckSizeDoes DEF ChunkStep, ChunkPcs, Same
  <2>2. TypeOK'
    BY <1>0, <1>5, CheckSizeDoes, Sets, TypeKeeps DEF Moves
  <2> QED BY <2>1, <2>2
<1>6. CASE StoreChunk(r)
  <2>1. ChunkStep(r)
    BY <1>0, <1>1, <1>2, <1>3, <1>4, <1>6, StoreChunkDoes DEF ChunkStep, ChunkPcs, Same
  <2>2. TypeOK'
    BY <1>0, <1>3, <1>6, StoreChunkDoes, Sets, TypeKeeps DEF Moves
  <2> QED BY <2>1, <2>2
<1>7. CASE RecordChunk(r)
  <2>1. ChunkStep(r)
    BY <1>0, <1>1, <1>2, <1>3, <1>4, <1>7, RecordChunkDoes DEF ChunkStep, ChunkPcs
  <2>2. TypeOK'
    BY <1>0, <1>3, <1>7, RecordChunkDoes, Sets, TypeKeeps DEF Moves
  <2> QED BY <2>1, <2>2
<1> QED BY <1>5, <1>6, <1>7

\* ... and the others.
ClosingHandler(r) ==
  \/ ListChunks(r) \/ CheckTotal(r) \/ ConcatChunk(r) \/ Probe(r) \/ StoreFinal(r)
  \/ CleanChunk(r) \/ PurgeTracker(r) \/ Publish(r)
  \/ ListToDelete(r) \/ DeleteChunk(r) \/ PurgeDeleted(r)

LEMMA ClosingHandlers ==
  ASSUME UploadInv, NEW r \in Requests, ClosingHandler(r)
  PROVE  req[r].pc \in Closing /\ ClosingStep(r) /\ TypeOK'
<1>0. TypeOK /\ AloneOK(r) /\ (jobs > 0 => acked = Indices /\ final # {})
  BY DEF UploadInv
<1> USE <1>0 DEF ClosingStep, AloneOK, Closing, Listing, Storing, Deleting
<1>1. CASE ListChunks(r)
  <2>1. req[r].pc \in Closing /\ ClosingStep(r)
    BY <1>1, ListChunksDoes
  <2>2. TypeOK'
    BY <1>1, ListChunksDoes, Sets, TypeKeeps DEF Moves
  <2> QED BY <2>1, <2>2
<1>2. CASE CheckTotal(r)
  <2>1. req[r].pc \in Closing /\ ClosingStep(r)
    BY <1>2, CheckTotalDoes DEF Same
  <2>2. TypeOK'
    BY <1>2, CheckTotalDoes, Sets, TypeKeeps DEF Moves
  <2> QED BY <2>1, <2>2
<1>3. CASE ConcatChunk(r)
  <2>1. req[r].pc \in Closing /\ ClosingStep(r)
    BY <1>3, ConcatChunkDoes
  <2>2. TypeOK'
    BY <1>3, ConcatChunkDoes, Sets, TypeKeeps DEF Moves
  <2> QED BY <2>1, <2>2
<1>4. CASE Probe(r)
  <2>1. req[r].pc \in Closing /\ ClosingStep(r)
    BY <1>4, ProbeDoes DEF Same
  <2>2. TypeOK'
    BY <1>4, ProbeDoes, Sets, TypeKeeps DEF Moves
  <2> QED BY <2>1, <2>2
<1>5. CASE StoreFinal(r)
  <2>1. req[r].pc \in Closing /\ ClosingStep(r)
    BY <1>5, StoreFinalDoes
  <2>2. TypeOK'
    BY <1>5, StoreFinalDoes, Sets, TypeKeeps DEF Moves
  <2> QED BY <2>1, <2>2
<1>6. CASE CleanChunk(r)
  <2>0. /\ Moves(r) /\ req[r].pc = "clean" /\ req'[r].pc \in {"clean", "purge"}
        /\ req'[r].listed = req[r].listed /\ chunks' \subseteq chunks /\ (faults' = faults \/ Fault)
        /\ UNCHANGED <<tracked, final, jobs, acked, outcome, valid, expired>>
    BY <1>6, DeleteNextDoes DEF CleanChunk, Same, Pcs
  <2>1. req[r].pc \in Closing /\ ClosingStep(r)
    BY <2>0
  <2>2. TypeOK'
    BY <2>0, Sets, TypeKeeps DEF Moves
  <2> QED BY <2>1, <2>2
<1>7. CASE PurgeTracker(r)
  <2>1. req[r].pc \in Closing /\ ClosingStep(r)
    BY <1>7, PurgeTrackerDoes DEF Same
  <2>2. TypeOK'
    BY <1>7, PurgeTrackerDoes, Sets, TypeKeeps DEF Moves
  <2> QED BY <2>1, <2>2
<1>8. CASE Publish(r)
  <2>1. req[r].pc \in Closing
    BY <1>8, PublishDoes
  <2>2. ClosingStep(r)
    <3>1. final # {}
      BY <1>8, PublishDoes
    <3> QED BY <1>8, <3>1, PublishDoes
  <2>3. TypeOK'
    <3>1. jobs' \in 0..MaxJobs
      BY <1>8, PublishDoes, Sets, BoundsAssumption
    <3> QED BY <1>8, <3>1, PublishDoes, Sets, TypeKeeps DEF Moves
  <2> QED BY <2>1, <2>2, <2>3
<1>9. CASE ListToDelete(r)
  <2>1. req[r].pc \in Closing /\ ClosingStep(r)
    BY <1>9, ListToDeleteDoes
  <2>2. TypeOK'
    BY <1>9, ListToDeleteDoes, Sets, TypeKeeps DEF Moves
  <2> QED BY <2>1, <2>2
<1>10. CASE DeleteChunk(r)
  <2>0. /\ Moves(r) /\ req[r].pc = "dclean" /\ req'[r].pc \in {"dclean", "dpurge"}
        /\ chunks' \subseteq chunks /\ (faults' = faults \/ Fault)
        /\ UNCHANGED <<tracked, final, jobs, acked, outcome, valid, expired>>
    BY <1>10, DeleteNextDoes DEF DeleteChunk, Pcs
  <2>1. req[r].pc \in Closing /\ ClosingStep(r)
    BY <2>0
  <2>2. TypeOK'
    BY <2>0, Sets, TypeKeeps DEF Moves
  <2> QED BY <2>1, <2>2
<1>11. CASE PurgeDeleted(r)
  <2>1. req[r].pc \in Closing /\ ClosingStep(r)
    BY <1>11, PurgeDeletedDoes
  <2>2. TypeOK'
    BY <1>11, PurgeDeletedDoes, Sets, TypeKeeps DEF Moves
  <2> QED BY <2>1, <2>2
<1> QED BY <1>1, <1>2, <1>3, <1>4, <1>5, <1>6, <1>7, <1>8, <1>9, <1>10, <1>11 DEF ClosingHandler

LEMMA InitUpload == Init => UploadInv
<1> SUFFICES ASSUME Init PROVE UploadInv
  OBVIOUS
<1>1. Idle \in Request
  BY DEF Idle, Request, Pcs
<1>2. valid \in BOOLEAN /\ expired \in BOOLEAN
  BY Zenon DEF Init
<1>3. TypeOK
  BY <1>1, <1>2, BoundsAssumption DEF Init, TypeOK
<1>4. \A r \in Requests : req[r].pc = "idle"
  BY DEF Init, Idle
<1> QED BY <1>3, <1>4, Pcs4 DEF Init, UploadInv, AloneOK, SendingOK

\* A client that starts a request as docs/api.md has it.
LEMMA Sends ==
  ASSUME Documented, UploadInv, NEW r \in Requests,
         (\E i \in Indices : SendChunk(r, i)) \/ SendComplete(r) \/ SendDelete(r)
  PROVE  /\ (\E i \in Indices : SendChunk(r, i)) => ChunkStep(r)
         /\ SendComplete(r) \/ SendDelete(r) => ClosingStep(r)
         /\ TypeOK'
<1>0. TypeOK /\ (jobs > 0 => acked = Indices /\ final # {})
  BY DEF UploadInv
<1>1. ASSUME NEW i \in Indices, SendChunk(r, i) PROVE ChunkStep(r) /\ TypeOK'
  <2>1. ChunkStep(r)
    BY <1>0, <1>1, SendChunkDoes DEF ChunkStep, ChunkPcs
  <2>2. TypeOK'
    BY <1>0, <1>1, SendChunkDoes, Sets, TypeKeeps DEF Moves
  <2> QED BY <2>1, <2>2
<1>2. ASSUME SendComplete(r) PROVE ClosingStep(r) /\ TypeOK'
  <2>1. ClosingStep(r)
    BY <1>0, <1>2, SendCompleteDoes DEF ClosingStep, Closing, Listing, Storing, Deleting
  <2>2. TypeOK'
    BY <1>0, <1>2, SendCompleteDoes, Sets, TypeKeeps DEF Moves
  <2> QED BY <2>1, <2>2
<1>3. ASSUME SendDelete(r) PROVE ClosingStep(r) /\ TypeOK'
  <2>1. ClosingStep(r)
    BY <1>0, <1>3, SendDeleteDoes DEF ClosingStep, Closing, Listing, Storing, Deleting
  <2>2. TypeOK'
    BY <1>0, <1>3, SendDeleteDoes, Sets, TypeKeeps DEF Moves
  <2> QED BY <2>1, <2>2
<1> QED BY <1>1, <1>2, <1>3

\* A request or the process fails; the tracker's key runs out.
LEMMA FailuresKeep ==
  ASSUME UploadInv,
         (\E r \in Requests : CallFails(r)) \/ Crash \/ TrackerExpires
  PROVE  UploadInv'
<1>0. TypeOK
  BY DEF UploadInv
<1>1. ASSUME NEW r \in Requests, CallFails(r) PROVE UploadInv'
  <2>1. TypeOK'
    BY <1>0, <1>1, CallFailsDoes, Sets, TypeKeeps DEF Moves
  <2>2. \A s \in Requests : req'[s] = req[s] \/ req'[s].pc = "idle"
    BY <1>0, <1>1, CallFailsDoes DEF Moves
  <2>3. ASSUME NEW s \in Requests PROVE AloneOK(s)' /\ SendingOK(s)'
    <3>1. AloneOK(s) /\ SendingOK(s)
      BY DEF UploadInv
    <3> QED BY <1>0, <1>1, <2>2, <3>1, CallFailsDoes, Pcs4 DEF AloneOK, SendingOK
  <2>4. outcome' \in {"queued", "deleted"} => \A s \in Requests : req'[s].pc = "idle"
    BY <1>0, <1>1, <2>2, CallFailsDoes DEF UploadInv
  <2>5. jobs' > 0 => acked' = Indices /\ final' # {}
    BY <1>0, <1>1, CallFailsDoes DEF UploadInv
  <2> QED BY <2>1, <2>3, <2>4, <2>5 DEF UploadInv
<1>2. ASSUME Crash PROVE UploadInv'
  <2>1. TypeOK'
    BY <1>0, <1>2, CrashDoes, Sets, TypeKeeps
  <2>2. \A s \in Requests : AloneOK(s)' /\ SendingOK(s)'
    BY <1>0, <1>2, CrashDoes, Pcs4 DEF AloneOK, SendingOK
  <2> QED BY <1>0, <1>2, <2>1, <2>2, CrashDoes DEF UploadInv
<1>3. ASSUME TrackerExpires PROVE UploadInv'
  <2>1. /\ UNCHANGED <<chunks, final, jobs, req, acked, outcome, valid, faults>>
        /\ tracked' = {} /\ expired' = TRUE
    BY <1>3 DEF TrackerExpires
  <2>2. TypeOK'
    BY <1>0, <2>1, Sets, TypeKeeps
  <2> QED BY <2>1, <2>2 DEF UploadInv, AloneOK, SendingOK
<1> QED BY <1>1, <1>2, <1>3

LEMMA NextCases ==
  ASSUME Next
  PROVE  \/ \E r \in Requests :
              \/ (\E i \in Indices : SendChunk(r, i)) \/ SendComplete(r) \/ SendDelete(r)
              \/ CheckSize(r) \/ StoreChunk(r) \/ RecordChunk(r) \/ ClosingHandler(r)
              \/ CallFails(r)
         \/ Crash \/ TrackerExpires
  BY DEF Next, Handler, ClosingHandler

LEMMA UploadInvStep ==
  ASSUME Documented, UploadInv, [Next]_vars
  PROVE  UploadInv'
<1>1. ASSUME NEW r \in Requests,
             (\E i \in Indices : SendChunk(r, i)) \/ SendComplete(r) \/ SendDelete(r)
      PROVE  UploadInv'
  BY <1>1, Sends, ChunkStepKeeps, ClosingStepKeeps
<1>2. ASSUME NEW r \in Requests, CheckSize(r) \/ StoreChunk(r) \/ RecordChunk(r)
      PROVE  UploadInv'
  BY <1>2, ChunkHandlers, ChunkStepKeeps
<1>3. ASSUME NEW r \in Requests, ClosingHandler(r) PROVE UploadInv'
  BY <1>3, ClosingHandlers, ClosingStepKeeps
<1>4. CASE UNCHANGED vars
  BY <1>4 DEF vars, UploadInv, TypeOK, AloneOK, SendingOK
<1> QED BY <1>1, <1>2, <1>3, <1>4, FailuresKeep, NextCases

-----------------------------------------------------------------------------
(* Store, tracker and answers.                                             *)

Undisturbed == faults = 0 /\ ~expired
OnlyChunksRun == \A r \in Requests : req[r].pc \notin Closing

\* Between the chunk requests, a chunk that is stored is recorded or about to be.
BetweenOK ==
  OnlyChunksRun =>
    /\ outcome = "open" =>
         /\ acked \subseteq tracked /\ tracked \subseteq chunks
         /\ \A i \in chunks :
              i \in tracked \/ \E r \in Requests : req[r].pc = "record" /\ req[r].idx = i
    /\ outcome \in {"queued", "deleted"} => chunks = {} /\ tracked = {}

\* A closing request finds the store and the tracker in agreement and takes them down together.
TakenDownOK(r) ==
  /\ req[r].pc \in {"list", "dlist"} \cup Listing => acked \subseteq tracked /\ tracked = chunks
  /\ req[r].pc \in Listing \cup {"clean"} => req[r].listed = tracked
  /\ req[r].pc = "total" => req[r].todo = tracked
  /\ req[r].pc = "concat" => req[r].todo \subseteq tracked /\ req[r].todo # {}
  /\ req[r].pc \in {"clean", "dclean"} => chunks \subseteq req[r].todo
  /\ req[r].pc \in {"purge", "publish", "dpurge"} => chunks = {}
  /\ req[r].pc = "publish" => tracked = {}

CleanInv ==
  /\ \A r \in Requests : req[r].pc = "record" => req[r].idx \in chunks
  /\ Undisturbed => /\ tracked \subseteq acked
                    /\ BetweenOK
                    /\ \A r \in Requests : TakenDownOK(r)

\* A request that is no complete or delete one owes nothing.
LEMMA OwesNothing ==
  ASSUME NEW r \in Requests, req[r].pc \notin Closing
  PROVE  TakenDownOK(r)
  BY DEF TakenDownOK, Closing, Listing

LEMMA CleanSends ==
  ASSUME Documented, UploadInv, CleanInv, NEW r \in Requests,
         (\E i \in Indices : SendChunk(r, i)) \/ SendComplete(r) \/ SendDelete(r)
  PROVE  CleanInv'
<1>0. TypeOK
  BY DEF UploadInv
<1>1. ASSUME NEW i \in Indices, SendChunk(r, i) PROVE CleanInv'
  <2>1. /\ Moves(r) /\ req[r].pc = "idle" /\ req'[r].pc = "size"
        /\ UNCHANGED <<chunks, tracked, final, jobs, acked, outcome, valid, expired, faults>>
        /\ \A s \in Requests : req[s].pc \notin Closing
    BY <1>0, <1>1, SendChunkDoes
  <2>2. \A s \in Requests : req'[s].pc = "record" => req'[s].idx \in chunks'
    BY <2>1 DEF Moves, CleanInv
  <2>3. Undisturbed' => BetweenOK'
    <3>1. \A s \in Requests : req[s].pc = "record" => req'[s] = req[s]
      BY <2>1 DEF Moves
    <3> QED BY <2>1, <3>1 DEF CleanInv, BetweenOK, Undisturbed, OnlyChunksRun
  <2>4. \A s \in Requests : req'[s].pc \notin Closing
    BY <2>1 DEF Moves, Closing
  <2>5. \A s \in Requests : TakenDownOK(s)'
    BY <2>4 DEF TakenDownOK, Closing, Listing
  <2> QED BY <2>1, <2>2, <2>3, <2>5 DEF CleanInv, Undisturbed
<1>2. ASSUME SendComplete(r) \/ SendDelete(r) PROVE CleanInv'
  <2>1. /\ Moves(r) /\ req'[r].pc \in {"list", "dlist"}
        /\ outcome = "open" /\ \A s \in Requests : req[s].pc = "idle"
        /\ UNCHANGED <<chunks, tracked, final, jobs, acked, outcome, valid, expired, faults>>
    BY <1>0, <1>2, SendCompleteDoes, SendDeleteDoes
  <2>2. /\ \A s \in Requests : s # r => req'[s].pc = "idle"
        /\ OnlyChunksRun
    BY <2>1 DEF Moves, OnlyChunksRun, Closing
  <2>3. \A s \in Requests : req'[s].pc # "record"
    BY <2>1, <2>2
  <2>4. ~OnlyChunksRun'
    BY <2>1 DEF OnlyChunksRun, Closing
  <2>5. ASSUME Undisturbed PROVE acked \subseteq tracked /\ tracked = chunks
        /\ tracked \subseteq acked
    BY <2>1, <2>2, <2>5 DEF CleanInv, BetweenOK
  <2>6. ASSUME Undisturbed', NEW s \in Requests PROVE TakenDownOK(s)'
    BY <2>1, <2>2, <2>5, <2>6 DEF TakenDownOK, Listing, Undisturbed
  <2> QED BY <2>1, <2>3, <2>4, <2>5, <2>6 DEF CleanInv, BetweenOK, Undisturbed
<1> QED BY <1>1, <1>2

LEMMA CleanChunkHandlers ==
  ASSUME UploadInv, CleanInv, NEW r \in Requests, CheckSize(r) \/ StoreChunk(r) \/ RecordChunk(r)
  PROVE  CleanInv'
<1>0. TypeOK /\ ChunkStep(r)
  BY ChunkHandlers DEF UploadInv
<1>1. OnlyChunksRun /\ \A s \in Requests : TakenDownOK(s)'
  <2>1. \A s \in Requests : req'[s].pc \notin Closing
    BY <1>0, Pcs4 DEF ChunkStep, Moves
  <2> QED BY <1>0, <2>1 DEF TakenDownOK, Closing, Listing, ChunkStep, OnlyChunksRun
<1>2. CASE CheckSize(r)
  <2>1. /\ Moves(r) /\ req[r].pc = "size" /\ req'[r].pc \in {"idle", "store"}
        /\ outcome' = outcome \/ outcome' = "refused"
        /\ UNCHANGED <<chunks, tracked, final, jobs, acked, valid, expired, faults>>
    BY <1>0, <1>2, CheckSizeDoes
  <2>2. \A s \in Requests : IF s = r THEN req[s].pc # "record" /\ req'[s].pc # "record"
                                     ELSE req'[s] = req[s]
    BY <2>1 DEF Moves
  <2>3. \A s \in Requests : req'[s].pc = "record" => req'[s].idx \in chunks'
    BY <2>1, <2>2 DEF CleanInv
  <2>4. Undisturbed' => BetweenOK' /\ tracked' \subseteq acked'
    BY <1>1, <2>1, <2>2 DEF CleanInv, BetweenOK, Undisturbed
  <2> QED BY <1>1, <2>3, <2>4 DEF CleanInv
<1>3. CASE StoreChunk(r)
  <2>1. /\ Moves(r) /\ req[r].pc = "store" /\ req'[r].pc = "record" /\ req'[r].idx = req[r].idx
        /\ chunks' = chunks \cup {req[r].idx}
        /\ UNCHANGED <<tracked, final, jobs, acked, outcome, valid, expired, faults>>
    BY <1>0, <1>3, StoreChunkDoes DEF Same
  <2>2. \A s \in Requests : IF s = r THEN req[s].pc # "record" ELSE req'[s] = req[s]
    BY <2>1 DEF Moves
  <2>3. \A s \in Requests : req'[s].pc = "record" => req'[s].idx \in chunks'
    BY <2>1, <2>2 DEF CleanInv
  <2>4. ASSUME Undisturbed' PROVE BetweenOK' /\ tracked' \subseteq acked'
    <3>1. Undisturbed /\ BetweenOK /\ tracked \subseteq acked
      BY <2>1, <2>4 DEF CleanInv, Undisturbed
    <3>2. outcome \notin {"queued", "deleted"}
      BY <1>0 DEF ChunkStep
    <3>3. outcome = "open" => \A i \in chunks' :
            i \in tracked \/ \E s \in Requests : req'[s].pc = "record" /\ req'[s].idx = i
      BY <1>1, <2>1, <2>2, <3>1 DEF BetweenOK
    <3> QED BY <1>1, <2>1, <3>1, <3>2, <3>3 DEF BetweenOK
  <2> QED BY <1>1, <2>3, <2>4 DEF CleanInv
<1>4. CASE RecordChunk(r)
  <2>1. /\ Moves(r) /\ req[r].pc = "record" /\ req'[r].pc = "idle"
        /\ tracked' = tracked \cup {req[r].idx} /\ req[r].idx \in chunks
        /\ (acked' = acked \cup {req[r].idx} /\ faults' = faults) \/ faults' > 0
        /\ UNCHANGED <<chunks, final, jobs, outcome, valid, expired>>
    BY <1>0, <1>4, RecordChunkDoes, FaultCounts DEF CleanInv
  <2>2. \A s \in Requests : s # r => req'[s] = req[s]
    BY <2>1 DEF Moves
  <2>3. \A s \in Requests : req'[s].pc = "record" => req'[s].idx \in chunks'
    BY <2>1, <2>2 DEF CleanInv
  <2>4. ASSUME Undisturbed' PROVE BetweenOK' /\ tracked' \subseteq acked'
    <3>1. /\ Undisturbed /\ BetweenOK /\ tracked \subseteq acked
          /\ acked' = acked \cup {req[r].idx}
      BY <2>1, <2>4 DEF CleanInv, Undisturbed
    <3>2. outcome \notin {"queued", "deleted"}
      BY <1>0 DEF ChunkStep
    <3>3. outcome = "open" => \A i \in chunks :
            i \in tracked' \/ \E s \in Requests : req'[s].pc = "record" /\ req'[s].idx = i
      BY <1>1, <2>1, <2>2, <3>1 DEF BetweenOK
    <3> QED BY <1>1, <2>1, <3>1, <3>2, <3>3 DEF BetweenOK
  <2> QED BY <1>1, <2>3, <2>4 DEF CleanInv
<1> QED BY <1>2, <1>3, <1>4

\* Every set of chunk indices that is not empty has a least one.
LEMMA LeastIn ==
  ASSUME NEW S, S \subseteq Indices, S # {}
  PROVE  Least(S) \in S
<1>1. S \subseteq Nat
  BY IndicesAssumption
<1>2. PICK i \in S : \A k \in S : ~ <<k, i>> \in OpToRel(<, Nat)
  BY <1>1, NatLessThanWellFounded, WFMin
<1>3. ASSUME NEW k \in S PROVE i <= k
  <2>1. k \in Nat /\ i \in Nat /\ <<k, i>> \in Nat \X Nat
    BY <1>1, <1>2
  <2>2. OpToRel(<, Nat) = {ss \in Nat \X Nat : ss[1] < ss[2]}
    BY DEF OpToRel
  <2>3. ~ (k < i)
    BY <1>2, <1>3, <2>1, <2>2
  <2> QED BY <2>1, <2>3
<1> QED BY <1>3 DEF Least

LEMMA CleanClosingKeeps ==
  ASSUME UploadInv, CleanInv, NEW r \in Requests, req[r].pc \in Closing, ClosingStep(r),
         Undisturbed' =>
           /\ tracked' \subseteq acked' /\ TakenDownOK(r)'
           /\ req'[r].pc = "idle" =>
                /\ outcome' = "open" => acked' \subseteq tracked' /\ tracked' = chunks'
                /\ outcome' \in {"queued", "deleted"} => chunks' = {} /\ tracked' = {}
  PROVE  CleanInv'
<1>1. \A s \in Requests : s # r => req'[s].pc = "idle"
  BY DEF ClosingStep, Moves
<1>2. \A s \in Requests : req'[s].pc # "record"
  BY <1>1, Pcs4 DEF ClosingStep, ChunkPcs
<1>3. \A s \in Requests : s # r => TakenDownOK(s)'
  BY <1>1 DEF TakenDownOK, Listing
<1>4. OnlyChunksRun' => req'[r].pc = "idle"
  BY DEF OnlyChunksRun, ClosingStep
<1> QED BY <1>2, <1>3, <1>4 DEF CleanInv, BetweenOK

LEMMA CleanClosingHandlers ==
  ASSUME UploadInv, CleanInv, NEW r \in Requests, ClosingHandler(r)
  PROVE  CleanInv'
<1>0. TypeOK /\ ClosingStep(r) /\ req[r].pc \in Closing /\ AloneOK(r)
  BY ClosingHandlers DEF UploadInv
<1>1. Undisturbed => tracked \subseteq acked /\ TakenDownOK(r)
  BY DEF CleanInv
<1>2. expired' = expired /\ (faults' = faults \/ faults' > 0) /\ acked' = acked
  BY <1>0, ListChunksDoes, CheckTotalDoes, ConcatChunkDoes, ProbeDoes, StoreFinalDoes,
     DeleteNextDoes, PurgeTrackerDoes, PublishDoes, ListToDeleteDoes, PurgeDeletedDoes,
     FaultCounts DEF ClosingHandler, CleanChunk, DeleteChunk, Pcs
<1>3. SUFFICES ASSUME Undisturbed'
               PROVE  /\ tracked' \subseteq acked' /\ TakenDownOK(r)'
                      /\ req'[r].pc = "idle" =>
                           /\ outcome' = "open" => acked' \subseteq tracked' /\ tracked' = chunks'
                           /\ outcome' \in {"queued", "deleted"} => chunks' = {} /\ tracked' = {}
  BY <1>0, <1>3, CleanClosingKeeps
<1>4. /\ Undisturbed /\ faults' = faults /\ ~(faults' > 0)
      /\ tracked \subseteq acked /\ TakenDownOK(r) /\ acked' = acked
  BY <1>0, <1>1, <1>2, <1>3, Sets DEF Undisturbed
<1> USE <1>4 DEF TakenDownOK, Listing
<1>5. CASE ListChunks(r)
  BY <1>0, <1>5, ListChunksDoes
<1>6. CASE CheckTotal(r)
  BY <1>0, <1>6, CheckTotalDoes DEF Same, AloneOK, Closing
<1>7. CASE ConcatChunk(r)
  <2>1. req[r].pc = "concat" /\ req[r].todo \subseteq Indices
    BY <1>0, <1>7, ConcatChunkDoes, Sets
  <2>2. Least(req[r].todo) \in chunks
    BY <2>1, LeastIn
  <2> QED BY <1>0, <1>7, <2>2, ConcatChunkDoes
<1>8. CASE Probe(r)
  BY <1>0, <1>8, ProbeDoes, FaultCounts DEF Same
<1>9. CASE StoreFinal(r)
  BY <1>0, <1>9, StoreFinalDoes
<1>10. CASE CleanChunk(r)
  <2>1. /\ req[r].pc = "clean" /\ tracked' = tracked
        /\ \/ req[r].todo = {} /\ req'[r].pc = "purge" /\ chunks' = chunks
           \/ /\ req'[r].pc = "clean" /\ req'[r].listed = req[r].listed
              /\ \E i \in req[r].todo : req'[r].todo = req[r].todo \ {i} /\ chunks' = chunks \ {i}
    BY <1>0, <1>10, DeleteNextDoes, FaultCounts DEF CleanChunk, Pcs
  <2> QED BY <2>1
<1>11. CASE PurgeTracker(r)
  BY <1>0, <1>11, PurgeTrackerDoes, FaultCounts
<1>12. CASE Publish(r)
  BY <1>0, <1>12, PublishDoes, FaultCounts
<1>13. CASE ListToDelete(r)
  BY <1>0, <1>13, ListToDeleteDoes
<1>14. CASE DeleteChunk(r)
  <2>1. /\ req[r].pc = "dclean" /\ tracked' = tracked
        /\ \/ req[r].todo = {} /\ req'[r].pc = "dpurge" /\ chunks' = chunks
           \/ /\ req'[r].pc = "dclean"
              /\ \E i \in req[r].todo : req'[r].todo = req[r].todo \ {i} /\ chunks' = chunks \ {i}
    BY <1>0, <1>14, DeleteNextDoes, FaultCounts DEF DeleteChunk, Pcs
  <2> QED BY <2>1
<1>15. CASE PurgeDeleted(r)
  BY <1>0, <1>15, PurgeDeletedDoes, FaultCounts
<1> QED BY <1>5, <1>6, <1>7, <1>8, <1>9, <1>10, <1>11, <1>12, <1>13, <1>14, <1>15 DEF ClosingHandler

\* After a failure, or once the tracker expired, nothing more is claimed of store and tracker.
LEMMA CleanFailures ==
  ASSUME UploadInv, CleanInv,
         (\E r \in Requests : CallFails(r)) \/ Crash \/ TrackerExpires
  PROVE  CleanInv'
<1>1. TypeOK
  BY DEF UploadInv
<1>2. ~Undisturbed'
  BY <1>1, CallFailsDoes, CrashDoes, FaultCounts DEF TrackerExpires, Undisturbed
<1>3. chunks' = chunks /\ \A r \in Requests : req'[r] = req[r] \/ req'[r].pc = "idle"
  BY <1>1, CallFailsDoes, CrashDoes DEF Moves, TrackerExpires
<1> QED BY <1>2, <1>3 DEF CleanInv

LEMMA CleanInit == Init => CleanInv
<1> SUFFICES ASSUME Init PROVE CleanInv
  OBVIOUS
<1>1. \A r \in Requests : req[r].pc = "idle"
  BY DEF Init, Idle
<1> QED BY <1>1 DEF Init, CleanInv, BetweenOK, TakenDownOK, Listing

LEMMA CleanStep ==
  ASSUME Documented, UploadInv, CleanInv, [Next]_vars
  PROVE  CleanInv'
<1>1. CASE UNCHANGED vars
  BY <1>1 DEF vars, CleanInv, BetweenOK, TakenDownOK, Undisturbed, OnlyChunksRun
<1> QED BY <1>1, CleanSends, CleanChunkHandlers, CleanClosingHandlers, CleanFailures, NextCases

\* With a documented client, what was answered with 200 is in store and tracker until the
\* upload is completed or deleted, and then both are empty.
THEOREM ChunksAccountedHolds ==
  ASSUME Documented
  PROVE  Spec => []ChunksAccounted
<1>1. UploadInv /\ CleanInv => ChunksAccounted
  <2> SUFFICES ASSUME UploadInv, CleanInv PROVE TypeOK /\ AcknowledgedKept /\ NothingLeftBehind
    BY DEF ChunksAccounted
  <2>1. OnlyChunks => OnlyChunksRun
    BY DEF OnlyChunks, OnlyChunksRun, Closing
  <2>2. outcome \in {"queued", "deleted"} => OnlyChunksRun
    BY DEF UploadInv, OnlyChunksRun, Closing
  <2>3. AcknowledgedKept
    BY <2>1 DEF AcknowledgedKept, CleanInv, BetweenOK, Undisturbed
  <2>4. NothingLeftBehind
    BY <2>2 DEF NothingLeftBehind, CleanInv, BetweenOK, Undisturbed
  <2> QED BY <2>3, <2>4 DEF UploadInv
<1>2. UploadInv /\ CleanInv /\ [Next]_vars => UploadInv' /\ CleanInv'
  BY UploadInvStep, CleanStep
<1> QED BY <1>1, <1>2, InitUpload, CleanInit, PTL DEF Spec

-----------------------------------------------------------------------------
(* The bytes of a set of chunks.  Induction over the sets is by a smallest *)
(* counterexample.                                                         *)

\* A collection of finite sets that is not empty has a smallest one.
LEMMA SmallestSet ==
  ASSUME NEW C, C \subseteq SUBSET Indices, C # {}
  PROVE  \E S \in C : \A U \in C : U \subseteq S => U = S
<1>1. C \subseteq FiniteSubsetsOf(Indices)
  BY IndicesAssumption, FS_Subset DEF FiniteSubsetsOf
<1>2. PICK S \in C : \A U \in C : ~ <<U, S>> \in StrictSubsetOrdering(Indices)
  BY <1>1, FS_StrictSubsetOrderingWellFounded, WFMin
<1> QED BY <1>2 DEF StrictSubsetOrdering

AnyOf(S) == CHOOSE i \in S : TRUE
Rest(S) == S \ {AnyOf(S)}
\* The table the fold computes for the subsets of S.
IsSum(f, S) == f = [s \in SUBSET S |-> IF s = {} THEN 0 ELSE SizeOf[AnyOf(s)] + f[Rest(s)]]

LEMMA BytesTable ==
  ASSUME NEW S
  PROVE  Bytes(S) = (CHOOSE f : IsSum(f, S))[S]
  BY DEF Bytes, MapThenSumSet, MapThenFoldSet, IsSum, AnyOf, Rest

LEMMA PickIn ==
  ASSUME NEW S, S # {}
  PROVE  AnyOf(S) \in S /\ Rest(S) \subseteq S /\ Rest(S) # S
<1>1. AnyOf(S) \in S
  BY DEF AnyOf
<1> QED BY <1>1 DEF Rest

LEMMA SumsAgree ==
  ASSUME NEW f, NEW A \in SUBSET Indices, IsSum(f, A), NEW g, NEW B \in SUBSET Indices, IsSum(g, B),
         NEW S, S \subseteq A, S \subseteq B
  PROVE  f[S] = g[S]
<1>1. SUFFICES ASSUME {T \in SUBSET Indices : T \subseteq A /\ T \subseteq B /\ f[T] # g[T]} # {}
               PROVE  FALSE
  BY <1>1
<1>2. PICK T \in SUBSET Indices :
        /\ T \subseteq A /\ T \subseteq B /\ f[T] # g[T]
        /\ \A U \in SUBSET Indices :
             U \subseteq A /\ U \subseteq B /\ f[U] # g[U] /\ U \subseteq T => U = T
  <2>1. PICK C : C = {T \in SUBSET Indices : T \subseteq A /\ T \subseteq B /\ f[T] # g[T]}
    OBVIOUS
  <2>2. C \subseteq SUBSET Indices /\ C # {}
    BY <1>1, <2>1, Zenon
  <2>3. PICK T \in C : \A U \in C : U \subseteq T => U = T
    BY <2>2, SmallestSet
  <2> QED BY <2>1, <2>3, Zenon
<1>3. /\ f[T] = IF T = {} THEN 0 ELSE SizeOf[AnyOf(T)] + f[Rest(T)]
      /\ g[T] = IF T = {} THEN 0 ELSE SizeOf[AnyOf(T)] + g[Rest(T)]
  BY <1>2 DEF IsSum
<1>4. T # {}
  BY <1>2, <1>3
<1>5. f[Rest(T)] = g[Rest(T)]
  BY <1>2, <1>4, PickIn
<1> QED BY <1>2, <1>3, <1>4, <1>5

LEMMA SumExists ==
  ASSUME NEW S, S \subseteq Indices
  PROVE  \E f : IsSum(f, S)
<1>1. SUFFICES ASSUME {T \in SUBSET Indices : ~ \E f : IsSum(f, T)} # {}
               PROVE  FALSE
  BY <1>1
<1>2. PICK T \in SUBSET Indices :
        /\ ~ \E f : IsSum(f, T)
        /\ \A U \in SUBSET Indices : (~ \E f : IsSum(f, U)) /\ U \subseteq T => U = T
  <2>1. PICK C : C = {T \in SUBSET Indices : ~ \E f : IsSum(f, T)}
    OBVIOUS
  <2>2. C \subseteq SUBSET Indices /\ C # {}
    BY <1>1, <2>1, Zenon
  <2>3. PICK T \in C : \A U \in C : U \subseteq T => U = T
    BY <2>2, SmallestSet
  <2> QED BY <2>1, <2>3, Zenon
<1>3. PICK g : g = [U \in SUBSET T |-> CHOOSE f : IsSum(f, U)]
  OBVIOUS
<1>4. ASSUME NEW U, U \subseteq T, U # T PROVE IsSum(g[U], U)
  BY <1>2, <1>3, <1>4
<1>5. PICK h : h = [s \in SUBSET T |-> IF s = {} THEN 0 ELSE SizeOf[AnyOf(s)] + g[Rest(s)][Rest(s)]]
  OBVIOUS
<1>6. ASSUME NEW U, U \subseteq T, U # T PROVE h[U] = g[U][U]
  <2>1. h[U] = IF U = {} THEN 0 ELSE SizeOf[AnyOf(U)] + g[Rest(U)][Rest(U)]
    BY <1>5, <1>6
  <2>2. g[U][U] = IF U = {} THEN 0 ELSE SizeOf[AnyOf(U)] + g[U][Rest(U)]
    <3>1. IsSum(g[U], U)
      BY <1>4, <1>6
    <3>2. PICK f : f = g[U]
      OBVIOUS
    <3>3. f = [s \in SUBSET U |-> IF s = {} THEN 0 ELSE SizeOf[AnyOf(s)] + f[Rest(s)]]
      BY <3>1, <3>2 DEF IsSum
    <3>4. f[U] = IF U = {} THEN 0 ELSE SizeOf[AnyOf(U)] + f[Rest(U)]
      BY <3>3
    <3> QED BY <3>2, <3>4
  <2>3. U # {} => g[U][Rest(U)] = g[Rest(U)][Rest(U)]
    <3> SUFFICES ASSUME U # {} PROVE g[U][Rest(U)] = g[Rest(U)][Rest(U)]
      OBVIOUS
    <3>1. Rest(U) \subseteq U /\ Rest(U) # T
      BY <1>6, PickIn
    <3>2. IsSum(g[U], U) /\ IsSum(g[Rest(U)], Rest(U))
      BY <1>4, <1>6, <3>1
    <3> QED BY <1>6, <3>1, <3>2, SumsAgree
  <2> QED BY <2>1, <2>2, <2>3
<1>7. \A s \in SUBSET T : s # {} => Rest(s) \subseteq T /\ Rest(s) # T
  BY PickIn
<1>8. IsSum(h, T)
  <2>1. \A s \in SUBSET T :
          h[s] = IF s = {} THEN 0 ELSE SizeOf[AnyOf(s)] + h[Rest(s)]
    BY <1>5, <1>6, <1>7
  <2>2. h = [s \in SUBSET T |-> h[s]]
    BY <1>5
  <2> QED BY <2>1, <2>2 DEF IsSum
<1> QED BY <1>2, <1>8

LEMMA BytesDef ==
  /\ Bytes({}) = 0
  /\ \A S \in SUBSET Indices : S # {} => Bytes(S) = SizeOf[AnyOf(S)] + Bytes(Rest(S))
<1>1. ASSUME NEW S \in SUBSET Indices PROVE IsSum(CHOOSE f : IsSum(f, S), S)
  BY SumExists
<1>2. ASSUME NEW S \in SUBSET Indices, NEW g, IsSum(g, S) PROVE Bytes(S) = g[S]
  BY <1>1, <1>2, BytesTable, SumsAgree
<1>3. Bytes({}) = 0
  <2>1. PICK g : IsSum(g, {})
    BY SumExists
  <2> QED BY <1>2, <2>1 DEF IsSum
<1>4. ASSUME NEW S \in SUBSET Indices, S # {}
      PROVE  Bytes(S) = SizeOf[AnyOf(S)] + Bytes(Rest(S))
  <2>1. PICK g : IsSum(g, S)
    BY SumExists
  <2>2. PICK k : IsSum(k, Rest(S))
    BY SumExists, PickIn, <1>4
  <2>3. Rest(S) \subseteq S
    BY PickIn, <1>4
  <2>4. g[Rest(S)] = k[Rest(S)]
    BY <2>1, <2>2, <2>3, SumsAgree
  <2>5. g[S] = SizeOf[AnyOf(S)] + g[Rest(S)]
    BY <2>1, <1>4 DEF IsSum
  <2> QED BY <1>2, <2>1, <2>2, <2>3, <2>4, <2>5
<1> QED BY <1>3, <1>4

LEMMA BytesNat ==
  ASSUME NEW S \in SUBSET Indices
  PROVE  Bytes(S) \in Nat
<1>1. SUFFICES ASSUME {T \in SUBSET Indices : Bytes(T) \notin Nat} # {} PROVE FALSE
  BY <1>1
<1>2. PICK T \in SUBSET Indices :
        /\ Bytes(T) \notin Nat
        /\ \A U \in SUBSET Indices : Bytes(U) \notin Nat /\ U \subseteq T => U = T
  <2>1. PICK C : C = {T \in SUBSET Indices : Bytes(T) \notin Nat}
    OBVIOUS
  <2>2. C \subseteq SUBSET Indices /\ C # {}
    BY <1>1, <2>1, Zenon
  <2>3. PICK T \in C : \A U \in C : U \subseteq T => U = T
    BY <2>2, SmallestSet
  <2> QED BY <2>1, <2>3
<1>3. T # {}
  <2>1. Bytes({}) \in Nat
    BY BytesDef
  <2> QED BY <1>2, <2>1
<1>4. AnyOf(T) \in Indices /\ Bytes(Rest(T)) \in Nat
  BY <1>2, <1>3, PickIn
<1> QED BY <1>2, <1>3, <1>4, BytesDef, SizeAssumption

\* A chunk more adds its size.
Adds(S) == \A k \in Indices \ S : Bytes(S \cup {k}) = Bytes(S) + SizeOf[k]

LEMMA BytesAdd ==
  ASSUME NEW S \in SUBSET Indices
  PROVE  Adds(S)
<1>1. SUFFICES ASSUME {T \in SUBSET Indices : ~ Adds(T)} # {} PROVE FALSE
  BY <1>1
<1>2. PICK T \in SUBSET Indices :
        ~ Adds(T) /\ \A U \in SUBSET Indices : ~ Adds(U) /\ U \subseteq T => U = T
  <2>1. PICK C : C = {T \in SUBSET Indices : ~ Adds(T)}
    OBVIOUS
  <2>2. C \subseteq SUBSET Indices /\ C # {}
    BY <1>1, <2>1, Zenon
  <2>3. PICK T \in C : \A U \in C : U \subseteq T => U = T
    BY <2>2, SmallestSet
  <2> QED BY <2>1, <2>3
<1>3. PICK k \in Indices \ T : Bytes(T \cup {k}) # Bytes(T) + SizeOf[k]
  BY <1>2 DEF Adds
<1>4. PICK W \in SUBSET Indices : W = T \cup {k}
  OBVIOUS
<1>5. Bytes(W) = SizeOf[AnyOf(W)] + Bytes(Rest(W)) /\ AnyOf(W) \in W
  BY <1>4, BytesDef, PickIn
<1>6. CASE AnyOf(W) = k
  <2>1. Rest(W) = T
    BY <1>4, <1>6 DEF Rest
  <2> QED BY <1>3, <1>4, <1>5, <1>6, <2>1, BytesNat, SizeAssumption
<1>7. CASE AnyOf(W) # k
  <2>1. PICK p \in T : p = AnyOf(W)
    BY <1>4, <1>5, <1>7
  <2>2. PICK U \in SUBSET Indices : U = T \ {p}
    OBVIOUS
  <2>3. U \subseteq T /\ U # T /\ k \in Indices \ U /\ p \in Indices \ U
    BY <2>1, <2>2
  <2>4. Bytes(U \cup {k}) = Bytes(U) + SizeOf[k] /\ Bytes(U \cup {p}) = Bytes(U) + SizeOf[p]
    BY <1>2, <2>3 DEF Adds
  <2>5. Rest(W) = U \cup {k} /\ U \cup {p} = T
    BY <1>4, <1>7, <2>1, <2>2 DEF Rest
  <2>6. SizeOf[p] \in Nat /\ SizeOf[k] \in Nat /\ Bytes(U) \in Nat
    BY <2>1, BytesNat, SizeAssumption
  <2>7. Bytes(W) = SizeOf[p] + (Bytes(U) + SizeOf[k]) /\ Bytes(T) = Bytes(U) + SizeOf[p]
    BY <1>5, <2>1, <2>4, <2>5
  <2>8. Bytes(W) # Bytes(T) + SizeOf[k]
    BY <1>3, <1>4
  <2> QED BY <2>6, <2>7, <2>8
<1> QED BY <1>6, <1>7

LEMMA BytesMonotone ==
  ASSUME NEW S \in SUBSET Indices, NEW R \in SUBSET Indices, R \subseteq S
  PROVE  Bytes(R) <= Bytes(S)
<1>1. SUFFICES ASSUME {D \in SUBSET Indices :
                         \E T \in SUBSET Indices : ~ (Bytes(T) <= Bytes(T \cup D))} # {}
               PROVE  FALSE
  <2>1. R \cup S = S
    OBVIOUS
  <2> QED BY <1>1, <2>1
<1>2. PICK D \in SUBSET Indices :
        /\ \E T \in SUBSET Indices : ~ (Bytes(T) <= Bytes(T \cup D))
        /\ \A U \in SUBSET Indices :
             (\E T \in SUBSET Indices : ~ (Bytes(T) <= Bytes(T \cup U))) /\ U \subseteq D => U = D
  <2>1. PICK C : C = {D \in SUBSET Indices :
                        \E T \in SUBSET Indices : ~ (Bytes(T) <= Bytes(T \cup D))}
    OBVIOUS
  <2>2. C \subseteq SUBSET Indices /\ C # {}
    BY <1>1, <2>1, Zenon
  <2>3. PICK D \in C : \A U \in C : U \subseteq D => U = D
    BY <2>2, SmallestSet
  <2> QED BY <2>1, <2>3, Zenon
<1>3. PICK T \in SUBSET Indices : ~ (Bytes(T) <= Bytes(T \cup D))
  BY <1>2
<1>4. PICK i \in D : i \notin T
  <2>1. T \cup D # T
    BY <1>3, BytesNat
  <2> QED BY <2>1
<1>5. PICK V \in SUBSET Indices : V = T \cup (D \ {i})
  OBVIOUS
<1>6. Bytes(T) <= Bytes(V)
  <2>1. PICK E \in SUBSET Indices : E = D \ {i}
    OBVIOUS
  <2>2. E \subseteq D /\ E # D /\ V = T \cup E
    BY <1>4, <1>5, <2>1
  <2> QED BY <1>2, <2>2
<1>7. Bytes(T \cup D) = Bytes(V) + SizeOf[i]
  <2>1. i \notin V /\ V \cup {i} = T \cup D /\ i \in Indices
    BY <1>4, <1>5
  <2> QED BY <2>1, BytesAdd DEF Adds
<1> QED BY <1>3, <1>6, <1>7, <1>4, BytesNat, SizeAssumption

-----------------------------------------------------------------------------
(* A refusal has a cause.                                                  *)

Cause == faults > 0 \/ expired \/ ~valid \/ Bytes(Indices) > MaxTotal

\* What counts as a cause stays one.
LEMMA CauseStays ==
  ASSUME TypeOK, faults' = faults \/ Fault, expired' = expired \/ expired' = TRUE, valid' = valid,
         Cause
  PROVE  Cause'
<1>1. faults > 0 => faults' > 0
  BY FaultCounts
<1>2. expired => expired'
  BY Zenon
<1> QED BY <1>1, <1>2, Zenon DEF Cause

\* Within the limit, a chunk of the file not yet recorded fits beside those that are.
LEMMA FitsBeside ==
  ASSUME NEW S \in SUBSET Indices, NEW i \in Indices, i \notin S
  PROVE  Bytes(S) + SizeOf[i] <= Bytes(Indices)
<1>1. PICK T \in SUBSET Indices : T = S \cup {i}
  OBVIOUS
<1>2. Bytes(T) = Bytes(S) + SizeOf[i]
  BY <1>1, BytesAdd DEF Adds
<1>3. Bytes(T) <= Bytes(Indices)
  BY BytesMonotone
<1> QED BY <1>2, <1>3

LEMMA RefusalsHaveCause ==
  ASSUME Indices # {}, UploadInv, CleanInv, NEW r \in Requests, outcome' = "refused",
         outcome # "refused",
         CheckSize(r) \/ ListChunks(r) \/ CheckTotal(r) \/ Probe(r)
  PROVE  Cause'
<1>0. TypeOK /\ AloneOK(r) /\ SendingOK(r) /\ tracked \in SUBSET Indices
  BY Sets DEF UploadInv
<1>1. SUFFICES ASSUME Undisturbed, valid PROVE Cause'
  <2>1. (faults' = faults \/ Fault) /\ expired' = expired /\ valid' = valid
    BY <1>0, CheckSizeDoes, ListChunksDoes, CheckTotalDoes, ProbeDoes
  <2>2. ~Undisturbed \/ ~valid => Cause
    BY <1>0, Sets DEF Undisturbed, Cause
  <2> QED BY <1>0, <1>1, <2>1, <2>2, CauseStays
<1>2. tracked \subseteq acked /\ TakenDownOK(r)
  BY <1>1 DEF CleanInv
<1>3. \A S \in SUBSET Indices : Bytes(S) \in Nat /\ Bytes(S) <= Bytes(Indices)
  BY BytesNat, BytesMonotone
<1>4. CASE CheckSize(r)
  <2>1. req[r].pc = "size" /\ Bytes(tracked) + SizeOf[req[r].idx] > MaxTotal
    BY <1>0, <1>4, CheckSizeDoes
  <2>2. req[r].idx \in Indices /\ req[r].idx \notin tracked
    BY <1>0, <1>2, <2>1 DEF SendingOK, ChunkPcs
  <2>3. Bytes(tracked) + SizeOf[req[r].idx] <= Bytes(Indices)
    BY <1>0, <2>2, FitsBeside
  <2>4. Bytes(tracked) \in Nat /\ Bytes(Indices) \in Nat /\ SizeOf[req[r].idx] \in Nat
            /\ MaxTotal \in Nat
    BY <1>0, <1>3, <2>2, SizeAssumption
  <2>5. Bytes(Indices) > MaxTotal
    BY <2>1, <2>3, <2>4
  <2> QED BY <2>5 DEF Cause
<1>5. CASE ListChunks(r)
  <2>1. req[r].pc = "list" /\ tracked = {}
    BY <1>0, <1>5, ListChunksDoes
  <2> QED BY <1>0, <1>2, <2>1 DEF AloneOK, TakenDownOK, Closing, Deleting
<1>6. CASE CheckTotal(r)
  <2>1. req[r].pc = "total" /\ Bytes(tracked) > MaxTotal
    BY <1>0, <1>6, CheckTotalDoes
  <2>2. Bytes(tracked) \in Nat /\ Bytes(tracked) <= Bytes(Indices) /\ Bytes(Indices) \in Nat
            /\ MaxTotal \in Nat
    BY <1>0, <1>3, SizeAssumption
  <2>3. Bytes(Indices) > MaxTotal
    BY <2>1, <2>2
  <2> QED BY <2>3 DEF Cause
<1>7. CASE Probe(r)
  <2>1. /\ req[r].pc = "probe" /\ valid' = valid
        /\ (req[r].listed = Indices => ~valid) \/ Fault
    BY <1>0, <1>7, ProbeDoes
  <2>2. req[r].listed = Indices
    BY <1>0, <1>2, <2>1 DEF AloneOK, TakenDownOK, Closing, Deleting, Listing
  <2>3. Fault
    BY <1>1, <2>1, <2>2
  <2> QED BY <1>0, <2>3, FaultCounts DEF Cause
<1> QED BY <1>4, <1>5, <1>6, <1>7

LEMMA ClosingFrame ==
  ASSUME TypeOK, NEW r \in Requests, ClosingHandler(r)
  PROVE  /\ (faults' = faults \/ Fault) /\ expired' = expired /\ valid' = valid
         /\ outcome' \in {outcome, "queued", "deleted"} \/ ListChunks(r) \/ CheckTotal(r)
                \/ Probe(r)
<1>1. \A from \in Pcs, to \in Pcs : DeleteNext(r, from, to) =>
        (faults' = faults \/ Fault) /\ UNCHANGED <<expired, valid, outcome>>
  BY DeleteNextDoes
<1>2. {"clean", "purge", "dclean", "dpurge"} \subseteq Pcs
  BY DEF Pcs
<1> QED BY <1>1, <1>2, ListChunksDoes, CheckTotalDoes, ConcatChunkDoes, ProbeDoes, StoreFinalDoes,
     PurgeTrackerDoes, PublishDoes, ListToDeleteDoes, PurgeDeletedDoes
  DEF ClosingHandler, CleanChunk, DeleteChunk

LEMMA CauseStep ==
  ASSUME Indices # {}, Documented, UploadInv, CleanInv, RefusedForCause, [Next]_vars
  PROVE  RefusedForCause'
<1>0. TypeOK
  BY DEF UploadInv
<1>1. SUFFICES ASSUME outcome' = "refused" PROVE Cause'
  BY <1>1 DEF RefusedForCause, Cause
<1>2. (faults' = faults \/ Fault) /\ (expired' = expired \/ expired' = TRUE) /\ valid' = valid
  BY <1>0, NextCases, SendChunkDoes, SendCompleteDoes, SendDeleteDoes, CheckSizeDoes,
     StoreChunkDoes,
     RecordChunkDoes, CallFailsDoes, CrashDoes, ClosingFrame DEF TrackerExpires, vars
<1>3. outcome = "refused" \/ \E r \in Requests : CheckSize(r) \/ ListChunks(r) \/ CheckTotal(r)
          \/ Probe(r)
  BY <1>0, <1>1, NextCases, SendChunkDoes, SendCompleteDoes, SendDeleteDoes, StoreChunkDoes,
     RecordChunkDoes, CallFailsDoes, CrashDoes, ClosingFrame DEF TrackerExpires, vars
<1>4. CASE outcome = "refused"
  BY <1>0, <1>2, <1>4, CauseStays DEF RefusedForCause, Cause
<1>5. CASE outcome # "refused"
  BY <1>1, <1>3, <1>5, RefusalsHaveCause
<1> QED BY <1>4, <1>5

\* With a documented client and a file that has a chunk, a refusal follows a failure or an
\* expired tracker, or the file is no video or too large.
THEOREM RefusedForCauseHolds ==
  ASSUME Documented, Indices # {}
  PROVE  Spec => []RefusedForCause
<1>1. Init => RefusedForCause
  BY DEF Init, RefusedForCause
<1>2. UploadInv /\ CleanInv /\ RefusedForCause /\ [Next]_vars => UploadInv' /\ CleanInv'
          /\ RefusedForCause'
  BY UploadInvStep, CleanStep, CauseStep
<1> QED BY <1>1, <1>2, InitUpload, CleanInit, PTL DEF Spec

-----------------------------------------------------------------------------
(* What the analyzer will download.                                        *)

\* Until the tracker's key runs out, the tracker knows every accepted chunk, the upload was
\* deleted, or the whole file is put together.
KeptOK ==
  \/ acked \subseteq tracked
  \/ outcome = "deleted"
  \/ tracked = {} /\ final = Indices /\ acked = Indices

WholeOK(r) ==
  /\ req[r].pc \in Listing \cup Storing => req[r].listed = Indices
  /\ req[r].pc \in {"final"} \cup Storing => valid

FileInv ==
  ~expired => /\ KeptOK
              /\ final # {} => final = Indices /\ valid
              /\ \A r \in Requests : WholeOK(r)

LEMMA FileInit == Init => FileInv
<1> SUFFICES ASSUME Init PROVE FileInv
  OBVIOUS
<1>1. \A r \in Requests : req[r].pc = "idle"
  BY DEF Init, Idle
<1> QED BY <1>1 DEF Init, FileInv, KeptOK, WholeOK, Listing, Storing

\* Steps of other requests, and those that leave a request where nothing is asked of it.
LEMMA FileChunkSteps ==
  ASSUME Documented, UploadInv, FileInv, NEW r \in Requests,
         \/ \E i \in Indices : SendChunk(r, i)
         \/ CheckSize(r) \/ StoreChunk(r) \/ RecordChunk(r)
  PROVE  FileInv'
<1>0. TypeOK /\ SendingOK(r)
  BY DEF UploadInv
<1>1. ChunkStep(r)
  BY Sends, ChunkHandlers
<1>2. \A s \in Requests : req'[s].pc \notin Closing
  BY <1>1, Pcs4 DEF ChunkStep, Moves
<1>3. \A s \in Requests : WholeOK(s)'
  BY <1>2 DEF WholeOK, Closing, Listing, Storing
<1>4. expired' = expired /\ final' = final /\ valid' = valid
  BY <1>1 DEF ChunkStep
<1>5. KeptOK => KeptOK'
  <2>1. CASE RecordChunk(r)
    <3>1. /\ tracked' = tracked \cup {req[r].idx} /\ outcome' = outcome /\ final' = final
          /\ acked' \in {acked, acked \cup {req[r].idx}} /\ req[r].pc = "record"
      BY <1>0, <2>1, RecordChunkDoes
    <3>2. acked # Indices
      BY <1>0, <3>1 DEF SendingOK, ChunkPcs
    <3> QED BY <3>1, <3>2 DEF KeptOK
  <2>2. CASE ~RecordChunk(r)
    <3>1. acked' = acked /\ tracked' = tracked
      BY <1>0, <2>2, SendChunkDoes, CheckSizeDoes, StoreChunkDoes
    <3>2. outcome # "deleted"
      BY <1>1 DEF ChunkStep
    <3> QED BY <1>4, <3>1, <3>2 DEF KeptOK
  <2> QED BY <2>1, <2>2
<1> QED BY <1>3, <1>4, <1>5 DEF FileInv

LEMMA FileClosingSteps ==
  ASSUME Documented, UploadInv, FileInv, NEW r \in Requests,
         SendComplete(r) \/ SendDelete(r) \/ ClosingHandler(r)
  PROVE  FileInv'
<1>0. TypeOK
  BY DEF UploadInv
<1>1. ClosingStep(r) /\ expired' = expired /\ valid' = valid
  BY <1>0, Sends, ClosingHandlers, ClosingFrame, SendCompleteDoes, SendDeleteDoes
<1>2. SUFFICES ASSUME ~expired
               PROVE  KeptOK' /\ (final' # {} => final' = Indices /\ valid') /\ WholeOK(r)'
  <2>1. \A s \in Requests : s # r => WholeOK(s)'
    BY <1>1 DEF ClosingStep, Moves, WholeOK, Listing, Storing
  <2> QED BY <1>1, <1>2, <2>1 DEF FileInv
<1>3. KeptOK /\ (final # {} => final = Indices /\ valid) /\ WholeOK(r)
  BY <1>2 DEF FileInv
<1>4. AloneOK(r) /\ outcome = "open"
  BY <1>1 DEF UploadInv, ClosingStep
<1>5. CASE SendComplete(r) \/ SendDelete(r)
  BY <1>0, <1>3, <1>5, SendCompleteDoes, SendDeleteDoes DEF KeptOK, WholeOK, Listing, Storing
<1>6. CASE ListChunks(r)
  <2>1. /\ req[r].pc = "list" /\ UNCHANGED <<tracked, final, acked, valid>>
        /\ req'[r].pc \in {"idle", "total"}
        /\ req'[r].pc = "total" => tracked # {} /\ req'[r].listed = tracked
        /\ outcome' # "deleted"
    BY <1>0, <1>4, <1>6, ListChunksDoes
  <2>2. acked = Indices /\ tracked \subseteq Indices
    BY <1>0, <1>4, <2>1, Sets DEF AloneOK, Closing, Deleting
  <2>3. tracked # {} => tracked = Indices
    BY <1>3, <1>4, <2>2 DEF KeptOK
  <2> QED BY <1>3, <1>4, <2>1, <2>3 DEF KeptOK, WholeOK, Listing, Storing
<1>7. CASE CheckTotal(r)
  <2>1. /\ req[r].pc = "total" /\ UNCHANGED <<tracked, final, acked, valid>>
        /\ req'[r].pc = "idle" \/ (req'[r].pc = "concat" /\ req'[r].listed = req[r].listed)
    BY <1>0, <1>7, CheckTotalDoes DEF Same
  <2> QED BY <1>3, <1>4, <2>1 DEF KeptOK, WholeOK, Listing, Storing
<1>8. CASE ConcatChunk(r)
  <2>1. /\ req[r].pc = "concat" /\ UNCHANGED <<tracked, final, acked, valid>>
        /\ \/ req'[r].pc = "idle"
           \/ req'[r].pc \in {"concat", "probe"} /\ req'[r].listed = req[r].listed
    BY <1>0, <1>8, ConcatChunkDoes
  <2> QED BY <1>3, <1>4, <2>1 DEF KeptOK, WholeOK, Listing, Storing
<1>9. CASE Probe(r)
  <2>1. /\ req[r].pc = "probe" /\ UNCHANGED <<tracked, final, acked, valid>>
        /\ \/ req'[r].pc = "idle"
           \/ /\ req'[r].pc = "final" /\ req'[r].listed = req[r].listed
              /\ req[r].listed = Indices => valid
    BY <1>0, <1>9, ProbeDoes DEF Same
  <2> QED BY <1>3, <1>4, <2>1 DEF KeptOK, WholeOK, Listing, Storing
<1>10. CASE StoreFinal(r)
  <2>1. /\ req[r].pc = "final" /\ req'[r].pc = "clean" /\ UNCHANGED <<tracked, acked, valid>>
        /\ req'[r].listed = req[r].listed /\ final' = req[r].listed
    BY <1>0, <1>10, StoreFinalDoes
  <2> QED BY <1>3, <1>4, <2>1 DEF KeptOK, WholeOK, Listing, Storing
<1>11. CASE CleanChunk(r) \/ DeleteChunk(r)
  <2>1. \A from \in Pcs, to \in Pcs : DeleteNext(r, from, to) =>
          /\ req[r].pc = from /\ req'[r].pc \in {from, to} /\ req'[r].listed = req[r].listed
          /\ UNCHANGED <<tracked, final, acked, valid>>
    BY <1>0, DeleteNextDoes DEF Same
  <2>2. {"clean", "purge", "dclean", "dpurge"} \subseteq Pcs
    BY DEF Pcs
  <2>3. /\ \/ req[r].pc = "clean" /\ req'[r].pc \in {"clean", "purge"}
           \/ req'[r].pc \in {"dclean", "dpurge"}
        /\ req'[r].listed = req[r].listed /\ UNCHANGED <<tracked, final, acked, valid>>
    BY <1>11, <2>1, <2>2 DEF CleanChunk, DeleteChunk
  <2> QED BY <1>3, <1>4, <2>3 DEF KeptOK, WholeOK, Listing, Storing
<1>12. CASE PurgeTracker(r)
  <2>1. /\ req[r].pc = "purge" /\ req'[r].pc = "publish" /\ UNCHANGED <<final, acked, valid>>
        /\ req'[r].listed = req[r].listed /\ tracked' \in {{}, tracked}
    BY <1>0, <1>12, PurgeTrackerDoes DEF Same
  <2>2. acked = Indices /\ final = Indices
    BY <1>3, <1>4, <2>1 DEF AloneOK, WholeOK, Closing, Deleting, Storing
  <2> QED BY <1>3, <1>4, <2>1, <2>2 DEF KeptOK, WholeOK, Listing, Storing
<1>13. CASE Publish(r)
  <2>1. req'[r].pc = "idle" /\ UNCHANGED <<tracked, final, acked, valid>>
    BY <1>0, <1>13, PublishDoes
  <2> QED BY <1>3, <1>4, <2>1 DEF KeptOK, WholeOK, Listing, Storing
<1>14. CASE ListToDelete(r)
  <2>1. req'[r].pc = "dclean" /\ UNCHANGED <<tracked, final, acked, valid>>
    BY <1>0, <1>14, ListToDeleteDoes
  <2> QED BY <1>3, <1>4, <2>1 DEF KeptOK, WholeOK, Listing, Storing
<1>15. CASE PurgeDeleted(r)
  <2>1. req'[r].pc = "idle" /\ outcome' = "deleted" /\ UNCHANGED <<final, acked, valid>>
    BY <1>0, <1>15, PurgeDeletedDoes
  <2> QED BY <1>3, <2>1 DEF KeptOK, WholeOK, Listing, Storing
<1> QED BY <1>5, <1>6, <1>7, <1>8, <1>9, <1>10, <1>11, <1>12, <1>13, <1>14, <1>15 DEF ClosingHandler

LEMMA FileStep ==
  ASSUME Documented, Tracker = "redis", UploadInv, FileInv, [Next]_vars
  PROVE  FileInv'
<1>0. TypeOK
  BY DEF UploadInv
<1>1. CASE UNCHANGED vars
  BY <1>1 DEF vars, FileInv, KeptOK, WholeOK
<1>2. CASE (\E r \in Requests : CallFails(r)) \/ Crash
  <2>1. UNCHANGED <<tracked, final, acked, outcome, valid, expired>>
    BY <1>0, <1>2, CallFailsDoes, CrashDoes
  <2>2. \A r \in Requests : req'[r] = req[r] \/ req'[r].pc = "idle"
    BY <1>0, <1>2, CallFailsDoes, CrashDoes DEF Moves
  <2> QED BY <2>1, <2>2 DEF FileInv, KeptOK, WholeOK, Listing, Storing
<1>3. CASE TrackerExpires
  BY <1>3 DEF TrackerExpires, FileInv
<1> QED BY <1>1, <1>2, <1>3, FileChunkSteps, FileClosingSteps, NextCases

-----------------------------------------------------------------------------
(* How often it is queued.  A second complete request gets to its message  *)
(* only when every chunk is still stored and recorded: each clean-up, the  *)
(* tracker's and the first answer have failed by then.                     *)

LEMMA CardOf ==
  ASSUME NEW S \in SUBSET Indices
  PROVE  Cardinality(S) \in Nat
  BY IndicesAssumption, FS_Subset, FS_CardinalityType

LEMMA CardLess ==
  ASSUME NEW S \in SUBSET Indices, NEW R \in SUBSET Indices, R \subseteq S
  PROVE  Cardinality(R) <= Cardinality(S)
<1>1. IsFiniteSet(S)
  BY IndicesAssumption, FS_Subset
<1> QED BY <1>1, FS_Subset

LEMMA CardOneMore ==
  ASSUME NEW S \in SUBSET Indices, NEW R \in SUBSET Indices, NEW i \in Indices,
         R \subseteq S \cup {i}
  PROVE  Cardinality(R) <= Cardinality(S) + 1
<1>1. PICK T \in SUBSET Indices : T = S \cup {i}
  OBVIOUS
<1>2. IsFiniteSet(S)
  BY IndicesAssumption, FS_Subset
<1>3. Cardinality(T) = IF i \in S THEN Cardinality(S) ELSE Cardinality(S) + 1
  BY <1>1, <1>2, FS_AddElement
<1>4. Cardinality(R) <= Cardinality(T)
  BY <1>1, CardLess
<1> QED BY <1>3, <1>4, CardOf

\* The chunks of the final object that are stored, and those a clean-up has passed.
Left == Cardinality(chunks \cap final)
Passed(r) == Cardinality((chunks \cap final) \ req[r].todo)

CountOK(r) ==
  /\ req[r].pc \in Listing \cup Storing => /\ tracked \in {{}, req[r].listed}
                                           /\ jobs > 0 => req[r].listed = final
  /\ req[r].pc = "total" => req[r].todo = req[r].listed
  /\ req[r].pc = "concat" => req[r].listed \ req[r].todo \subseteq chunks
  /\ req[r].pc \in {"probe", "final"} => req[r].listed \subseteq chunks
  /\ req[r].pc = "clean" => faults >= Passed(r)
  /\ req[r].pc \in {"purge", "publish"} => faults >= Left
  /\ req[r].pc = "publish" => tracked = {} \/ faults >= Left + 1
  /\ jobs > 0 /\ req[r].pc \in {"total", "concat"} => faults >= Left + 2
  /\ jobs > 0 /\ req[r].pc \in {"probe", "final"} \cup Storing => faults >= Cardinality(final) + 2

\* Once a message is out, a tracker that still names chunks names all of them, and an upload
\* still open has seen the failures.
JobsOK ==
  /\ jobs > 0 /\ tracked # {} => tracked = final /\ (outcome = "open" => faults >= Left + 2)
  /\ OneJobPerUpload

CountInv == JobsOK /\ \A r \in Requests : CountOK(r)

LEMMA CountFree ==
  ASSUME NEW r \in Requests, req[r].pc \notin Listing \cup Storing
  PROVE  CountOK(r)
  BY DEF CountOK, Listing, Storing

LEMMA CountInit == Init => CountInv
<1> SUFFICES ASSUME Init PROVE CountInv
  OBVIOUS
<1>1. \A r \in Requests : req[r].pc \notin Listing \cup Storing
  BY DEF Init, Idle, Listing, Storing
<1>2. jobs = 0
  BY DEF Init
<1> QED BY <1>1, <1>2, CountFree DEF CountInv, JobsOK, OneJobPerUpload

\* While chunks are sent there is no message.
LEMMA CountChunkSteps ==
  ASSUME Documented, UploadInv, CountInv, NEW r \in Requests,
         \/ \E i \in Indices : SendChunk(r, i)
         \/ CheckSize(r) \/ StoreChunk(r) \/ RecordChunk(r)
  PROVE  CountInv'
<1>0. TypeOK /\ SendingOK(r) /\ ChunkStep(r)
  BY Sends, ChunkHandlers DEF UploadInv
<1>1. \A s \in Requests : req'[s].pc \notin Listing \cup Storing
  BY <1>0, Pcs4 DEF ChunkStep, Moves
<1>2. jobs = 0
  <2>1. acked # Indices
    BY <1>0, SendChunkDoes, CheckSizeDoes, StoreChunkDoes, RecordChunkDoes DEF SendingOK, ChunkPcs
  <2> QED BY <1>0, <2>1, Sets DEF UploadInv
<1>3. jobs' = 0
  BY <1>0, <1>2 DEF ChunkStep
<1> QED BY <1>1, <1>3, CountFree DEF CountInv, JobsOK, OneJobPerUpload, CountOK, Listing, Storing

\* A complete or delete request that leaves what is counted alone, or has less of it.
LEMMA JobsKeep ==
  ASSUME TypeOK, JobsOK, jobs' = jobs, final' = final, chunks' \subseteq chunks,
         tracked' \in {{}, tracked}, outcome = "open", faults' = faults \/ Fault
  PROVE  JobsOK' /\ faults' >= faults /\ Left' <= Left /\ Left \in Nat /\ Left' \in Nat
<1>1. PICK A \in SUBSET Indices : A = chunks \cap final
  BY Sets
<1>2. PICK B \in SUBSET Indices : B = chunks' \cap final
  BY Sets
<1>3. Cardinality(B) <= Cardinality(A) /\ Cardinality(A) \in Nat /\ Cardinality(B) \in Nat
  BY <1>1, <1>2, CardLess, CardOf
<1>4. Left = Cardinality(A) /\ Left' = Cardinality(B)
  BY <1>1, <1>2 DEF Left
<1>5. faults' \in Nat /\ faults \in Nat /\ faults' >= faults
  BY Sets, FaultCounts
<1>6. Cardinality(final) \in Nat
  BY Sets, CardOf
<1>7. OneJobPerUpload'
  BY <1>5, <1>6 DEF JobsOK, OneJobPerUpload
<1>8. jobs' > 0 /\ tracked' # {} => tracked' = final' /\ (outcome' = "open" => faults' >= Left' + 2)
  <2>1. jobs > 0 /\ tracked # {} => tracked = final /\ faults >= Left + 2
    BY DEF JobsOK
  <2> QED BY <1>3, <1>4, <1>5, <2>1
<1> QED BY <1>3, <1>4, <1>5, <1>7, <1>8 DEF JobsOK

LEMMA CountClosingSteps ==
  ASSUME Documented, UploadInv, CountInv, NEW r \in Requests,
         SendComplete(r) \/ SendDelete(r) \/ ClosingHandler(r)
  PROVE  CountInv'
<1>0. TypeOK /\ JobsOK /\ CountOK(r) /\ AloneOK(r)
  BY DEF UploadInv, CountInv
<1>1. ClosingStep(r) /\ (faults' = faults \/ Fault)
  BY <1>0, Sends, ClosingHandlers, ClosingFrame, SendCompleteDoes, SendDeleteDoes
<1>2. SUFFICES JobsOK' /\ CountOK(r)'
  <2>1. \A s \in Requests : s # r => req'[s].pc \notin Listing \cup Storing
    BY <1>1 DEF ClosingStep, Moves, Listing, Storing
  <2>2. \A s \in Requests : s # r => CountOK(s)'
    BY <2>1 DEF CountOK, Listing, Storing
  <2> QED BY <1>2, <2>2 DEF CountInv
<1>3. outcome = "open" /\ faults \in Nat /\ faults' \in Nat /\ faults' >= faults /\ jobs \in Nat
  BY <1>0, <1>1, Sets, FaultCounts DEF ClosingStep
<1>4. /\ chunks \in SUBSET Indices /\ tracked \in SUBSET Indices /\ final \in SUBSET Indices
      /\ req[r].listed \in SUBSET Indices /\ req[r].todo \in SUBSET Indices
  BY <1>0, Sets
<1>5. /\ Left \in Nat /\ Cardinality(final) \in Nat /\ Left <= Cardinality(final)
      /\ Passed(r) \in Nat /\ Passed(r) <= Left
  <2>1. PICK A \in SUBSET Indices : A = chunks \cap final
    BY <1>4
  <2>2. PICK B \in SUBSET Indices : B = A \ req[r].todo
    OBVIOUS
  <2> QED BY <1>4, <2>1, <2>2, CardLess, CardOf DEF Left, Passed
<1>6. ASSUME jobs' = jobs, final' = final, chunks' = chunks, tracked' \in {{}, tracked}
      PROVE  JobsOK' /\ Left' = Left
  BY <1>0, <1>1, <1>3, <1>6, JobsKeep DEF Left
<1>7. CASE SendComplete(r) \/ SendDelete(r)
  <2>1. req'[r].pc \in {"list", "dlist"} /\ UNCHANGED <<jobs, final, chunks, tracked>>
    BY <1>0, <1>7, SendCompleteDoes, SendDeleteDoes
  <2> QED BY <1>6, <2>1 DEF CountOK, Listing, Storing
<1>8. CASE ListChunks(r)
  <2>1. /\ UNCHANGED <<jobs, final, chunks, tracked, faults>>
        /\ \/ req'[r].pc = "idle"
           \/ /\ tracked # {} /\ req'[r].pc = "total"
              /\ req'[r].listed = tracked /\ req'[r].todo = tracked
    BY <1>0, <1>8, ListChunksDoes
  <2>2. JobsOK' /\ Left' = Left
    BY <1>6, <2>1
  <2>3. tracked # {} /\ jobs > 0 => tracked = final /\ faults >= Left + 2
    BY <1>0, <1>3 DEF JobsOK
  <2> QED BY <2>1, <2>2, <2>3 DEF CountOK, Listing, Storing
<1>9. CASE CheckTotal(r)
  <2>1. /\ req[r].pc = "total" /\ UNCHANGED <<jobs, final, chunks, tracked, faults>>
        /\ \/ req'[r].pc = "idle"
           \/ /\ req'[r].pc = "concat" /\ req'[r].listed = req[r].listed
                     /\ req'[r].todo = req[r].todo
    BY <1>0, <1>9, CheckTotalDoes DEF Same
  <2>2. JobsOK' /\ Left' = Left
    BY <1>6, <2>1
  <2> QED BY <1>0, <2>1, <2>2 DEF CountOK, Listing, Storing
<1>10. CASE ConcatChunk(r)
  <2>1. /\ req[r].pc = "concat" /\ UNCHANGED <<jobs, final, chunks, tracked, faults>>
        /\ \/ req'[r].pc = "idle"
           \/ /\ Least(req[r].todo) \in chunks /\ req'[r].listed = req[r].listed
              /\ req'[r].todo = req[r].todo \ {Least(req[r].todo)}
              /\ req'[r].pc = IF req'[r].todo = {} THEN "probe" ELSE "concat"
    BY <1>0, <1>10, ConcatChunkDoes
  <2>2. JobsOK' /\ Left' = Left
    BY <1>6, <2>1
  <2>3. /\ tracked \in {{}, req[r].listed} /\ req[r].listed \ req[r].todo \subseteq chunks
        /\ jobs > 0 => req[r].listed = final /\ faults >= Left + 2
    BY <1>0, <2>1 DEF CountOK, Listing
  <2>4. CASE req'[r].pc = "concat"
    <3>1. req'[r].listed \ req'[r].todo \subseteq chunks /\ req'[r].listed = req[r].listed
      BY <2>1, <2>3, <2>4
    <3> QED BY <2>1, <2>2, <2>3, <2>4, <3>1 DEF CountOK, Listing, Storing
  <2>5. CASE req'[r].pc = "probe"
    <3>1. req[r].listed \subseteq chunks /\ req'[r].listed = req[r].listed
      BY <2>1, <2>3, <2>5
    <3>2. jobs > 0 => Left = Cardinality(final)
      <4>1. jobs > 0 => chunks \cap final = final
        BY <2>3, <3>1
      <4> QED BY <4>1 DEF Left
    <3> QED BY <2>1, <2>2, <2>3, <2>5, <3>1, <3>2 DEF CountOK, Listing, Storing
  <2>6. CASE req'[r].pc = "idle"
    BY <2>2, <2>6 DEF CountOK, Listing, Storing
  <2> QED BY <2>1, <2>4, <2>5, <2>6
<1>11. CASE Probe(r)
  <2>1. /\ req[r].pc = "probe" /\ UNCHANGED <<jobs, final, chunks, tracked>>
        /\ \/ req'[r].pc = "idle"
           \/ req'[r].pc = "final" /\ req'[r].listed = req[r].listed /\ faults' = faults
    BY <1>0, <1>11, ProbeDoes DEF Same
  <2>2. JobsOK' /\ Left' = Left
    BY <1>6, <2>1
  <2> QED BY <1>0, <2>1, <2>2 DEF CountOK, Listing, Storing
<1>12. CASE StoreFinal(r)
  <2>1. /\ req[r].pc = "final" /\ req'[r].pc = "clean"
               /\ UNCHANGED <<jobs, chunks, tracked, outcome, faults>>
        /\ req'[r].listed = req[r].listed /\ req'[r].todo = req[r].listed /\ final' = req[r].listed
    BY <1>0, <1>12, StoreFinalDoes
  <2>2. /\ tracked \in {{}, req[r].listed}
        /\ jobs > 0 => req[r].listed = final
        /\ jobs > 0 => faults >= Cardinality(final) + 2
    BY <1>0, <2>1 DEF CountOK, Listing
  <2>3. CASE jobs > 0
    <3>1. final' = final
      BY <2>1, <2>2, <2>3
    <3>2. JobsOK' /\ Left' = Left
      BY <1>6, <2>1, <3>1
    <3>3. Passed(r)' = 0
      <4>1. ((chunks \cap final) \ req[r].todo)' = {}
        BY <2>1
      <4> QED BY <4>1, FS_EmptySet DEF Passed
    <3> QED BY <1>3, <2>1, <2>2, <2>3, <3>1, <3>2, <3>3 DEF CountOK, Listing, Storing
  <2>4. CASE jobs = 0
    <3>1. Passed(r)' = 0
      <4>1. ((chunks \cap final) \ req[r].todo)' = {}
        BY <2>1
      <4> QED BY <4>1, FS_EmptySet DEF Passed
    <3>2. jobs' = 0 /\ JobsOK'
      BY <2>1, <2>4 DEF JobsOK, OneJobPerUpload
    <3> QED BY <1>3, <2>1, <2>2, <2>4, <3>1, <3>2 DEF CountOK, Listing, Storing
  <2> QED BY <1>3, <2>3, <2>4
<1>13. CASE CleanChunk(r)
  <2>1. /\ req[r].pc = "clean" /\ UNCHANGED <<jobs, final, tracked, outcome>>
        /\ req'[r].listed = req[r].listed
        /\ \/ /\ req[r].todo = {} /\ req'[r].pc = "purge" /\ UNCHANGED <<chunks, faults>>
           \/ /\ req'[r].pc = "clean"
              /\ \E i \in req[r].todo :
                   /\ req'[r].todo = req[r].todo \ {i}
                   /\ \/ chunks' = chunks \ {i} /\ faults' = faults
                      \/ faults' = faults + 1 /\ chunks' = chunks
    <3>1. {"clean", "purge"} \subseteq Pcs
      BY DEF Pcs
    <3> QED BY <1>0, <1>13, <3>1, DeleteNextDoes, FaultCounts DEF CleanChunk, Same
  <2>2. /\ tracked \in {{}, req[r].listed} /\ (jobs > 0 => req[r].listed = final)
        /\ jobs > 0 => faults >= Cardinality(final) + 2
        /\ faults >= Passed(r)
    BY <1>0, <2>1 DEF CountOK, Storing
  <2>3. chunks' \subseteq chunks
    BY <2>1
  <2>4. JobsOK' /\ Left' <= Left /\ Left' \in Nat
    BY <1>0, <1>1, <1>3, <2>1, <2>3, JobsKeep
  <2>5. CASE req'[r].pc = "purge"
    <3>1. req[r].todo = {} /\ UNCHANGED <<chunks, faults>>
      BY <2>1, <2>5
    <3>2. Left' = Passed(r)
      <4>1. (chunks \cap final)' = (chunks \cap final) \ req[r].todo
        BY <2>1, <3>1
      <4> QED BY <4>1 DEF Left, Passed
    <3> QED BY <2>1, <2>2, <2>4, <2>5, <3>1, <3>2 DEF CountOK, Listing, Storing
  <2>6. CASE req'[r].pc = "clean"
    <3>1. PICK i \in req[r].todo :
            /\ req'[r].todo = req[r].todo \ {i}
            /\ \/ chunks' = chunks \ {i} /\ faults' = faults
               \/ faults' = faults + 1 /\ chunks' = chunks
      BY <2>1, <2>6
    <3>2. PICK A \in SUBSET Indices : A = (chunks \cap final) \ req[r].todo
      BY <1>4
    <3>3. PICK B \in SUBSET Indices : B = (chunks' \cap final) \ req'[r].todo
      BY <1>4, <2>3
    <3>4. Passed(r) = Cardinality(A) /\ Passed(r)' = Cardinality(B)
      BY <2>1, <3>2, <3>3 DEF Passed
    <3>5. Cardinality(A) \in Nat /\ Cardinality(B) \in Nat
      BY CardOf
    <3>6. faults' >= Passed(r)'
      <4>1. CASE chunks' = chunks \ {i} /\ faults' = faults
        <5>1. B \subseteq A
          BY <3>1, <3>2, <3>3, <4>1
        <5>2. Cardinality(B) <= Cardinality(A)
          BY <5>1, CardLess
        <5> QED BY <1>3, <2>2, <3>4, <3>5, <4>1, <5>2
      <4>2. CASE faults' = faults + 1 /\ chunks' = chunks
        <5>1. B \subseteq A \cup {i} /\ i \in Indices
          BY <1>4, <3>1, <3>2, <3>3, <4>2
        <5>2. Cardinality(B) <= Cardinality(A) + 1
          BY <5>1, CardOneMore
        <5> QED BY <1>3, <2>2, <3>4, <3>5, <4>2, <5>2
      <4> QED BY <3>1, <4>1, <4>2
    <3>7. jobs' > 0 => faults' >= Cardinality(final') + 2
      BY <1>3, <1>5, <2>1, <2>2
    <3> QED BY <2>1, <2>2, <2>4, <2>6, <3>6, <3>7 DEF CountOK, Listing, Storing
  <2> QED BY <2>1, <2>5, <2>6
<1>14. CASE PurgeTracker(r)
  <2>1. /\ req[r].pc = "purge" /\ req'[r].pc = "publish" /\ UNCHANGED <<jobs, final, chunks>>
        /\ req'[r].listed = req[r].listed
        /\ tracked' = {} \/ (tracked' = tracked /\ faults' = faults + 1)
    BY <1>0, <1>14, PurgeTrackerDoes, FaultCounts DEF Same
  <2>2. JobsOK' /\ Left' = Left
    BY <1>6, <2>1
  <2>3. /\ tracked \in {{}, req[r].listed} /\ (jobs > 0 => req[r].listed = final)
        /\ jobs > 0 => faults >= Cardinality(final) + 2
        /\ faults >= Left
    BY <1>0, <2>1 DEF CountOK, Storing
  <2>4. /\ jobs' > 0 => faults' >= Cardinality(final') + 2
        /\ faults' >= Left' /\ (tracked' = {} \/ faults' >= Left' + 1)
    BY <1>3, <1>5, <2>1, <2>2, <2>3
  <2> QED BY <2>1, <2>2, <2>3, <2>4 DEF CountOK, Listing, Storing
<1>15. CASE Publish(r)
  <2>1. /\ req[r].pc = "publish" /\ req'[r].pc = "idle" /\ jobs' = jobs + 1
        /\ UNCHANGED <<chunks, tracked, final>>
        /\ outcome' = "queued" \/ faults' = faults + 1
    BY <1>0, <1>15, PublishDoes, FaultCounts
  <2>2. /\ tracked \in {{}, final} /\ faults >= Left
        /\ tracked = {} \/ faults >= Left + 1
        /\ jobs > 0 => faults >= Cardinality(final) + 2
    <3>1. final = req[r].listed
      BY <1>0, <2>1 DEF AloneOK, Closing, Storing
    <3> QED BY <1>0, <2>1, <3>1 DEF CountOK, Storing
  <2>3. Left' = Left
    BY <2>1 DEF Left
  <2>4. jobs' > 1 => faults' >= Cardinality(final') + 2
    BY <1>3, <1>5, <2>1, <2>2
  <2>5. tracked' # {} => tracked' = final' /\ (outcome' = "open" => faults' >= Left' + 2)
    BY <1>3, <1>5, <2>1, <2>2, <2>3
  <2>6. JobsOK'
    BY <2>4, <2>5 DEF JobsOK, OneJobPerUpload
  <2> QED BY <2>1, <2>6 DEF CountOK, Listing, Storing
<1>16. CASE ListToDelete(r)
  <2>1. req'[r].pc = "dclean" /\ UNCHANGED <<jobs, final, chunks, tracked>>
    BY <1>0, <1>16, ListToDeleteDoes
  <2> QED BY <1>6, <2>1 DEF CountOK, Listing, Storing
<1>17. CASE DeleteChunk(r)
  <2>1. /\ req'[r].pc \in {"dclean", "dpurge"} /\ UNCHANGED <<jobs, final, tracked>>
        /\ chunks' \subseteq chunks
    <3>1. {"dclean", "dpurge"} \subseteq Pcs
      BY DEF Pcs
    <3> QED BY <1>0, <1>17, <3>1, DeleteNextDoes DEF DeleteChunk
  <2>2. JobsOK'
    BY <1>0, <1>1, <1>3, <2>1, JobsKeep
  <2> QED BY <2>1, <2>2 DEF CountOK, Listing, Storing
<1>18. CASE PurgeDeleted(r)
  <2>1. req'[r].pc = "idle" /\ UNCHANGED <<jobs, final, chunks>> /\ tracked' \in {{}, tracked}
    BY <1>0, <1>18, PurgeDeletedDoes
  <2> QED BY <1>6, <2>1 DEF CountOK, Listing, Storing
<1> QED BY <1>7, <1>8, <1>9, <1>10, <1>11, <1>12, <1>13, <1>14, <1>15, <1>16, <1>17, <1>18
        DEF ClosingHandler

LEMMA CountFailures ==
  ASSUME UploadInv, CountInv,
         (\E r \in Requests : CallFails(r)) \/ Crash \/ TrackerExpires
  PROVE  CountInv'
<1>0. TypeOK /\ JobsOK
  BY DEF UploadInv, CountInv
<1>1. /\ UNCHANGED <<chunks, final, jobs, outcome>> /\ tracked' \in {{}, tracked}
      /\ faults' = faults
             \/ (faults' = faults + 1 /\ \A r \in Requests : req'[r] = req[r]
                    \/ req'[r].pc = "idle")
      /\ \A r \in Requests : req'[r] = req[r] \/ req'[r].pc = "idle"
  BY <1>0, CallFailsDoes, CrashDoes, FaultCounts DEF Moves, TrackerExpires
<1>2. faults' >= faults /\ faults \in Nat /\ faults' \in Nat
  BY <1>0, <1>1, Sets
<1>3. Left' = Left /\ Left \in Nat /\ Cardinality(final) \in Nat
  <2>1. chunks \cap final \in SUBSET Indices /\ final \in SUBSET Indices
    BY <1>0, Sets
  <2> QED BY <1>1, <2>1, CardOf DEF Left
<1>4. JobsOK'
  BY <1>0, <1>1, <1>2, <1>3 DEF JobsOK, OneJobPerUpload
<1>5. ASSUME NEW r \in Requests PROVE CountOK(r)'
  <2>1. CASE req'[r].pc = "idle"
    BY <2>1 DEF CountOK, Listing, Storing
  <2>2. CASE req'[r] = req[r]
    <3>1. Passed(r)' = Passed(r) /\ Passed(r) \in Nat
      <4>1. (chunks \cap final) \ req[r].todo \in SUBSET Indices
        BY <1>0, Sets
      <4> QED BY <1>1, <2>2, <4>1, CardOf DEF Passed
    <3>2. CountOK(r)
      BY DEF CountInv
    <3> QED BY <1>1, <1>2, <1>3, <2>2, <3>1, <3>2 DEF CountOK
  <2> QED BY <1>1, <2>1, <2>2
<1> QED BY <1>4, <1>5 DEF CountInv

LEMMA CountStep ==
  ASSUME Documented, UploadInv, CountInv, [Next]_vars
  PROVE  CountInv'
<1>1. CASE UNCHANGED vars
  BY <1>1 DEF vars, CountInv, JobsOK, OneJobPerUpload, CountOK, Left, Passed
<1> QED BY <1>1, CountChunkSteps, CountClosingSteps, CountFailures, NextCases

\* With a documented client and the tracker in redis, the analyzer is asked for the whole file,
\* through failed calls, crashes and retries, and a second time only after |file| + 2 failures.
THEOREM QueuedWholeOnceHolds ==
  ASSUME Documented, Tracker = "redis"
  PROVE  Spec => []QueuedWholeOnce
<1>1. UploadInv /\ FileInv /\ CountInv => QueuedWholeOnce
  BY DEF UploadInv, FileInv, CountInv, JobsOK, QueuedWholeOnce, FileIntact
<1>2. UploadInv /\ FileInv /\ CountInv /\ [Next]_vars => UploadInv' /\ FileInv' /\ CountInv'
  BY UploadInvStep, FileStep, CountStep
<1> QED BY <1>1, <1>2, InitUpload, FileInit, CountInit, PTL DEF Spec

-----------------------------------------------------------------------------
(* The upload dialog.                                                      *)

Forms == [step: 0..2, file: Files, voice: {0} \cup VoiceIds, uploading: BOOLEAN]
OpenProbes == [kind: Kinds, file: Files \ {0}]
UploadStates == {"none", "init", "chunks", "complete", "won", "done", "failed"}
UploadRecs == [pc: UploadStates, sent: 0..Chunks, file: Files, voice: {0} \cup VoiceIds,
               opening: 0..MaxOpens]
ServerRecs == [chunks: SUBSET (1..Chunks), done: BOOLEAN, file: Files, voice: {0} \cup VoiceIds]

\* Every closing timer belongs to an opening that is over.
OpeningsOK ==
  /\ open \in BOOLEAN /\ keyGuard \in BOOLEAN /\ voices \in BOOLEAN
  /\ opens \in 0..MaxOpens /\ resets \in Nat
  /\ resets <= opens /\ (open => resets + 1 <= opens)
  /\ asked \subseteq [opening: 1..MaxOpens, had: BOOLEAN]

\* A probe under way is of the file in the form, and what is shown is its or to be replaced.
FormOK ==
  /\ form \in Forms /\ picks \in 0..MaxPicks
  /\ StepHasInput
ProbesOK ==
  /\ shown \in [Kinds -> Files] /\ probes \subseteq OpenProbes
  /\ \A p \in probes : p.file = form.file
  /\ ProbesBelong

FormInv == OpeningsOK /\ FormOK /\ ProbesOK

\* What the service has of an upload is what was sent of it, and all there is when it completes.
SendingFits(u) ==
  /\ uploads[u].pc = "none" => server[u].chunks = {}
  /\ uploads[u].pc \in {"none", "init"} => uploads[u].sent = 0
  /\ uploads[u].pc = "chunks" => uploads[u].sent < Chunks
  /\ uploads[u].pc = "complete" => uploads[u].sent = Chunks
  /\ Running(u) => server[u].chunks = 1..uploads[u].sent
  /\ server[u].done => uploads[u].pc \in {"won", "done", "failed"}

\* The button of the present opening is given back only by a touch of an earlier one.
ButtonHeld ==
  \A u \in UploadIds :
    open /\ Running(u) /\ uploads[u].opening = opens /\ opens \notin disturbed => form.uploading

DialogInv ==
  /\ FormInv
  /\ uploads \in [UploadIds -> UploadRecs] /\ server \in [UploadIds -> ServerRecs]
  /\ disturbed \subseteq 1..MaxOpens
  /\ \A u \in UploadIds : uploads[u].opening <= opens
  /\ \A u \in UploadIds : SendingFits(u)
  /\ ButtonHeld /\ OneUploadPerOpening /\ SentAsReviewed

-----------------------------------------------------------------------------
LEMMA ModalInitOK == ModalInit => DialogInv
<1> SUFFICES ASSUME ModalInit PROVE DialogInv
  OBVIOUS
<1> USE ModalAssumption
<1>1. OpeningsOK
  <2>1. open \in BOOLEAN /\ keyGuard \in BOOLEAN /\ voices \in BOOLEAN /\ ~open
    BY Zenon DEF ModalInit
  <2>2. opens \in 0..MaxOpens /\ resets = 0 /\ opens = 0 /\ asked = {}
    BY DEF ModalInit
  <2> QED BY <2>1, <2>2 DEF OpeningsOK
<1>2. FormOK
  BY DEF ModalInit, FormOK, Forms, Files, Empty, StepHasInput, VoiceIds
<1>3. ProbesOK
  BY DEF ModalInit, ProbesOK, Files, Empty, ProbesBelong
<1>4. uploads \in [UploadIds -> UploadRecs] /\ server \in [UploadIds -> ServerRecs]
  BY DEF ModalInit, UploadRecs, UploadStates, ServerRecs, NoUpload, Files
<1>5. /\ disturbed \subseteq 1..MaxOpens
      /\ \A u \in UploadIds : uploads[u].opening <= opens
  BY DEF ModalInit, NoUpload
<1>6. \A u \in UploadIds : SendingFits(u) /\ ~Running(u) /\ ~server[u].done
  BY DEF ModalInit, NoUpload, SendingFits, Running
<1>7. ButtonHeld /\ OneUploadPerOpening /\ SentAsReviewed
  BY <1>6 DEF ButtonHeld, OneUploadPerOpening, SentAsReviewed
<1> QED BY <1>1, <1>2, <1>3, <1>4, <1>5, <1>6, <1>7 DEF DialogInv, FormInv

\* What the effect of [file] shows and probes belongs to the file it is run for.
LEMMA EffectFollows ==
  ASSUME ProbesOK, NEW f \in Files, FileEffect(f), form'.file = f
  PROVE  ProbesOK'
<1> USE ModalAssumption DEF ProbesOK, OpenProbes
<1>1. shown' \in [Kinds -> Files]
  BY DEF FileEffect, Files
<1>2. probes' \subseteq OpenProbes /\ \A p \in probes' : p.file = f
  BY DEF FileEffect, ProbesOf, Files
<1>3. ProbesBelong'
  BY DEF ProbesBelong, FileEffect, ProbesOf
<1> QED BY <1>1, <1>2, <1>3

\* An empty form needs nothing and probes nothing.
LEMMA ResetClears ==
  ASSUME FormInv, resetState, picks' = picks
  PROVE  FormOK' /\ ProbesOK'
<1> USE ModalAssumption
<1>1. form' = Empty /\ FileEffect(0)
  BY DEF resetState
<1>2. 0 \in Files /\ Empty.file = 0 /\ Empty.step = 0 /\ Empty \in Forms
  BY DEF Files, Empty, Forms
<1>3. FormOK'
  BY <1>1, <1>2 DEF FormInv, FormOK, StepHasInput
<1>4. ProbesOK'
  BY <1>1, <1>2, EffectFollows DEF FormInv
<1> QED BY <1>3, <1>4

\* A form that keeps its file keeps what is shown of it.
LEMMA FileKept ==
  ASSUME ProbesOK, form'.file = form.file, UNCHANGED <<shown, probes>>
  PROVE  ProbesOK'
  BY DEF ProbesOK, ProbesBelong

\* Nothing of the form or of the openings moves.
LEMMA FormKept ==
  ASSUME FormInv,
         UNCHANGED <<open, opens, resets, keyGuard, voices, asked, form, picks, shown, probes>>
  PROVE  FormInv'
  BY DEF FormInv, OpeningsOK, FormOK, ProbesOK, StepHasInput, ProbesBelong

-----------------------------------------------------------------------------
LEMMA FormStep ==
  ASSUME FormInv, uploads \in [UploadIds -> UploadRecs], [ModalNext]_modalVars
  PROVE  FormInv'
<1> USE ModalAssumption
<1> DEFINE StaysOpen == UNCHANGED <<open, opens, resets, keyGuard, voices, asked>>
<1>0. /\ OpeningsOK /\ FormOK /\ ProbesOK
      /\ form \in Forms
  BY DEF FormInv, FormOK
<1>a. StaysOpen => OpeningsOK'
  BY <1>0 DEF OpeningsOK
<1>b. /\ UNCHANGED <<form, picks>> => FormOK'
      /\ UNCHANGED <<form, shown, probes>> => ProbesOK'
  BY <1>0 DEF FormOK, ProbesOK, StepHasInput, ProbesBelong
<1>1. CASE UNCHANGED modalVars
  BY <1>1, FormKept DEF modalVars, dialog
<1>2. CASE Open
  <2>1. OpeningsOK'
    <3>1. opens' \in 1..MaxOpens /\ opens' = opens + 1
      BY <1>0, <1>2 DEF Open, OpeningsOK
    <3>2. asked' \subseteq [opening: 1..MaxOpens, had: BOOLEAN]
      <4>1. asked' = asked \cup {[opening |-> opens', had |-> form.voice # 0]}
        BY <1>2 DEF Open
      <4>2. PICK b \in BOOLEAN : b = (form.voice # 0)
        BY Zenon
      <4>3. [opening |-> opens', had |-> b] \in [opening: 1..MaxOpens, had: BOOLEAN]
        BY <3>1, <4>2
      <4>4. asked \subseteq [opening: 1..MaxOpens, had: BOOLEAN]
        BY <1>0, Zenon DEF OpeningsOK
      <4> QED BY <4>1, <4>2, <4>3, <4>4, Zenon
    <3>3. keyGuard' \in BOOLEAN
      BY <1>0, <1>2 DEF Open, Forms
    <3>4. open' \in BOOLEAN /\ voices' \in BOOLEAN
      BY <1>0, <1>2, Zenon DEF Open, OpeningsOK
    <3>5. resets' = resets /\ resets \in Nat /\ resets <= opens /\ opens \in 0..MaxOpens
      <4>1. resets \in Nat /\ resets <= opens /\ opens \in 0..MaxOpens
        BY <1>0, Zenon DEF OpeningsOK
      <4>2. resets' = resets
        BY <1>2 DEF Open
      <4> QED BY <4>1, <4>2
    <3>6. opens' \in 0..MaxOpens /\ resets' + 1 <= opens' /\ resets' <= opens'
      BY <3>1, <3>5
    <3> QED BY <3>2, <3>3, <3>4, <3>5, <3>6 DEF OpeningsOK
  <2> QED BY <1>2, <2>1, <1>b DEF Open, FormInv
<1>3. ASSUME NEW uploading, handleClose(uploading)
      PROVE  FormInv'
  <2>1. OpeningsOK'
    <3>1. open' \in BOOLEAN /\ ~open' /\ open
      BY <1>3, Zenon DEF handleClose
    <3>2. resets' \in Nat /\ resets' <= opens
      BY <1>0, <1>3, <3>1 DEF handleClose, OpeningsOK
    <3> QED BY <1>0, <1>3, <3>1, <3>2 DEF handleClose, OpeningsOK
  <2> QED BY <1>3, <2>1, <1>b DEF handleClose, FormInv
<1>4. CASE Cancel \/ Escape
  BY <1>4, <1>3 DEF Cancel, Escape
<1>5. CASE ResetFires
  <2>1. OpeningsOK'
    BY <1>0, <1>5 DEF ResetFires, OpeningsOK, dialog
  <2> QED BY <1>5, <2>1, ResetClears DEF ResetFires, FormInv
<1>6. CASE Pick
  <2>1. picks' \in 1..MaxPicks /\ picks' \in Files
    BY <1>0, <1>6 DEF Pick, FormOK, Files
  <2>2. form' \in Forms /\ form'.file = picks' /\ form'.step = 0
    BY <1>0, <1>6, <2>1 DEF Pick, Forms
  <2>3. FormOK'
    BY <2>1, <2>2 DEF FormOK, StepHasInput
  <2>4. ProbesOK'
    BY <1>0, <1>6, <2>1, <2>2, EffectFollows DEF Pick
  <2> QED BY <1>6, <1>a, <2>3, <2>4 DEF Pick, FormInv, dialog
<1>7. CASE Clear
  <2>1. 0 \in Files
    BY DEF Files
  <2>2. form' \in Forms /\ form'.file = 0 /\ form'.step = 0
    BY <1>0, <1>7, <2>1 DEF Clear, Forms
  <2>3. FormOK'
    BY <1>0, <1>7, <2>2 DEF Clear, FormOK, StepHasInput
  <2>4. ProbesOK'
    BY <1>0, <1>7, <2>1, <2>2, EffectFollows DEF Clear
  <2> QED BY <1>7, <1>a, <2>3, <2>4 DEF Clear, FormInv, dialog
<1>8. CASE goNext
  <2>1. form' \in Forms /\ form'.file = form.file /\ form'.voice = form.voice
    BY <1>0, <1>8 DEF goNext, Forms
  <2>2. FormOK'
    BY <1>0, <1>8, <2>1 DEF goNext, Forms, FormOK, StepHasInput
  <2>3. ProbesOK'
    BY <1>0, <1>8, <2>1, FileKept DEF goNext
  <2> QED BY <1>8, <1>a, <2>2, <2>3 DEF goNext, FormInv, dialog
<1>9. CASE goBack
  <2>1. form' \in Forms /\ form'.file = form.file /\ form'.voice = form.voice
    BY <1>0, <1>9 DEF goBack, Forms
  <2>2. FormOK'
    BY <1>0, <1>9, <2>1 DEF goBack, Forms, FormOK, StepHasInput
  <2>3. ProbesOK'
    BY <1>0, <1>9, <2>1, FileKept DEF goBack
  <2> QED BY <1>9, <1>a, <2>2, <2>3 DEF goBack, FormInv, dialog
<1>10. ASSUME NEW p \in probes, ProbeEnds(p)
       PROVE  FormInv'
  <2>1. PICK found \in {p.file, 0} : shown' = [shown EXCEPT ![p.kind] = found]
    BY <1>10 DEF ProbeEnds
  <2>2. p \in OpenProbes /\ p.kind \in Kinds /\ p.file = form.file /\ found \in Files
    BY <1>0, <2>1 DEF ProbesOK, OpenProbes, Files
  <2>3. shown' \in [Kinds -> Files]
    BY <1>0, <2>1, <2>2 DEF ProbesOK
  <2>4. ProbesBelong'
    <3> SUFFICES ASSUME NEW k \in Kinds
                 PROVE  shown'[k] \in {0, form.file} \/ [kind |-> k, file |-> form.file] \in probes'
      BY <1>10 DEF ProbesBelong, ProbeEnds
    <3>1. CASE k = p.kind
      BY <3>1, <2>1, <2>2, <1>0 DEF ProbesOK
    <3>2. CASE k # p.kind
      <4>1. shown'[k] = shown[k] /\ [kind |-> k, file |-> form.file] # p
        BY <3>2, <2>1, <2>2, <1>0 DEF ProbesOK
      <4> QED BY <4>1, <1>0, <1>10 DEF ProbesOK, ProbesBelong, ProbeEnds
    <3> QED BY <3>1, <3>2
  <2>5. ProbesOK'
    BY <1>0, <1>10, <2>3, <2>4 DEF ProbesOK, ProbeEnds
  <2> QED BY <1>10, <1>a, <1>b, <2>5 DEF ProbeEnds, FormInv, dialog
<1>11. ASSUME NEW r \in asked, VoicesArrive(r)
       PROVE  FormInv'
  <2>1. OpeningsOK'
    BY <1>0, <1>11 DEF OpeningsOK, VoicesArrive
  <2>2. /\ form' \in Forms /\ form'.file = form.file /\ form'.step = form.step
        /\ form'.voice \in {form.voice, 1}
    BY <1>0, <1>11 DEF VoicesArrive, Forms, VoiceIds
  <2>3. FormOK'
    BY <1>0, <1>11, <2>2 DEF VoicesArrive, FormOK, StepHasInput
  <2>4. ProbesOK'
    BY <1>0, <1>11, <2>2, FileKept DEF VoicesArrive
  <2> QED BY <2>1, <2>3, <2>4 DEF FormInv
<1>12. ASSUME NEW v \in VoiceIds, SelectVoice(v)
       PROVE  FormInv'
  <2>1. /\ form' \in Forms /\ form'.file = form.file /\ form'.step = form.step
        /\ form'.voice # 0
    BY <1>0, <1>12 DEF SelectVoice, Forms, VoiceIds
  <2>2. FormOK'
    BY <1>0, <1>12, <2>1 DEF SelectVoice, FormOK, StepHasInput
  <2>3. ProbesOK'
    BY <1>0, <1>12, <2>1, FileKept DEF SelectVoice
  <2> QED BY <1>12, <1>a, <2>2, <2>3 DEF SelectVoice, FormInv, dialog
<1>13. ASSUME NEW b \in BOOLEAN, form' = [form EXCEPT !.uploading = b],
              UNCHANGED <<dialog, shown, probes, picks, resets>>
       PROVE  FormInv'
  <2>1. /\ form' \in Forms /\ form'.file = form.file /\ form'.step = form.step
        /\ form'.voice = form.voice
    BY <1>0, <1>13 DEF Forms
  <2>2. FormOK'
    BY <1>0, <1>13, <2>1 DEF FormOK, StepHasInput
  <2>3. ProbesOK'
    BY <1>0, <1>13, <2>1, FileKept
  <2> QED BY <1>13, <1>a, <2>2, <2>3 DEF FormInv, dialog
<1>14. ASSUME NEW u \in UploadIds, handleCreate(u)
       PROVE  FormInv'
  BY <1>14, <1>13 DEF handleCreate
<1>15. ASSUME NEW u \in UploadIds, UploadFails(u)
       PROVE  FormInv'
  BY <1>15, <1>13 DEF UploadFails
<1>16. ASSUME NEW u \in UploadIds, InitAnswers(u) \/ ChunkAnswers(u) \/ CompleteAnswers(u)
       PROVE  FormInv'
  BY <1>16, <1>a, <1>b DEF InitAnswers, ChunkAnswers, CompleteAnswers, dialog, FormInv
<1>17. ASSUME NEW u \in UploadIds, SuccessFires(u)
       PROVE  FormInv'
  <2>1. OpeningsOK'
    BY <1>0, <1>17 DEF SuccessFires, OpeningsOK
  <2> QED BY <1>17, <2>1, ResetClears DEF SuccessFires, FormInv
<1> QED
  BY <1>1, <1>2, <1>4, <1>5, <1>6, <1>7, <1>8, <1>9, <1>10, <1>11, <1>12, <1>14, <1>15, <1>16,
     <1>17 DEF ModalNext

-----------------------------------------------------------------------------
(* What the uploads have sent.                                             *)

UploadTypes == uploads \in [UploadIds -> UploadRecs] /\ server \in [UploadIds -> ServerRecs]

\* An upload under way is moved by itself alone, and what is not sent is not touched.
MovesOne(u) ==
  \A w \in UploadIds : w # u => uploads'[w] = uploads[w] /\ server'[w] = server[w]

\* The steps of an upload keep what it is of and when it was begun.
LEMMA UploadsStep ==
  ASSUME DialogInv, NEW u \in UploadIds,
         InitAnswers(u) \/ ChunkAnswers(u) \/ CompleteAnswers(u) \/ UploadFails(u)
           \/ SuccessFires(u)
  PROVE  /\ UploadTypes' /\ MovesOne(u) /\ SendingFits(u)'
         /\ Running(u)' => Running(u)
         /\ uploads'[u].opening = uploads[u].opening
         /\ uploads'[u].file = uploads[u].file /\ uploads'[u].voice = uploads[u].voice
         /\ server'[u].done => server'[u].chunks = 1..Chunks
                                /\ server'[u].file = uploads[u].file
                                /\ server'[u].voice = uploads[u].voice
<1> USE ModalAssumption
<1> DEFINE it == uploads[u]
           has == server[u]
<1>0. /\ uploads \in [UploadIds -> UploadRecs] /\ server \in [UploadIds -> ServerRecs]
      /\ it \in UploadRecs /\ has \in ServerRecs
      /\ SendingFits(u) /\ Chunks \in Nat
      /\ has.done => has.chunks = 1..Chunks /\ has.file = it.file /\ has.voice = it.voice
  BY DEF DialogInv, SentAsReviewed
<1>1. CASE InitAnswers(u)
  <2>1. uploads' = [uploads EXCEPT ![u].pc = IF Chunks = 0 THEN "complete" ELSE "chunks"]
        /\ server' = server /\ it.pc = "init"
    BY <1>1 DEF InitAnswers
  <2>2. /\ uploads'[u].pc = IF Chunks = 0 THEN "complete" ELSE "chunks"
        /\ uploads'[u].sent = it.sent /\ uploads'[u].file = it.file /\ uploads'[u].voice = it.voice
        /\ uploads'[u].opening = it.opening /\ uploads'[u] \in UploadRecs
        /\ \A w \in UploadIds : w # u => uploads'[w] = uploads[w]
    BY <2>1, <1>0 DEF UploadRecs, UploadStates
  <2>3. uploads' \in [UploadIds -> UploadRecs]
    BY <2>1, <2>2, <1>0
  <2>4. SendingFits(u)'
    BY <2>1, <2>2, <1>0 DEF SendingFits, Running
  <2>5. Running(u)
    BY <2>1 DEF Running
  <2> QED BY <2>1, <2>2, <2>3, <2>4, <2>5, <1>0 DEF UploadTypes, MovesOne
<1>2. CASE ChunkAnswers(u)
  <2>1. /\ server' = [server EXCEPT ![u].chunks = @ \cup {it.sent + 1}]
        /\ uploads' = [uploads EXCEPT ![u].sent = @ + 1,
                                ![u].pc = IF it.sent + 1 = Chunks THEN "complete" ELSE @]
        /\ it.pc = "chunks"
    BY <1>2 DEF ChunkAnswers
  <2>2. /\ it.sent \in Nat /\ it.sent < Chunks /\ has.chunks = 1..it.sent /\ ~has.done
    BY <2>1, <1>0 DEF SendingFits, Running, UploadRecs
  <2>3. 1..it.sent + 1 = 1..it.sent \cup {it.sent + 1}
    BY <2>2
  <2>4. /\ uploads'[u].pc = IF it.sent + 1 = Chunks THEN "complete" ELSE "chunks"
        /\ uploads'[u].sent = it.sent + 1 /\ uploads'[u].file = it.file
        /\ uploads'[u].voice = it.voice /\ uploads'[u].opening = it.opening
        /\ \A w \in UploadIds : w # u => uploads'[w] = uploads[w]
        /\ uploads' \in [UploadIds -> UploadRecs]
    <3>1. uploads' = [uploads EXCEPT ![u] = [it EXCEPT
            !.sent = it.sent + 1, !.pc = IF it.sent + 1 = Chunks THEN "complete" ELSE "chunks"]]
      BY <2>1, <1>0 DEF UploadRecs
    <3>2. [it EXCEPT !.sent = it.sent + 1,
                     !.pc = IF it.sent + 1 = Chunks THEN "complete" ELSE "chunks"] \in UploadRecs
      <4>1. it.sent + 1 \in 0..Chunks
        BY <2>2, <1>0
      <4>2. (IF it.sent + 1 = Chunks THEN "complete" ELSE "chunks") \in UploadStates
        BY DEF UploadStates
      <4> QED BY <4>1, <4>2, <1>0 DEF UploadRecs
    <3> QED BY <3>1, <3>2, <1>0 DEF UploadRecs
  <2>5. /\ server'[u].chunks = has.chunks \cup {it.sent + 1} /\ server'[u].done = has.done
        /\ server'[u].file = has.file /\ server'[u].voice = has.voice
        /\ server'[u] \in ServerRecs
        /\ \A w \in UploadIds : w # u => server'[w] = server[w]
    BY <2>1, <2>2, <1>0 DEF ServerRecs
  <2>6. UploadTypes'
    BY <2>1, <2>4, <2>5, <1>0 DEF UploadTypes
  <2>7. SendingFits(u)'
    BY <2>2, <2>3, <2>4, <2>5, <1>0 DEF SendingFits, Running
  <2>8. Running(u)
    BY <2>1 DEF Running
  <2> QED BY <2>2, <2>4, <2>5, <2>6, <2>7, <2>8 DEF MovesOne
<1>3. CASE CompleteAnswers(u)
  <2>1. /\ server' = [server EXCEPT ![u].done = TRUE, ![u].file = it.file, ![u].voice = it.voice]
        /\ uploads' = [uploads EXCEPT ![u].pc = "won"] /\ it.pc = "complete"
    BY <1>3 DEF CompleteAnswers, Params
  <2>2. has.chunks = 1..Chunks
    BY <2>1, <1>0 DEF SendingFits, Running
  <2>3. /\ uploads'[u].pc = "won" /\ uploads'[u].sent = it.sent /\ uploads'[u].file = it.file
        /\ uploads'[u].voice = it.voice /\ uploads'[u].opening = it.opening
        /\ uploads'[u] \in UploadRecs
        /\ \A w \in UploadIds : w # u => uploads'[w] = uploads[w]
    BY <2>1, <1>0 DEF UploadRecs, UploadStates
  <2>4. /\ server'[u].chunks = has.chunks
        /\ server'[u].file = it.file /\ server'[u].voice = it.voice
        /\ server'[u] \in ServerRecs
        /\ \A w \in UploadIds : w # u => server'[w] = server[w]
    BY <2>1, <1>0 DEF ServerRecs, UploadRecs
  <2>5. UploadTypes'
    BY <2>1, <2>3, <2>4, <1>0 DEF UploadTypes
  <2>6. SendingFits(u)' /\ ~Running(u)'
    BY <2>3 DEF SendingFits, Running
  <2> QED BY <2>2, <2>3, <2>4, <2>5, <2>6 DEF MovesOne
<1>4. CASE UploadFails(u)
  <2>1. Running(u) /\ uploads' = [uploads EXCEPT ![u].pc = "failed"]
    BY <1>4 DEF UploadFails
  <2>2. /\ uploads'[u].pc = "failed" /\ uploads'[u].sent = it.sent /\ uploads'[u].file = it.file
        /\ uploads'[u].voice = it.voice /\ uploads'[u].opening = it.opening
        /\ uploads'[u] \in UploadRecs
        /\ \A w \in UploadIds : w # u => uploads'[w] = uploads[w]
    BY <2>1, <1>0 DEF UploadRecs, UploadStates
  <2>3. SendingFits(u)' /\ ~Running(u)'
    BY <2>2 DEF SendingFits, Running
  <2>4. uploads' \in [UploadIds -> UploadRecs]
    BY <2>1, <2>2, <1>0
  <2>5. CASE server' = server
    BY <2>2, <2>3, <2>4, <2>5, <1>0 DEF UploadTypes, MovesOne
  <2>6. CASE /\ it.pc = "chunks"
             /\ server' = [server EXCEPT ![u].chunks = @ \cup {it.sent + 1}]
    <3>1. ~has.done /\ it.sent \in Nat /\ it.sent < Chunks
      BY <2>6, <1>0 DEF SendingFits, UploadRecs
    <3>2. /\ server'[u].done = has.done /\ server'[u] \in ServerRecs
          /\ \A w \in UploadIds : w # u => server'[w] = server[w]
      BY <2>6, <3>1, <1>0 DEF ServerRecs
    <3>3. UploadTypes'
      BY <2>4, <2>6, <3>2, <1>0 DEF UploadTypes
    <3> QED BY <2>2, <2>3, <3>1, <3>2, <3>3 DEF MovesOne
  <2>7. CASE /\ it.pc = "complete"
             /\ server' = [server EXCEPT ![u].done = TRUE, ![u].file = it.file,
                                         ![u].voice = it.voice]
    <3>1. has.chunks = 1..Chunks
      BY <2>7, <1>0 DEF SendingFits, Running
    <3>2. /\ server'[u].chunks = has.chunks
          /\ server'[u].file = it.file /\ server'[u].voice = it.voice
          /\ server'[u] \in ServerRecs
          /\ \A w \in UploadIds : w # u => server'[w] = server[w]
      BY <2>7, <1>0 DEF ServerRecs, UploadRecs
    <3>3. UploadTypes'
      BY <2>4, <2>7, <3>2, <1>0 DEF UploadTypes
    <3> QED BY <2>2, <2>3, <3>1, <3>2, <3>3 DEF MovesOne
  <2> QED BY <1>4, <2>5, <2>6, <2>7 DEF UploadFails, Params
<1>5. CASE SuccessFires(u)
  <2>1. uploads' = [uploads EXCEPT ![u].pc = "done"] /\ server' = server /\ it.pc = "won"
    BY <1>5 DEF SuccessFires
  <2>2. /\ uploads'[u].pc = "done" /\ uploads'[u].sent = it.sent /\ uploads'[u].file = it.file
        /\ uploads'[u].voice = it.voice /\ uploads'[u].opening = it.opening
        /\ uploads'[u] \in UploadRecs
        /\ \A w \in UploadIds : w # u => uploads'[w] = uploads[w]
    BY <2>1, <1>0 DEF UploadRecs, UploadStates
  <2>3. SendingFits(u)' /\ ~Running(u)'
    BY <2>2 DEF SendingFits, Running
  <2>4. uploads' \in [UploadIds -> UploadRecs]
    BY <2>1, <2>2, <1>0
  <2> QED BY <2>1, <2>2, <2>3, <2>4, <1>0 DEF UploadTypes, MovesOne
<1> QED BY <1>1, <1>2, <1>3, <1>4, <1>5

\* handleCreate begins with what the form has, and nothing has been sent of it.
LEMMA CreateBegins ==
  ASSUME DialogInv, NEW u \in UploadIds, handleCreate(u)
  PROVE  /\ UploadTypes' /\ MovesOne(u) /\ SendingFits(u)' /\ ~Running(u)
         /\ uploads'[u].opening = opens /\ ~server'[u].done
<1> USE ModalAssumption
<1>0. /\ uploads \in [UploadIds -> UploadRecs] /\ server \in [UploadIds -> ServerRecs]
      /\ form \in Forms /\ SendingFits(u) /\ Chunks \in Nat /\ opens \in 0..MaxOpens
  BY DEF DialogInv, FormInv, FormOK, OpeningsOK
<1>1. /\ uploads' = [uploads EXCEPT ![u] = [pc |-> "init", sent |-> 0, file |-> form.file,
                                        voice |-> form.voice, opening |-> opens]]
      /\ server' = server /\ uploads[u].pc = "none"
  BY DEF handleCreate
<1>2. [pc |-> "init", sent |-> 0, file |-> form.file, voice |-> form.voice, opening |-> opens]
        \in UploadRecs
  BY <1>0 DEF UploadRecs, UploadStates, Forms
<1>3. UploadTypes'
  BY <1>0, <1>1, <1>2 DEF UploadTypes
<1>4. server[u].chunks = {} /\ ~server[u].done
  BY <1>0, <1>1 DEF SendingFits
<1>5. uploads'[u].pc = "init" /\ uploads'[u].sent = 0 /\ uploads'[u].opening = opens
  BY <1>0, <1>1
<1>6. SendingFits(u)'
  BY <1>1, <1>4, <1>5 DEF SendingFits
<1> QED BY <1>0, <1>1, <1>3, <1>4, <1>5, <1>6 DEF MovesOne, Running

\* The parts of the invariant that the uploads of one opening share.
LEMMA HeldKept ==
  ASSUME DialogInv, UNCHANGED <<opens, uploads, disturbed>>, open' => open,
         form'.uploading = form.uploading
  PROVE  ButtonHeld' /\ OneUploadPerOpening'
  BY DEF DialogInv, ButtonHeld, OneUploadPerOpening, Running

\* An upload that moves leaves the others where they are.
LEMMA OthersFit ==
  ASSUME DialogInv, NEW u \in UploadIds, MovesOne(u), NEW w \in UploadIds, w # u
  PROVE  SendingFits(w)' /\ (Running(w)' <=> Running(w))
         /\ uploads'[w].opening = uploads[w].opening
  BY DEF DialogInv, MovesOne, SendingFits, Running

-----------------------------------------------------------------------------
LEMMA DialogStep == DialogInv /\ [ModalNext]_modalVars => DialogInv'
<1> SUFFICES ASSUME DialogInv, [ModalNext]_modalVars PROVE DialogInv'
  OBVIOUS
<1> USE ModalAssumption
<1>0. /\ FormInv' /\ uploads \in [UploadIds -> UploadRecs] /\ opens \in 0..MaxOpens
      /\ disturbed \subseteq 1..MaxOpens
  <2>1. opens \in 0..MaxOpens
    BY Zenon DEF DialogInv, FormInv, OpeningsOK
  <2> QED BY <2>1, FormStep DEF DialogInv
<1> DEFINE UploadsKept == UNCHANGED <<uploads, server>>
           RestOK == /\ \A u \in UploadIds : uploads[u].opening <= opens
                     /\ \A u \in UploadIds : SendingFits(u)
                     /\ SentAsReviewed
<1>a. /\ UploadsKept => UploadTypes' /\ (opens' = opens => RestOK')
  BY DEF DialogInv, UploadTypes, SendingFits, SentAsReviewed, Running
<1>b. UploadsKept /\ UNCHANGED <<opens, disturbed>> /\ (open' => open)
        /\ form'.uploading = form.uploading => DialogInv'
  BY <1>a, <1>0, HeldKept DEF DialogInv, UploadTypes
<1>1. CASE UNCHANGED modalVars
  BY <1>1, <1>b DEF modalVars, dialog
<1>2. CASE Open
  <2>1. opens' = opens + 1 /\ UploadsKept /\ disturbed' = disturbed
    BY <1>2 DEF Open
  <2>2. \A u \in UploadIds : uploads[u].opening \in Nat /\ uploads[u].opening <= opens
    BY DEF DialogInv, UploadRecs
  <2>3. \A u \in UploadIds : uploads'[u].opening <= opens' /\ uploads'[u].opening # opens'
    BY <2>1, <2>2, <1>0
  <2>4. ButtonHeld'
    BY <2>3 DEF ButtonHeld
  <2>5. OneUploadPerOpening' /\ SentAsReviewed' /\ \A u \in UploadIds : SendingFits(u)'
    BY <2>1 DEF DialogInv, OneUploadPerOpening, SentAsReviewed, SendingFits, Running
  <2> QED BY <2>1, <2>3, <2>4, <2>5, <1>0, <1>a DEF DialogInv, UploadTypes
<1>3. ASSUME NEW uploading, handleClose(uploading)
      PROVE  DialogInv'
  <2>1. UploadsKept /\ UNCHANGED <<opens, disturbed, form>> /\ open
    BY <1>3, Zenon DEF handleClose
  <2> QED BY <2>1, <1>b
<1>4. CASE Cancel \/ Escape
  BY <1>4, <1>3 DEF Cancel, Escape
<1>5. CASE ResetFires
  <2>1. UploadsKept /\ opens' = opens /\ open' = open
    BY <1>5, Zenon DEF ResetFires, dialog
  <2>2. disturbed' = (IF open THEN disturbed \cup {opens} ELSE disturbed)
    BY <1>5 DEF ResetFires
  <2>3. open => opens \in 1..MaxOpens
    <3>1. open => opens >= 1
      <4>1. open => resets + 1 <= opens /\ resets \in Nat
        BY Zenon DEF DialogInv, FormInv, OpeningsOK
      <4> QED BY <4>1, <1>0
    <3> QED BY <3>1, <1>0
  <2>4. disturbed' \subseteq 1..MaxOpens /\ disturbed \subseteq disturbed'
    BY <2>2, <2>3, <1>0
  <2>5. ButtonHeld'
    BY <2>1, <2>2 DEF ButtonHeld
  <2>6. OneUploadPerOpening'
    BY <2>1, <2>4 DEF DialogInv, OneUploadPerOpening, Running
  <2> QED BY <2>1, <2>4, <2>5, <2>6, <1>0, <1>a DEF DialogInv, UploadTypes
<1>6. CASE Pick \/ Clear \/ goNext \/ goBack \/ (\E v \in VoiceIds : SelectVoice(v))
  <2>1. UploadsKept /\ UNCHANGED <<opens, disturbed, open>>
    BY <1>6, Zenon DEF Pick, Clear, goNext, goBack, SelectVoice, dialog
  <2>2. form'.uploading = form.uploading
    BY <1>6 DEF Pick, Clear, goNext, goBack, SelectVoice, DialogInv, FormInv, FormOK, Forms
  <2> QED BY <2>1, <2>2, <1>b
<1>7. CASE \E p \in probes : ProbeEnds(p)
  BY <1>7, <1>b DEF ProbeEnds, dialog
<1>8. CASE \E r \in asked : VoicesArrive(r)
  <2>1. UploadsKept /\ UNCHANGED <<opens, disturbed, open>>
    BY <1>8, Zenon DEF VoicesArrive
  <2>2. form'.uploading = form.uploading
    BY <1>8 DEF VoicesArrive, DialogInv, FormInv, FormOK, Forms
  <2> QED BY <2>1, <2>2, <1>b
<1>9. ASSUME NEW u \in UploadIds, handleCreate(u)
      PROVE  DialogInv'
  <2>1. /\ UploadTypes' /\ MovesOne(u) /\ SendingFits(u)' /\ ~Running(u)
        /\ uploads'[u].opening = opens /\ ~server'[u].done
    BY <1>9, CreateBegins
  <2>2. opens' = opens /\ disturbed' = disturbed
    BY <1>9 DEF handleCreate, dialog
  <2>3. open /\ ~form.uploading /\ open'
    BY <1>9, Zenon DEF handleCreate, Creatable, dialog
  <2>4. form'.uploading
    BY <1>9 DEF handleCreate, DialogInv, FormInv, FormOK, Forms
  <2>5. \A w \in UploadIds : SendingFits(w)' /\ uploads'[w].opening <= opens'
    BY <2>1, <2>2, <1>0, OthersFit DEF DialogInv
  <2>6. SentAsReviewed'
    BY <2>1 DEF DialogInv, SentAsReviewed, MovesOne
  <2>7. ButtonHeld'
    BY <2>4 DEF ButtonHeld
  <2>8. \A w \in UploadIds : w # u /\ Running(w)' /\ uploads'[w].opening = opens
            => opens \in disturbed
    BY <2>1, <2>3, OthersFit DEF DialogInv, ButtonHeld
  <2>9. OneUploadPerOpening'
    <3> SUFFICES ASSUME NEW v \in UploadIds, NEW w \in UploadIds, v # w,
                        Running(v)', Running(w)', uploads'[v].opening = uploads'[w].opening
                 PROVE  uploads'[v].opening \in disturbed'
      BY DEF OneUploadPerOpening
    <3>1. CASE v = u \/ w = u
      BY <3>1, <2>1, <2>2, <2>8
    <3>2. CASE v # u /\ w # u
      BY <3>2, <2>1, <2>2, OthersFit DEF DialogInv, OneUploadPerOpening
    <3> QED BY <3>1, <3>2
  <2> QED BY <2>1, <2>2, <2>5, <2>6, <2>7, <2>9, <1>0 DEF DialogInv, UploadTypes
<1>10. ASSUME NEW u \in UploadIds,
              InitAnswers(u) \/ ChunkAnswers(u) \/ CompleteAnswers(u) \/ UploadFails(u)
                \/ SuccessFires(u)
       PROVE  DialogInv'
  <2>1. /\ UploadTypes' /\ MovesOne(u) /\ SendingFits(u)'
        /\ Running(u)' => Running(u)
        /\ uploads'[u].opening = uploads[u].opening
        /\ uploads'[u].file = uploads[u].file /\ uploads'[u].voice = uploads[u].voice
        /\ server'[u].done => server'[u].chunks = 1..Chunks
                               /\ server'[u].file = uploads[u].file
                               /\ server'[u].voice = uploads[u].voice
    BY <1>10, UploadsStep
  <2>2. opens' = opens
    BY <1>10, Zenon DEF InitAnswers, ChunkAnswers, CompleteAnswers, UploadFails, SuccessFires,
       dialog
  <2>3. \A w \in UploadIds : SendingFits(w)' /\ (Running(w)' => Running(w))
                              /\ uploads'[w].opening = uploads[w].opening
    BY <2>1, OthersFit
  <2>4. SentAsReviewed'
    BY <2>1 DEF DialogInv, SentAsReviewed, MovesOne
  <2>5. \A w \in UploadIds : uploads[w].opening \in Nat /\ uploads[w].opening <= opens
    BY DEF DialogInv, UploadRecs
  <2>6. CASE UNCHANGED <<open, form, disturbed>>
    <3>1. ButtonHeld' /\ OneUploadPerOpening'
      BY <2>2, <2>3, <2>6 DEF DialogInv, ButtonHeld, OneUploadPerOpening
    <3> QED BY <3>1, <2>1, <2>2, <2>3, <2>4, <2>5, <2>6, <1>0 DEF DialogInv, UploadTypes
  <2>7. CASE Touches(uploads[u].opening)
    <3>1. disturbed \subseteq disturbed' /\ disturbed' \subseteq 1..MaxOpens
          /\ (uploads[u].opening < opens => opens \in disturbed')
      <4>1. uploads[u].opening \in Nat /\ opens \in 0..MaxOpens /\ disturbed \subseteq 1..MaxOpens
        BY <2>5, <1>0
      <4>2. uploads[u].opening < opens => opens \in 1..MaxOpens
        BY <4>1
      <4> QED BY <4>1, <4>2, <2>7 DEF Touches
    <3>2. OneUploadPerOpening'
      BY <3>1, <2>3 DEF DialogInv, OneUploadPerOpening
    <3>3. CASE UploadFails(u)
      <4>1. Running(u) /\ ~Running(u)' /\ open' = open
        <5>1. uploads' = [uploads EXCEPT ![u].pc = "failed"]
          BY <3>3 DEF UploadFails
        <5>2. uploads'[u].pc = "failed"
          BY <5>1, <1>0 DEF UploadRecs
        <5> QED BY <3>3, <5>2, Zenon DEF UploadFails, Running, dialog
      <4>2. ButtonHeld'
        <5> SUFFICES ASSUME NEW w \in UploadIds, Running(w)', uploads'[w].opening = opens',
                            opens' \notin disturbed'
                     PROVE  FALSE
          BY DEF ButtonHeld
        <5>1. w # u /\ Running(w) /\ uploads[w].opening = opens /\ opens \notin disturbed'
          BY <4>1, <2>2, <2>3
        <5>2. uploads[u].opening = opens
          BY <5>1, <3>1, <2>5, <1>0
        <5>3. opens \in disturbed
          BY <5>1, <5>2, <4>1 DEF DialogInv, OneUploadPerOpening
        <5> QED BY <5>1, <5>3, <3>1
      <4> QED BY <4>2, <3>1, <3>2, <2>1, <2>2, <2>3, <2>4, <2>5, <1>0 DEF DialogInv, UploadTypes
    <3>4. CASE ~open'
      <4>1. ButtonHeld'
        BY <3>4, Zenon DEF ButtonHeld
      <4> QED BY <4>1, <3>1, <3>2, <2>1, <2>2, <2>3, <2>4, <2>5, <1>0 DEF DialogInv, UploadTypes
    <3>5. UploadFails(u) \/ ~open' \/ UNCHANGED <<open, form, disturbed>>
      BY <1>10, Zenon DEF InitAnswers, ChunkAnswers, CompleteAnswers, SuccessFires, dialog
    <3> QED BY <2>6, <3>3, <3>4, <3>5
  <2>8. Touches(uploads[u].opening) \/ UNCHANGED <<open, form, disturbed>>
    BY <1>10, Zenon DEF InitAnswers, ChunkAnswers, CompleteAnswers, UploadFails, SuccessFires,
       dialog
  <2> QED BY <2>6, <2>7, <2>8
<1> QED BY <1>1, <1>2, <1>4, <1>5, <1>6, <1>7, <1>8, <1>9, <1>10 DEF ModalNext

LEMMA DialogHolds == ModalSpec => []DialogInv
  BY ModalInitOK, DialogStep, PTL DEF ModalSpec

\* Whatever timers, probes, late answers and buttons do, each step of the dialog has what the
\* steps before it ask for, and duration and thumbnail are never those of a replaced file.
THEOREM FormConsistentHolds == ModalSpec => []FormConsistent
<1>1. DialogInv => FormConsistent
  <2> SUFFICES ASSUME DialogInv PROVE FormConsistent
    OBVIOUS
  <2> USE ModalAssumption
  <2>1. OpeningsOK /\ FormOK /\ ProbesOK
    BY DEF DialogInv, FormInv
  <2>2. {open, keyGuard, voices} \subseteq BOOLEAN
    BY <2>1, Zenon DEF OpeningsOK
  <2>3. opens \in 0..MaxOpens /\ resets \in Nat /\ resets <= opens
        /\ asked \subseteq [opening: 1..MaxOpens, had: BOOLEAN]
    BY <2>1, Zenon DEF OpeningsOK
  <2>4. resets \in 0..MaxOpens
    BY <2>3
  <2>5. ModalTypeOK
    BY <2>1, <2>2, <2>3, <2>4 DEF ModalTypeOK, DialogInv, FormOK, ProbesOK, Forms, OpenProbes,
       UploadRecs, UploadStates, ServerRecs
  <2> QED BY <2>1, <2>5 DEF FormOK, ProbesOK, FormConsistent
<1> QED BY <1>1, DialogHolds, PTL

\* One opening of the dialog never uploads twice at a time, for any number of openings and
\* uploads, unless a timer or an upload of an earlier one has given the button back.
THEOREM OneUploadPerOpeningHolds == ModalSpec => []OneUploadPerOpening
<1>1. DialogInv => OneUploadPerOpening
  BY DEF DialogInv
<1> QED BY <1>1, DialogHolds, PTL

\* What the upload-service has of a finished upload is the file and the voice reviewed, and
\* all of its chunks.
THEOREM SentAsReviewedHolds == ModalSpec => []SentAsReviewed
<1>1. DialogInv => SentAsReviewed
  BY DEF DialogInv
<1> QED BY <1>1, DialogHolds, PTL

-----------------------------------------------------------------------------
(* The dashboard and the dialogs of the job page.                          *)

Lists == [Jobs -> Stages \cup {"absent"}]
FetchRecs == [state: {"free", "sent", "read"}, jobs: Lists]
OrderRecs == [kind: {"one", "bulk", "share", "over"}, ids: SUBSET Jobs, left: SUBSET Jobs,
              ok: SUBSET Jobs]
VisitRecs == [job: Jobs \cup {Nowhere}, loaded: BOOLEAN, confirm: BOOLEAN, deleting: BOOLEAN,
              creating: BOOLEAN, link: Links]
AskRecs == [kind: {"none", "delete", "share"}, job: Jobs \cup {Nowhere}, live: BOOLEAN,
            state: {"none", "sent", "ok", "failed"}, link: Links]

DbOK == db \in [Jobs -> Stages \cup {"unborn", "deleted"}]
ListOK == list \in Lists /\ selected \subseteq Jobs /\ SelectionShown
FetchesOK == first \in {0} \cup Slots /\ fetches \in [Slots -> FetchRecs]

\* There is one order at a time, and what a delete reports is deleted.
OrdersOK ==
  /\ orders \in Seq(OrderRecs) /\ Len(orders) <= 1
  /\ \A d \in DOMAIN orders :
       orders[d].kind \in {"one", "bulk"} => \A j \in orders[d].ok : db[j] = "deleted"

BoardInv ==
  DbOK /\ ListOK /\ FetchesOK /\ OrdersOK /\ owed \in BOOLEAN /\ failures \in 0..MaxFailures

\* A job that is deleted stays deleted.
DbGrows == DbOK' /\ \A j \in Jobs : db[j] = "deleted" => db'[j] = "deleted"

-----------------------------------------------------------------------------
LEMMA StagesAre ==
  /\ Path[1] \in Stages /\ 1 \in DOMAIN Path
  /\ \A k \in DOMAIN Path : Path[k] \in Stages
  /\ "absent" \notin Stages /\ "deleted" \notin Stages /\ "unborn" \notin Stages
<1>1. Path \in Seq(NON_TERMINAL_STAGES \cup TERMINAL_STAGES) /\ Path # <<>>
  BY PathAssumption
<1>2. 1 \in DOMAIN Path
  BY <1>1
<1>3. \A k \in DOMAIN Path : Path[k] \in NON_TERMINAL_STAGES \cup TERMINAL_STAGES
  BY <1>1
<1> QED BY <1>2, <1>3 DEF Stages, NON_TERMINAL_STAGES, TERMINAL_STAGES

LEMMA AnswersFit ==
  /\ NoAnswer \in Lists /\ Shown(NoAnswer) = {}
  /\ Free \in FetchRecs /\ Sent \in FetchRecs /\ Free.state = "free" /\ Sent.state = "sent"
  /\ DbOK => Answer \in Lists /\ \A j \in Jobs : db[j] = "deleted" => Answer[j] = "absent"
<1>1. NoAnswer \in Lists /\ Shown(NoAnswer) = {}
  BY DEF NoAnswer, Lists, Shown
<1>2. Free \in FetchRecs /\ Sent \in FetchRecs /\ Free.state = "free" /\ Sent.state = "sent"
  BY <1>1 DEF Free, Sent, FetchRecs
<1>3. DbOK => Answer \in Lists /\ \A j \in Jobs : db[j] = "deleted" => Answer[j] = "absent"
  BY StagesAre DEF DbOK, Answer, Lists
<1> QED BY <1>1, <1>2, <1>3

\* The only order is the one that is removed.
LEMMA OrderGoes ==
  ASSUME OrdersOK, NEW d \in DOMAIN orders
  PROVE  RemoveAt(orders, d) = <<>>
<1>0. orders \in Seq(OrderRecs) /\ Len(orders) <= 1 /\ d \in 1..Len(orders) /\ Len(orders) \in Nat
  BY DEF OrdersOK
<1>1. orders \in Seq(OrderRecs) /\ Len(orders) = 1 /\ d = 1
  <2> DEFINE n == Len(orders)
  <2>1. n \in Nat /\ n <= 1 /\ d \in 1..n
    BY <1>0
  <2> HIDE DEF n
  <2>2. n = 1 /\ d = 1
    BY <2>1
  <2> QED BY <1>0, <2>2 DEF n
<1>2. RemoveAt(orders, d) = SubSeq(orders, 1, 0) \o SubSeq(orders, 2, 1)
  BY <1>1 DEF RemoveAt
<1>3. SubSeq(orders, 1, 0) = <<>> /\ SubSeq(orders, 2, 1) = <<>>
  BY <1>1
<1> QED BY <1>2, <1>3

\* Deleting a job, or changing nothing, lets the database grow.
LEMMA DeletesGrow ==
  ASSUME DbOK, NEW j \in Jobs, db' \in {db, [db EXCEPT ![j] = "deleted"]}
  PROVE  DbGrows
  BY DEF DbOK, DbGrows

LEMMA OrdersKept ==
  ASSUME OrdersOK, DbGrows, UNCHANGED orders
  PROVE  OrdersOK'
<1>1. \A d \in DOMAIN orders : orders[d] \in OrderRecs
  BY DEF OrdersOK
<1> QED BY <1>1 DEF OrdersOK, DbGrows, OrderRecs

\* An order whose answers grow by a deleted job at most keeps what it promises.
LEMMA OrderReplaced ==
  ASSUME OrdersOK, DbGrows, NEW d \in DOMAIN orders, NEW rec \in OrderRecs,
         orders' = [orders EXCEPT ![d] = rec], rec.kind = orders[d].kind,
         rec.kind # "share" => \A i \in rec.ok : i \in orders[d].ok \/ db'[i] = "deleted"
  PROVE  OrdersOK'
<1>1. orders' \in Seq(OrderRecs) /\ Len(orders') = Len(orders) /\ DOMAIN orders' = DOMAIN orders
  BY DEF OrdersOK
<1>2. ASSUME NEW e \in DOMAIN orders', orders'[e].kind \in {"one", "bulk"},
             NEW i \in orders'[e].ok
      PROVE  db'[i] = "deleted"
  <2>1. orders[e] \in OrderRecs /\ orders[d] \in OrderRecs /\ e \in DOMAIN orders
    BY <1>1, <1>2 DEF OrdersOK
  <2>2. CASE e # d
    <3>1. orders'[e] = orders[e]
      BY <2>1, <2>2 DEF OrdersOK
    <3> QED BY <3>1, <2>1, <1>2 DEF OrdersOK, DbGrows, OrderRecs
  <2>3. CASE e = d
    <3>1. orders'[e] = rec
      BY <2>1, <2>3 DEF OrdersOK
    <3> QED BY <3>1, <2>1, <2>3, <1>2 DEF OrdersOK, DbGrows, OrderRecs
  <2> QED BY <2>2, <2>3
<1> QED BY <1>1, <1>2 DEF OrdersOK

\* One request of an order is served.
LEMMA OrderServedDoes ==
  ASSUME BoardInv, NEW d \in DOMAIN orders, NEW j \in Jobs, OrderServed(d, j)
  PROVE  DbGrows /\ OrdersOK' /\ failures' \in 0..MaxFailures
<1> USE FlightAssumption
<1> DEFINE it == orders[d]
           after == IF db[j] \in Stages /\ it.kind # "share" THEN [db EXCEPT ![j] = "deleted"]
                    ELSE db
<1>1. DbOK /\ OrdersOK /\ it \in OrderRecs /\ failures \in 0..MaxFailures
  BY DEF BoardInv, OrdersOK
<1>2. db' \in {db, after}
  BY DEF OrderServed
<1>3. DbGrows
  BY <1>1, <1>2, DeletesGrow
<1>4. failures' \in 0..MaxFailures
  BY <1>1 DEF OrderServed
<1>6. CASE /\ db' = after
           /\ orders' = [orders EXCEPT ![d].left = @ \ {j},
                                       ![d].ok = IF db[j] \in Stages THEN @ \cup {j} ELSE @]
  <2>0. PICK rec : rec = [it EXCEPT !.left = @ \ {j},
                                    !.ok = IF db[j] \in Stages THEN @ \cup {j} ELSE @]
    OBVIOUS
  <2>1. orders' = [orders EXCEPT ![d] = rec]
    BY <2>0, <1>6
  <2>2. rec \in OrderRecs /\ rec.kind = it.kind
            /\ rec.ok = IF db[j] \in Stages THEN it.ok \cup {j} ELSE it.ok
    BY <2>0, <1>1 DEF OrderRecs
  <2>3. rec.kind # "share" => \A i \in rec.ok : i \in it.ok \/ db'[i] = "deleted"
    BY <2>2, <1>6, <1>1 DEF DbOK
  <2> QED BY <2>1, <2>2, <2>3, <1>1, <1>3, <1>4, OrderReplaced
<1>7. CASE orders' = [orders EXCEPT ![d].left = @ \ {j}]
  <2>0. PICK rec : rec = [it EXCEPT !.left = @ \ {j}]
    OBVIOUS
  <2>1. orders' = [orders EXCEPT ![d] = rec]
    BY <2>0, <1>7
  <2>2. rec \in OrderRecs /\ rec.kind = it.kind /\ rec.ok = it.ok
    BY <2>0, <1>1 DEF OrderRecs
  <2> QED BY <2>1, <2>2, <1>1, <1>3, <1>4, OrderReplaced
<1> QED BY <1>6, <1>7 DEF OrderServed

-----------------------------------------------------------------------------
\* A job that is gone for good: nobody shows it and no answer under way has it.
Gone(j) ==
  /\ db[j] = "deleted" /\ list[j] = "absent"
  /\ \A s \in Slots : fetches[s].state = "read" => fetches[s].jobs[j] = "absent"

\* Requests are sent, end, or are given the answer of the moment.
FetchesMove ==
  /\ fetches' \in [Slots -> FetchRecs]
  /\ \A s \in Slots : fetches'[s].state = "read" =>
       fetches'[s] = fetches[s] \/ fetches'[s].jobs = Answer

\* What DropsOnlyDeleted says of a step on the dashboard.
DropsOK ==
  \A j \in Shown(list) \ Shown(list') :
    \/ db[j] = "deleted"
    \/ \E s \in Slots : fetches[s].state = "read" /\ fetches[s].jobs[j] = "absent"

BoardMoves == BoardInv' /\ DbGrows /\ DropsOK /\ \A j \in Jobs : Gone(j) => Gone(j)'

LEMMA GoneStays ==
  ASSUME BoardInv, DbGrows, FetchesMove, NEW j \in Jobs, Gone(j), list'[j] = "absent"
  PROVE  Gone(j)'
<1>1. Answer[j] = "absent"
  BY AnswersFit DEF BoardInv, Gone
<1> QED BY <1>1 DEF Gone, DbGrows, FetchesMove

\* One request is put in another state.
LEMMA FetchMoves ==
  ASSUME BoardInv, NEW s \in Slots, NEW rec \in FetchRecs, fetches' = [fetches EXCEPT ![s] = rec],
         rec.state = "read" => rec.jobs = Answer
  PROVE  FetchesMove
<1>1. fetches \in [Slots -> FetchRecs]
  BY DEF BoardInv, FetchesOK
<1> QED BY <1>1 DEF FetchesMove

LEMMA FetchSends ==
  ASSUME BoardInv, NEW s \in Slots, Fetch(s)
  PROVE  FetchesMove
  BY FetchMoves, AnswersFit DEF Fetch

LEMMA BoardKept ==
  ASSUME BoardInv, UNCHANGED dashboardVars
  PROVE  BoardMoves
  BY DEF BoardInv, DbOK, ListOK, SelectionShown, Shown, FetchesOK, OrdersOK, dashboardVars,
     BoardMoves, DbGrows, DropsOK, Gone

\* A step that leaves the list alone.
LEMMA ListStays ==
  ASSUME BoardInv, DbGrows, FetchesMove, first' \in {0} \cup Slots, OrdersOK', owed' \in BOOLEAN,
         failures' \in 0..MaxFailures, list' = list, selected' \subseteq Shown(list)
  PROVE  BoardMoves
<1>1. BoardInv'
  BY DEF BoardInv, DbGrows, FetchesOK, FetchesMove, ListOK, SelectionShown, Shown
<1>2. \A j \in Jobs : Gone(j) => Gone(j)'
  BY GoneStays DEF Gone
<1>3. DropsOK
  BY DEF DropsOK
<1> QED BY <1>1, <1>2, <1>3 DEF BoardMoves, DbGrows

\* What a step leaves alone stays as it should be.
LEMMA Unmoved ==
  ASSUME BoardInv
  PROVE  /\ db' = db => DbGrows
         /\ fetches' = fetches => FetchesMove
         /\ failures' = failures => failures' \in 0..MaxFailures
         /\ owed' = owed => owed' \in BOOLEAN
         /\ first' = first => first' \in {0} \cup Slots
         /\ orders' = orders /\ DbGrows => OrdersOK'
         /\ selected \subseteq Shown(list)
<1>1. /\ db' = db => DbGrows
      /\ fetches' = fetches => FetchesMove
      /\ failures' = failures => failures' \in 0..MaxFailures
      /\ first' = first => first' \in {0} \cup Slots
  BY DEF BoardInv, DbOK, DbGrows, FetchesOK, FetchesMove
<1>2. owed' = owed => owed' \in BOOLEAN
  BY Zenon DEF BoardInv
<1>3. orders' = orders /\ DbGrows => OrdersOK'
  BY OrdersKept DEF BoardInv
<1>4. selected \subseteq Shown(list)
  BY DEF BoardInv, ListOK, SelectionShown
<1> QED BY <1>1, <1>2, <1>3, <1>4

-----------------------------------------------------------------------------
LEMMA ServerMoves ==
  ASSUME BoardInv, ServerStep
  PROVE  BoardMoves
<1> USE FlightAssumption
<1>1. ASSUME NEW j \in Jobs, Created(j)
      PROVE  BoardMoves
  <2>1. db' = [db EXCEPT ![j] = Path[1]] /\ db[j] = "unborn"
    BY <1>1 DEF Created
  <2>2. DbGrows
    BY <2>1, StagesAre DEF BoardInv, DbOK, DbGrows
  <2>3. owed' \in BOOLEAN
    BY <1>1, Zenon DEF Created, BoardInv
  <2> QED BY <1>1, <2>2, <2>3, ListStays, Unmoved DEF Created
<1>2. ASSUME NEW j \in Jobs, Advance(j)
      PROVE  BoardMoves
  <2>1. PICK k \in DOMAIN Path :
          k + 1 \in DOMAIN Path /\ db[j] = Path[k] /\ db' = [db EXCEPT ![j] = Path[k + 1]]
    BY <1>2 DEF Advance
  <2>2. Path[k] \in Stages /\ Path[k + 1] \in Stages
    BY <2>1, StagesAre
  <2>3. DbGrows
    BY <2>1, <2>2, StagesAre DEF BoardInv, DbOK, DbGrows
  <2> QED BY <1>2, <2>3, ListStays, Unmoved DEF Advance
<1>3. ASSUME NEW j \in Jobs, DeletedElsewhere(j)
      PROVE  BoardMoves
  <2>1. DbGrows
    BY <1>3, DeletesGrow DEF DeletedElsewhere, BoardInv
  <2>2. failures' \in 0..MaxFailures
    BY <1>3 DEF DeletedElsewhere, BoardInv
  <2> QED BY <1>3, <2>1, <2>2, ListStays, Unmoved DEF DeletedElsewhere
<1>4. ASSUME NEW s \in Slots, Serve(s)
      PROVE  BoardMoves
  <2>1. [state |-> "read", jobs |-> Answer] \in FetchRecs
    BY AnswersFit DEF FetchRecs, BoardInv
  <2>2. FetchesMove
    BY <1>4, <2>1, FetchMoves DEF Serve
  <2> QED BY <1>4, <2>2, ListStays, Unmoved DEF Serve
<1>5. ASSUME NEW d \in DOMAIN orders, OrderArrives(d)
      PROVE  BoardMoves
  <2>1. orders' = <<>>
    BY <1>5, OrderGoes DEF OrderArrives, BoardInv
  <2>2. OrdersOK'
    BY <2>1 DEF OrdersOK
  <2>3. DbGrows /\ FetchesMove /\ first' \in {0} \cup Slots /\ owed' \in BOOLEAN
        /\ failures' \in 0..MaxFailures
    BY <1>5, Unmoved DEF OrderArrives
  <2>4. CASE orders[d].kind \in {"share", "over"}
    <3>1. list' = list /\ selected' = selected
      BY <1>5, <2>4 DEF OrderArrives
    <3> QED BY <3>1, <2>2, <2>3, ListStays, Unmoved
  <2>5. CASE orders[d].kind \notin {"share", "over"}
    <3>1. list' = [j \in Jobs |-> IF j \in Settled(d) THEN "absent" ELSE list[j]]
          /\ selected' = IF orders[d].kind = "bulk" THEN {} ELSE Pruned(list')
      BY <1>5, <2>5 DEF OrderArrives
    <3>2. orders[d].kind \in {"one", "bulk"}
      <4>1. orders[d] \in OrderRecs
        BY DEF BoardInv, OrdersOK
      <4> QED BY <4>1, <2>5 DEF OrderRecs
    <3>3. \A j \in Settled(d) : db[j] = "deleted"
      BY <3>2 DEF BoardInv, OrdersOK, Settled
    <3>4. list' \in Lists
      BY <3>1 DEF BoardInv, ListOK, Lists
    <3>5. selected' \subseteq Shown(list')
      BY <3>1 DEF Pruned
    <3>6. ListOK'
      BY <3>4, <3>5 DEF ListOK, SelectionShown, Shown
    <3>7. BoardInv'
      BY <3>6, <2>2, <2>3 DEF BoardInv, DbGrows, FetchesOK, FetchesMove
    <3>8. \A j \in Jobs : Gone(j) => Gone(j)'
      BY <3>1, <2>3, GoneStays DEF Gone
    <3>9. DropsOK
      BY <3>1, <3>3 DEF DropsOK, Shown
    <3> QED BY <3>7, <3>8, <3>9, <2>3 DEF BoardMoves
  <2> QED BY <2>4, <2>5
<1> QED BY <1>1, <1>2, <1>3, <1>4, <1>5 DEF ServerStep

LEMMA PageMoves ==
  ASSUME BoardInv, PageStep
  PROVE  BoardMoves
<1> USE FlightAssumption
<1>1. ASSUME NEW j \in Jobs, ToggleSelect(j)
      PROVE  BoardMoves
  <2>1. selected' \subseteq Shown(list)
    BY <1>1, Unmoved DEF ToggleSelect
  <2> QED BY <1>1, <2>1, ListStays, Unmoved DEF ToggleSelect
<1>2. ASSUME NEW kind \in {"one", "bulk", "share"}, NEW ids \in SUBSET Jobs, Order(kind, ids)
      PROVE  BoardMoves
  <2>1. orders' = <<[kind |-> kind, ids |-> ids, left |-> ids, ok |-> {}]>>
    BY <1>2 DEF Order
  <2>2. [kind |-> kind, ids |-> ids, left |-> ids, ok |-> {}] \in OrderRecs
    BY DEF OrderRecs
  <2>3. OrdersOK'
    BY <2>1, <2>2 DEF OrdersOK
  <2> QED BY <1>2, <2>3, ListStays, Unmoved DEF Order
<1>3. ASSUME NEW j \in Jobs, handleDelete(j) \/ handleShare(j)
      PROVE  BoardMoves
  BY <1>2, <1>3 DEF handleDelete, handleShare
<1>4. CASE handleBulkDelete \/ handleBulkShare
  <2>1. selected \in SUBSET Jobs
    BY DEF BoardInv, ListOK
  <2> QED BY <1>2, <1>4, <2>1 DEF handleBulkDelete, handleBulkShare
<1>5. CASE Tick
  <2>1. FetchesMove
    BY <1>5, FetchSends DEF Tick
  <2> QED BY <1>5, <2>1, ListStays, Unmoved DEF Tick
<1>6. CASE OnCreated
  <2>1. FetchesMove
    BY <1>6, FetchSends DEF OnCreated
  <2>2. owed' \in BOOLEAN
    BY <1>6, Zenon DEF OnCreated
  <2> QED BY <1>6, <2>1, <2>2, ListStays, Unmoved DEF OnCreated
<1>7. CASE ClearSelection
  BY <1>7, ListStays, Unmoved DEF ClearSelection
<1>8. ASSUME NEW s \in Slots, FetchFails(s)
      PROVE  BoardMoves
  <2>1. FetchesMove
    BY <1>8, FetchMoves, AnswersFit DEF FetchFails
  <2>2. first' \in {0} \cup Slots /\ failures' \in 0..MaxFailures
    BY <1>8 DEF FetchFails, LoadingEnds, BoardInv, FetchesOK
  <2> QED BY <1>8, <2>1, <2>2, ListStays, Unmoved DEF FetchFails
<1>9. ASSUME NEW s \in Slots, FetchArrives(s)
      PROVE  BoardMoves
  <2>1. fetches[s].state = "read" /\ list' = fetches[s].jobs
            /\ selected' = selected \cap Shown(list')
    BY <1>9 DEF FetchArrives, SetJobs, Pruned
  <2>2. FetchesMove
    BY <1>9, FetchMoves, AnswersFit DEF FetchArrives
  <2>3. first' \in {0} \cup Slots
    BY <1>9 DEF FetchArrives, LoadingEnds, BoardInv, FetchesOK
  <2>4. list' \in Lists
    BY <2>1 DEF BoardInv, FetchesOK, FetchRecs
  <2>5. ListOK'
    BY <2>1, <2>4 DEF BoardInv, ListOK, SelectionShown, Shown
  <2>6. DbGrows /\ OrdersOK' /\ owed' \in BOOLEAN /\ failures' \in 0..MaxFailures
    BY <1>9, Unmoved DEF FetchArrives
  <2>7. BoardInv'
    BY <2>2, <2>3, <2>5, <2>6 DEF BoardInv, DbGrows, FetchesOK, FetchesMove
  <2>8. \A j \in Jobs : Gone(j) => Gone(j)'
    BY <2>1, <2>2, <2>6, GoneStays DEF Gone
  <2>9. DropsOK
    BY <2>1 DEF DropsOK, Shown
  <2> QED BY <2>6, <2>7, <2>8, <2>9 DEF BoardMoves
<1> QED BY <1>1, <1>3, <1>4, <1>5, <1>6, <1>7, <1>8, <1>9 DEF PageStep

\* A dashboard that is left, and one that is mounted, show nothing and know nothing.
LEMMA UnlistedMoves ==
  ASSUME BoardInv, Unlisted, UNCHANGED <<db, failures>>
  PROVE  BoardInv' /\ DbGrows /\ list' = NoAnswer /\ \A j \in Jobs : Gone(j) => Gone(j)'
<1> USE FlightAssumption
<1>1. DbGrows
  BY Unmoved
<1>2. first' \in {0} \cup Slots /\ list' = NoAnswer /\ selected' = {}
  BY DEF Unlisted
<1>3. owed' \in BOOLEAN
  BY Zenon DEF Unlisted
<1>4. FetchesMove
  BY AnswersFit DEF Unlisted, FetchesMove
<1>5. OrdersOK'
  <2>1. orders \in Seq(OrderRecs) /\ \A d \in DOMAIN orders : orders[d] \in OrderRecs
    BY DEF BoardInv, OrdersOK
  <2>2. orders' = [d \in DOMAIN orders |->
                    IF orders[d].kind = "share" THEN orders[d]
                    ELSE [orders[d] EXCEPT !.kind = "over"]]
    BY DEF Unlisted
  <2>3. \A d \in DOMAIN orders : orders'[d] \in OrderRecs /\ orders'[d].kind \in {"share", "over"}
    BY <2>1, <2>2 DEF OrderRecs
  <2>4. DOMAIN orders = 1..Len(orders) /\ Len(orders) \in Nat /\ DOMAIN orders' = DOMAIN orders
    BY <2>1, <2>2
  <2>5. orders' \in Seq(OrderRecs) /\ Len(orders') = Len(orders)
    BY <2>2, <2>3, <2>4
  <2> QED BY <2>3, <2>4, <2>5 DEF OrdersOK, BoardInv
<1>6. ListOK'
  BY <1>2, AnswersFit DEF ListOK, SelectionShown, Shown
<1>7. BoardInv'
  BY <1>1, <1>2, <1>3, <1>4, <1>5, <1>6, Unmoved DEF BoardInv, DbGrows, FetchesOK, FetchesMove
<1>8. \A j \in Jobs : Gone(j) => Gone(j)'
  BY <1>1, <1>2, <1>4, GoneStays DEF NoAnswer
<1> QED BY <1>1, <1>2, <1>7, <1>8

LEMMA MountedMoves ==
  ASSUME BoardInv, Mounted, UNCHANGED <<db, failures>>
  PROVE  /\ BoardInv' /\ DbGrows /\ list' = NoAnswer
         /\ \A j \in Jobs : db[j] = "deleted" => Gone(j)'
<1> USE FlightAssumption
<1>1. DbGrows /\ OrdersOK' /\ owed' \in BOOLEAN
  BY Unmoved DEF Mounted
<1>2. first' \in {0} \cup Slots /\ list' = NoAnswer /\ selected' = {}
  BY DEF Mounted, Slots
<1>3. fetches' \in [Slots -> FetchRecs] /\ \A s \in Slots : fetches'[s].state # "read"
  BY AnswersFit DEF Mounted
<1>4. ListOK'
  BY <1>2, AnswersFit DEF ListOK, SelectionShown, Shown
<1>5. BoardInv'
  BY <1>1, <1>2, <1>3, <1>4, Unmoved DEF BoardInv, DbGrows, FetchesOK
<1>6. \A j \in Jobs : db[j] = "deleted" => Gone(j)'
  BY <1>1, <1>2, <1>3 DEF Gone, DbGrows, NoAnswer
<1> QED BY <1>1, <1>2, <1>5, <1>6

-----------------------------------------------------------------------------
(* The page of a job.                                                      *)

\* What is asked for is asked for a job, and a delete that was answered deleted it.
AsksOK ==
  /\ asks \in [AskIds -> AskRecs]
  /\ \A n \in AskIds : asks[n] # NoAsk => asks[n].kind # "none" /\ asks[n].job \in Jobs
  /\ \A n \in AskIds : asks[n].kind = "delete" /\ asks[n].state = "ok"
         => db[asks[n].job] = "deleted"

VisitOK == visit \in VisitRecs /\ (visit.loaded \/ visit.confirm => visit.job \in Jobs)

\* Away from the dashboard nothing is listed, and what was deleted on a page is gone for good.
AwayOK ==
  /\ ~Here => list = NoAnswer
  /\ removed \subseteq Jobs /\ \A j \in removed : Gone(j)

\* A page waits for one share at most, with no link shown, so that what it has or is about to
\* have is never replaced by a share of its own.
Awaited(a) == a.kind = "share" /\ a.live
LinksOK ==
  /\ \A n \in AskIds : Awaited(asks[n]) =>
       /\ asks[n].job = visit.job /\ visit.creating /\ visit.link = "none"
       /\ asks[n].link # "replaced" /\ (asks[n].state = "sent" => asks[n].link = "none")
  /\ \A n, m \in AskIds : Awaited(asks[n]) /\ Awaited(asks[m]) => n = m
  /\ visit.link # "replaced"

ProjectsInv == BoardInv /\ VisitOK /\ AsksOK /\ AwayOK /\ LinksOK

LEMMA NothingAsked ==
  /\ NoAsk \in AskRecs /\ NoAsk.kind = "none" /\ NoAsk.job = Nowhere /\ NoAsk.link = "none"
  /\ NoVisit \in VisitRecs /\ NoVisit.job = Nowhere /\ ~NoVisit.loaded /\ ~NoVisit.confirm
  /\ NoVisit.link = "none" /\ ~NoVisit.creating /\ ~Awaited(NoAsk)
  BY DEF NoAsk, AskRecs, NoVisit, VisitRecs, Links, Awaited

LEMMA ProjectsInitOK == ProjectsInit => ProjectsInv
<1> SUFFICES ASSUME ProjectsInit PROVE ProjectsInv
  OBVIOUS
<1> USE FlightAssumption
<1>1. DbOK
  BY StagesAre DEF ProjectsInit, DashboardInit, DbOK
<1>2. ListOK /\ list = NoAnswer
  BY AnswersFit DEF ProjectsInit, DashboardInit, ListOK, SelectionShown
<1>3. FetchesOK
  BY AnswersFit DEF ProjectsInit, DashboardInit, FetchesOK, Slots
<1>4. OrdersOK
  BY DEF ProjectsInit, DashboardInit, OrdersOK
<1>5. owed \in BOOLEAN
  BY Zenon DEF ProjectsInit, DashboardInit
<1>6. failures \in 0..MaxFailures
  BY DEF ProjectsInit, DashboardInit
<1>7. VisitOK /\ AsksOK /\ AwayOK /\ LinksOK
  BY <1>2, NothingAsked DEF ProjectsInit, VisitOK, AsksOK, AwayOK, LinksOK
<1> QED BY <1>1, <1>2, <1>3, <1>4, <1>5, <1>6, <1>7 DEF ProjectsInv, BoardInv

\* A step of the dashboard alone.
LEMMA BoardAlone ==
  ASSUME ProjectsInv, BoardMoves, UNCHANGED <<visit, asks, removed>>,
         Here \/ (list = NoAnswer => list' = NoAnswer)
  PROVE  ProjectsInv'
<1>1. AsksOK'
  BY NothingAsked DEF ProjectsInv, AsksOK, BoardMoves, DbGrows
<1>2. AwayOK'
  BY DEF ProjectsInv, AwayOK, BoardMoves, Here
<1>3. VisitOK' /\ LinksOK'
  BY DEF ProjectsInv, VisitOK, LinksOK
<1> QED BY <1>1, <1>2, <1>3 DEF ProjectsInv, BoardMoves

\* An order that arrives shows nothing new.
LEMMA NothingListed ==
  ASSUME BoardInv, ServerStep, list = NoAnswer
  PROVE  list' = NoAnswer
<1>1. ASSUME NEW d \in DOMAIN orders, OrderArrives(d)
      PROVE  list' = NoAnswer
  BY <1>1 DEF OrderArrives, NoAnswer
<1> QED BY <1>1 DEF ServerStep, Created, Advance, DeletedElsewhere, Serve

\* A request of the page is put among the others.
LEMMA AskAdds ==
  ASSUME AsksOK, VisitOK, NEW kind \in {"delete", "share"}, visit.job \in Jobs, Ask(kind),
         UNCHANGED db
  PROVE  /\ AsksOK'
         /\ \E n \in AskIds : asks[n] = NoAsk /\ asks' = [asks EXCEPT ![n] = Asked(kind)]
<1>1. PICK n \in AskIds : asks[n] = NoAsk /\ asks' = [asks EXCEPT ![n] = Asked(kind)]
  BY DEF Ask
<1>2. Asked(kind) \in AskRecs /\ Asked(kind).kind = kind /\ Asked(kind).state = "sent"
      /\ Asked(kind).job = visit.job
  BY DEF Asked, AskRecs, Links, VisitOK
<1>3. AsksOK'
  BY <1>1, <1>2 DEF AsksOK
<1> QED BY <1>1, <1>3

\* Of a page that is left nothing is awaited.
LEMMA AbandonedFit ==
  ASSUME AsksOK, NEW as, as \in [AskIds -> AskRecs], asks' = Abandoned(as),
         \A n \in AskIds : as[n] = asks[n] \/ as[n] = NoAsk, UNCHANGED db
  PROVE  AsksOK' /\ \A n \in AskIds : ~Awaited(asks'[n])
<1>1. ASSUME NEW n \in AskIds
      PROVE  /\ asks'[n] \in AskRecs /\ ~asks'[n].live
             /\ \/ asks'[n] = NoAsk
                \/ /\ asks'[n].kind = asks[n].kind /\ asks[n] # NoAsk
                   /\ asks'[n].job = asks[n].job /\ asks'[n].state = asks[n].state
  <2>1. asks'[n] = IF as[n].kind = "delete" \/ as[n].state = "sent"
                   THEN [as[n] EXCEPT !.live = FALSE] ELSE NoAsk
    BY DEF Abandoned
  <2>2. CASE as[n].kind = "delete" \/ as[n].state = "sent"
    <3>1. as[n] # NoAsk
      <4>1. NoAsk.kind = "none" /\ NoAsk.state = "none"
        BY DEF NoAsk
      <4> SUFFICES ASSUME as[n] = NoAsk PROVE FALSE
        OBVIOUS
      <4> QED BY <2>2, <4>1
    <3>2. as[n] = asks[n] /\ as[n] \in AskRecs
      BY <3>1
    <3> QED BY <2>1, <2>2, <3>1, <3>2 DEF AskRecs
  <2>3. CASE ~(as[n].kind = "delete" \/ as[n].state = "sent")
    <3>1. asks'[n] = NoAsk
      BY <2>1, <2>3
    <3> QED BY <3>1, NothingAsked DEF NoAsk
  <2> QED BY <2>2, <2>3
<1>2. asks' \in [AskIds -> AskRecs]
  BY <1>1 DEF Abandoned
<1>3. \A n \in AskIds : ~Awaited(asks'[n])
  BY <1>1 DEF Awaited
<1> QED BY <1>1, <1>2, <1>3, NothingAsked DEF AsksOK

\* A link that is none stays none, and only a share that is awaited replaces one.
LEMMA SupersededIs ==
  ASSUME NEW link \in Links, NEW own \in BOOLEAN
  PROVE  /\ Superseded(link, own) \in Links
         /\ link = "none" => Superseded(link, own) = "none"
         /\ link # "replaced" /\ ~own => Superseded(link, own) # "replaced"
  BY DEF Superseded, Links

\* Job j is shared.
LEMMA SharedVisit ==
  ASSUME VisitOK, NEW j, NEW own \in BOOLEAN, Shared(j, own)
  PROVE  /\ VisitOK' /\ visit'.job = visit.job /\ visit'.creating = visit.creating
         /\ visit.link = "none" => visit'.link = "none"
         /\ visit.link # "replaced" /\ ~own => visit'.link # "replaced"
<1>1. CASE visit.job # j
  BY <1>1 DEF Shared, VisitOK
<1>2. CASE visit.job = j
  <2>1. PICK link \in Links : link = Superseded(visit.link, own)
    BY SupersededIs DEF VisitOK, VisitRecs
  <2>2. visit' = [visit EXCEPT !.link = link]
    BY <1>2, <2>1 DEF Shared
  <2>3. /\ visit' \in VisitRecs /\ visit'.job = visit.job /\ visit'.creating = visit.creating
        /\ visit'.link = link
        /\ visit'.loaded = visit.loaded /\ visit'.confirm = visit.confirm
    BY <2>2 DEF VisitOK, VisitRecs
  <2>4. visit.link \in Links
    BY DEF VisitOK, VisitRecs
  <2> QED BY <2>1, <2>3, <2>4, SupersededIs DEF VisitOK
<1> QED BY <1>1, <1>2

\* What others are answered is what it was, but for its link.
LEMMA OutdatedFit ==
  ASSUME AsksOK, NEW j \in Jobs, NEW own \in BOOLEAN, NEW n \in AskIds
  PROVE  LET a == Outdated(asks, j, own)[n] IN
           /\ a \in AskRecs /\ a.kind = asks[n].kind /\ a.job = asks[n].job
           /\ a.live = asks[n].live /\ a.state = asks[n].state
           /\ asks[n].link = "none" => a.link = "none"
           /\ asks[n].link # "replaced" /\ ~own => a.link # "replaced"
           /\ asks[n] = NoAsk => a = NoAsk
<1>1. asks[n] \in AskRecs /\ asks[n].link \in Links
  BY DEF AsksOK, AskRecs
<1>2. PICK link \in Links : link = Superseded(asks[n].link, own)
  BY <1>1, SupersededIs
<1>3. Outdated(asks, j, own)[n]
        = IF asks[n].job = j THEN [asks[n] EXCEPT !.link = link] ELSE asks[n]
  BY <1>2 DEF Outdated
<1>4. CASE asks[n].job = j
  <2>1. asks[n] # NoAsk
    BY <1>4, NothingAsked, NowhereAssumption
  <2> QED BY <1>1, <1>2, <1>3, <1>4, <2>1, SupersededIs DEF AskRecs
<1>5. CASE asks[n].job # j
  BY <1>1, <1>3, <1>5
<1> QED BY <1>4, <1>5

-----------------------------------------------------------------------------
LEMMA Moving ==
  ASSUME ProjectsInv, (\E j \in Jobs : OpenCard(j)) \/ PageLoads \/ Back \/ ToggleConfirm
  PROVE  ProjectsInv' /\ (Shown(list) # Shown(list') => ~Here')
<1>0. BoardInv /\ VisitOK /\ AsksOK /\ AwayOK /\ LinksOK
  BY DEF ProjectsInv
<1>1. ASSUME NEW j \in Jobs, OpenCard(j)
      PROVE  ProjectsInv' /\ (Shown(list) # Shown(list') => ~Here')
  <2>1. BoardInv' /\ list' = NoAnswer /\ \A i \in Jobs : Gone(i) => Gone(i)'
    BY <1>0, <1>1, UnlistedMoves DEF OpenCard
  <2>2. visit' = [NoVisit EXCEPT !.job = j]
    BY <1>1 DEF OpenCard
  <2>3. /\ visit' \in VisitRecs /\ visit'.job = j /\ ~visit'.loaded /\ ~visit'.confirm
        /\ visit'.link = "none"
    BY <2>2, NothingAsked DEF VisitRecs
  <2>4. VisitOK' /\ ~Here'
    BY <2>3, NowhereAssumption DEF VisitOK, Here
  <2>5. AwayOK'
    BY <1>0, <1>1, <2>1 DEF AwayOK, OpenCard
  <2>6. \A n \in AskIds : ~Awaited(asks[n])
    BY <1>0, <1>1, NothingAsked, NowhereAssumption DEF OpenCard, Here, LinksOK, AsksOK, Awaited
  <2>7. LinksOK' /\ AsksOK'
    BY <1>0, <1>1, <2>3, <2>6 DEF OpenCard, LinksOK, AsksOK
  <2> QED BY <2>1, <2>4, <2>5, <2>7 DEF ProjectsInv
<1>2. CASE PageLoads \/ ToggleConfirm
  <2>1. UNCHANGED <<dashboardVars, asks, removed>>
    BY <1>2 DEF PageLoads, ToggleConfirm
  <2>2. /\ visit' \in VisitRecs /\ visit'.job = visit.job /\ visit'.creating = visit.creating
        /\ visit'.link = visit.link
    BY <1>0, <1>2 DEF PageLoads, ToggleConfirm, VisitOK, VisitRecs
  <2>3. visit.job \in Jobs
    BY <1>0, <1>2 DEF PageLoads, ToggleConfirm, VisitOK, VisitRecs, Here
  <2>4. VisitOK'
    BY <2>2, <2>3 DEF VisitOK
  <2>5. BoardInv' /\ \A j \in Jobs : Gone(j) => Gone(j)'
    BY <1>0, <2>1, BoardKept DEF BoardMoves
  <2>6. AwayOK' /\ LinksOK' /\ AsksOK'
    BY <1>0, <2>1, <2>2, <2>5 DEF AwayOK, LinksOK, AsksOK, Here, dashboardVars
  <2> QED BY <2>1, <2>4, <2>5, <2>6 DEF ProjectsInv, dashboardVars
<1>3. CASE Back
  <2>1. BoardInv' /\ list' = NoAnswer /\ \A j \in Jobs : db[j] = "deleted" => Gone(j)'
    BY <1>0, <1>3, MountedMoves DEF Back
  <2>2. visit' = NoVisit /\ db' = db /\ removed' = removed /\ ~Here
    BY <1>3 DEF Back
  <2>3. AsksOK' /\ \A n \in AskIds : ~Awaited(asks'[n])
    BY <1>0, <1>3, AbandonedFit DEF Back, AsksOK
  <2>4. VisitOK' /\ LinksOK'
    BY <2>2, <2>3, NothingAsked DEF VisitOK, LinksOK
  <2>5. AwayOK'
    BY <1>0, <2>1, <2>2 DEF AwayOK, Gone
  <2>6. Shown(list) = Shown(list')
    BY <1>0, <2>1, <2>2 DEF AwayOK
  <2> QED BY <2>1, <2>3, <2>4, <2>5, <2>6 DEF ProjectsInv
<1> QED BY <1>1, <1>2, <1>3

LEMMA Asking ==
  ASSUME ProjectsInv, handleConfirmDelete \/ SharePage
  PROVE  ProjectsInv' /\ list' = list
<1>0. BoardInv /\ VisitOK /\ AsksOK /\ AwayOK /\ LinksOK
  BY DEF ProjectsInv
<1>1. UNCHANGED <<dashboardVars, removed>>
  BY DEF handleConfirmDelete, SharePage
<1>2. BoardInv' /\ list' = list /\ db' = db /\ \A j \in Jobs : Gone(j) => Gone(j)'
  BY <1>0, <1>1, BoardKept DEF BoardMoves, dashboardVars
<1>3. visit.job \in Jobs
  BY <1>0 DEF handleConfirmDelete, SharePage, VisitOK
<1>4. /\ visit' \in VisitRecs /\ visit'.job = visit.job /\ visit'.loaded = visit.loaded
      /\ visit'.confirm = visit.confirm /\ visit'.link = visit.link
  BY <1>0 DEF handleConfirmDelete, SharePage, VisitOK, VisitRecs
<1>5. VisitOK'
  BY <1>3, <1>4 DEF VisitOK
<1>6. AwayOK'
  BY <1>0, <1>1, <1>2, <1>4 DEF AwayOK, Here
<1>7. CASE handleConfirmDelete
  <2>1. AsksOK' /\ \E n \in AskIds : asks' = [asks EXCEPT ![n] = Asked("delete")]
    BY <1>0, <1>2, <1>3, <1>7, AskAdds DEF handleConfirmDelete
  <2>2. visit'.creating = visit.creating
    BY <1>0, <1>7 DEF handleConfirmDelete, VisitOK, VisitRecs
  <2>3. \A n \in AskIds : asks'[n] = asks[n] \/ ~Awaited(asks'[n])
    BY <1>0, <2>1 DEF AsksOK, Asked, Awaited
  <2>4. LinksOK'
    BY <1>0, <1>4, <2>2, <2>3 DEF LinksOK
  <2> QED BY <1>2, <1>5, <1>6, <2>1, <2>4 DEF ProjectsInv
<1>8. CASE SharePage
  <2>1. AsksOK' /\ \E n \in AskIds : asks' = [asks EXCEPT ![n] = Asked("share")]
    BY <1>0, <1>2, <1>3, <1>8, AskAdds DEF SharePage
  <2>2. PICK n \in AskIds : asks' = [asks EXCEPT ![n] = Asked("share")]
    BY <2>1
  <2>3. visit.link = "none" /\ ~visit.creating
    BY <1>8 DEF SharePage, Shares
  <2>4. \A m \in AskIds : ~Awaited(asks[m])
    BY <1>0, <2>3 DEF LinksOK
  <2>5. visit'.creating
    BY <1>0, <1>8 DEF SharePage, VisitOK, VisitRecs
  <2>6. /\ asks'[n].job = visit.job /\ asks'[n].link = "none"
        /\ \A m \in AskIds : m # n => ~Awaited(asks'[m])
    BY <1>0, <2>2, <2>4 DEF AsksOK, Asked
  <2>7. LinksOK'
    BY <1>4, <2>3, <2>5, <2>6 DEF LinksOK
  <2> QED BY <1>2, <1>5, <1>6, <2>1, <2>7 DEF ProjectsInv
<1> QED BY <1>7, <1>8

LEMMA Ordered ==
  ASSUME ProjectsInv, OrderStep
  PROVE  ProjectsInv' /\ list' = list
<1>0. BoardInv /\ VisitOK /\ AsksOK /\ AwayOK /\ LinksOK
  BY DEF ProjectsInv
<1>1. PICK d \in DOMAIN orders, j \in Jobs :
        /\ OrderServed(d, j) /\ UNCHANGED removed
        /\ \/ visit' = visit /\ asks' = asks
           \/ asks' = Outdated(asks, j, FALSE) /\ Shared(j, FALSE)
  BY DEF OrderStep
<1>2. DbGrows /\ OrdersOK' /\ failures' \in 0..MaxFailures
  BY <1>0, <1>1, OrderServedDoes
<1>3. UNCHANGED <<list, first, fetches, owed, selected>>
  BY <1>1 DEF OrderServed
<1>4. BoardMoves
  BY <1>0, <1>2, <1>3, ListStays, Unmoved
<1>5. CASE visit' = visit /\ asks' = asks
  BY <1>1, <1>3, <1>4, <1>5, BoardAlone
<1>6. CASE asks' = Outdated(asks, j, FALSE) /\ Shared(j, FALSE)
  <2>1. /\ VisitOK' /\ visit'.job = visit.job /\ visit'.creating = visit.creating
        /\ visit.link = "none" => visit'.link = "none"
        /\ visit.link # "replaced" => visit'.link # "replaced"
    BY <1>0, <1>6, SharedVisit
  <2>2. \A n \in AskIds :
          /\ asks'[n] \in AskRecs /\ asks'[n].kind = asks[n].kind /\ asks'[n].job = asks[n].job
          /\ asks'[n].live = asks[n].live /\ asks'[n].state = asks[n].state
          /\ asks[n].link = "none" => asks'[n].link = "none"
          /\ asks[n].link # "replaced" => asks'[n].link # "replaced"
          /\ asks[n] = NoAsk => asks'[n] = NoAsk
    BY <1>0, <1>6, OutdatedFit
  <2>3. asks' \in [AskIds -> AskRecs]
    BY <1>6, <2>2 DEF Outdated
  <2>4. AsksOK'
    BY <1>0, <1>2, <2>2, <2>3, NothingAsked DEF AsksOK, DbGrows
  <2>5. \A n \in AskIds : Awaited(asks'[n]) => Awaited(asks[n])
    BY <2>2 DEF Awaited
  <2>6. LinksOK'
    BY <1>0, <2>1, <2>2, <2>5 DEF LinksOK
  <2>7. AwayOK'
    BY <1>0, <1>1, <1>3, <1>4, <2>1 DEF AwayOK, BoardMoves, Here
  <2> QED BY <1>3, <1>4, <2>1, <2>4, <2>6, <2>7 DEF ProjectsInv, BoardMoves
<1> QED BY <1>1, <1>5, <1>6

-----------------------------------------------------------------------------
\* A request is served: a share, or anything else; it is kept for its answer, or was not
\* awaited.
LEMMA ServedIs ==
  ASSUME ProjectsInv, NEW n \in AskIds, AskServed(n)
  PROVE  \E it \in AskRecs :
           /\ asks[n].kind \in {"delete", "share"} /\ asks[n].job \in Jobs
           /\ \/ it = NoAsk /\ asks[n].kind = "share" /\ ~asks[n].live
              \/ /\ it.kind = asks[n].kind /\ it.job = asks[n].job /\ it.live = asks[n].live
                 /\ it.state \in {"ok", "failed"} /\ it.link \in {asks[n].link, "current"}
                 /\ it.kind = "share" => it.live
           /\ \/ /\ asks[n].kind = "share" /\ db' = db
                 /\ asks' = [Outdated(asks, asks[n].job, asks[n].live) EXCEPT ![n] = it]
                 /\ Shared(asks[n].job, asks[n].live)
              \/ /\ asks' = [asks EXCEPT ![n] = it] /\ visit' = visit
                 /\ db' \in {db, [db EXCEPT ![asks[n].job] = "deleted"]}
                 /\ it.kind = "delete" /\ it.state = "ok"
                      => db' = [db EXCEPT ![it.job] = "deleted"]
<1> DEFINE a == asks[n]
           found == db[a.job] \in Stages
<1>1. a \in AskRecs /\ a.state = "sent"
  BY DEF ProjectsInv, AsksOK, AskServed
<1>2. a.kind \in {"delete", "share"} /\ a.job \in Jobs
  <2>1. a # NoAsk
    BY <1>1 DEF NoAsk
  <2> QED BY <1>1, <2>1 DEF ProjectsInv, AsksOK, AskRecs
<1>3. PICK ending \in {"ok", "failed"} :
        /\ ending = "ok" => found
        /\ \E done \in {TRUE, ending = "ok"} :
            LET it == IF a.kind = "share" /\ ~a.live THEN NoAsk
                      ELSE [a EXCEPT !.state = ending,
                                     !.link = IF a.kind = "share" /\ ending = "ok"
                                              THEN "current" ELSE @] IN
            IF done /\ found /\ a.kind = "share"
            THEN /\ asks' = [Outdated(asks, a.job, a.live) EXCEPT ![n] = it]
                 /\ Shared(a.job, a.live) /\ UNCHANGED db
            ELSE /\ asks' = [asks EXCEPT ![n] = it] /\ UNCHANGED visit
                 /\ db' = IF done /\ found THEN [db EXCEPT ![a.job] = "deleted"] ELSE db
  BY DEF AskServed
<1>4. PICK it : it = IF a.kind = "share" /\ ~a.live THEN NoAsk
                     ELSE [a EXCEPT !.state = ending,
                                    !.link = IF a.kind = "share" /\ ending = "ok"
                                             THEN "current" ELSE @]
  OBVIOUS
<1>5. \/ it = NoAsk /\ a.kind = "share" /\ ~a.live
      \/ /\ it \in AskRecs /\ it.kind = a.kind /\ it.job = a.job /\ it.live = a.live
         /\ it.state = ending /\ it.link \in {a.link, "current"}
         /\ it.kind = "share" => it.live
  <2>1. CASE a.kind = "share" /\ ~a.live
    BY <1>4, <2>1
  <2>2. CASE ~(a.kind = "share" /\ ~a.live)
    <3>1. it = [a EXCEPT !.state = ending,
                         !.link = IF a.kind = "share" /\ ending = "ok" THEN "current" ELSE @]
      BY <1>4, <2>2
    <3>2. /\ it \in AskRecs /\ it.kind = a.kind /\ it.job = a.job /\ it.live = a.live
          /\ it.state = ending /\ it.link \in {a.link, "current"}
      BY <1>1, <1>3, <3>1 DEF AskRecs, Links
    <3> QED BY <2>2, <3>2
  <2> QED BY <2>1, <2>2
<1>6. it \in AskRecs /\ (it.kind = "delete" => it.job = a.job /\ a.kind = "delete")
  BY <1>5, NothingAsked
<1>7. PICK done \in {TRUE, ending = "ok"} :
        IF done /\ found /\ a.kind = "share"
        THEN /\ asks' = [Outdated(asks, a.job, a.live) EXCEPT ![n] = it]
             /\ Shared(a.job, a.live) /\ UNCHANGED db
        ELSE /\ asks' = [asks EXCEPT ![n] = it] /\ UNCHANGED visit
             /\ db' = IF done /\ found THEN [db EXCEPT ![a.job] = "deleted"] ELSE db
  BY <1>3, <1>4
<1>8. CASE done /\ found /\ a.kind = "share"
  <2>1. /\ asks' = [Outdated(asks, a.job, a.live) EXCEPT ![n] = it]
        /\ Shared(a.job, a.live) /\ db' = db
    BY <1>7, <1>8
  <2> QED BY <2>1, <1>2, <1>3, <1>5, <1>6, <1>8
<1>9. CASE ~(done /\ found /\ a.kind = "share")
  <2>1. /\ asks' = [asks EXCEPT ![n] = it] /\ visit' = visit
        /\ db' = IF done /\ found THEN [db EXCEPT ![a.job] = "deleted"] ELSE db
    BY <1>7, <1>9
  <2>2. it.kind = "delete" /\ it.state = "ok" => ending = "ok"
    BY <1>5, NothingAsked
  <2>3. it.kind = "delete" /\ it.state = "ok" => db' = [db EXCEPT ![it.job] = "deleted"]
    BY <1>3, <1>6, <1>7, <2>1, <2>2
  <2>4. db' \in {db, [db EXCEPT ![a.job] = "deleted"]}
    BY <2>1
  <2> QED BY <2>1, <2>3, <2>4, <1>2, <1>3, <1>5, <1>6
<1> QED BY <1>8, <1>9

LEMMA Served ==
  ASSUME ProjectsInv, NEW n \in AskIds, AskServed(n)
  PROVE  ProjectsInv' /\ list' = list
<1> USE FlightAssumption
<1> DEFINE a == asks[n]
<1>0. BoardInv /\ VisitOK /\ AsksOK /\ AwayOK /\ LinksOK
  BY DEF ProjectsInv
<1>1. UNCHANGED <<list, first, fetches, owed, selected, orders, removed>> /\ a.state = "sent"
  BY DEF AskServed
<1>2. failures' \in 0..MaxFailures
  BY <1>0 DEF AskServed, BoardInv
<1>3. PICK it \in AskRecs :
        /\ a.kind \in {"delete", "share"} /\ a.job \in Jobs
        /\ \/ it = NoAsk /\ a.kind = "share" /\ ~a.live
           \/ /\ it.kind = a.kind /\ it.job = a.job /\ it.live = a.live
              /\ it.state \in {"ok", "failed"} /\ it.link \in {a.link, "current"}
              /\ it.kind = "share" => it.live
        /\ \/ /\ a.kind = "share" /\ db' = db
              /\ asks' = [Outdated(asks, a.job, a.live) EXCEPT ![n] = it]
              /\ Shared(a.job, a.live)
           \/ /\ asks' = [asks EXCEPT ![n] = it] /\ visit' = visit
              /\ db' \in {db, [db EXCEPT ![a.job] = "deleted"]}
              /\ it.kind = "delete" /\ it.state = "ok" => db' = [db EXCEPT ![it.job] = "deleted"]
  BY ServedIs
<1>4. DbGrows
  BY <1>0, <1>3, DeletesGrow DEF BoardInv
<1>5. BoardMoves
  BY <1>0, <1>1, <1>2, <1>4, ListStays, Unmoved
<1>6. /\ a \in AskRecs /\ a # NoAsk
      /\ it # NoAsk => it.kind # "none" /\ it.job \in Jobs
      /\ Awaited(it) => Awaited(a) /\ it.job = a.job /\ it.link # "replaced"
                       /\ it.state # "sent"
  <2>1. a \in AskRecs
    BY <1>0 DEF AsksOK
  <2>2. Awaited(it) => Awaited(a)
    BY <1>3, NothingAsked DEF Awaited
  <2>3. Awaited(a) => a.link = "none"
    BY <1>0, <1>1 DEF LinksOK
  <2> QED BY <1>3, <2>1, <2>2, <2>3, NothingAsked DEF Awaited
<1>7. CASE /\ a.kind = "share" /\ db' = db
           /\ asks' = [Outdated(asks, a.job, a.live) EXCEPT ![n] = it]
           /\ Shared(a.job, a.live)
  <2>1. a.live \in BOOLEAN
    BY <1>6 DEF AskRecs
  <2>2. /\ VisitOK' /\ visit'.job = visit.job /\ visit'.creating = visit.creating
        /\ (visit.link = "none" => visit'.link = "none")
        /\ (visit.link # "replaced" /\ ~a.live => visit'.link # "replaced")
    BY <1>0, <1>7, <2>1, SharedVisit
  <2>3. \A m \in AskIds :
          LET b == Outdated(asks, a.job, a.live)[m] IN
            /\ b \in AskRecs /\ b.kind = asks[m].kind /\ b.job = asks[m].job
            /\ b.live = asks[m].live /\ b.state = asks[m].state
            /\ (asks[m].link = "none" => b.link = "none")
            /\ (asks[m].link # "replaced" /\ ~a.live => b.link # "replaced")
            /\ (asks[m] = NoAsk => b = NoAsk)
    BY <1>0, <1>3, <2>1, OutdatedFit
  <2>4. asks' \in [AskIds -> AskRecs] /\ asks'[n] = it
        /\ \A m \in AskIds : m # n => asks'[m] = Outdated(asks, a.job, a.live)[m]
    BY <1>7, <2>3 DEF Outdated
  <2>5. AsksOK'
    BY <1>0, <1>3, <1>6, <1>7, <2>3, <2>4, NothingAsked DEF AsksOK
  <2>6. \A m \in AskIds : Awaited(asks'[m]) => Awaited(asks[m])
    BY <1>6, <2>3, <2>4 DEF Awaited
  <2>7. \A m \in AskIds : m # n /\ Awaited(asks'[m]) =>
          asks'[m].job = asks[m].job /\ asks'[m].state = asks[m].state
          /\ ~a.live /\ asks'[m].link # "replaced"
          /\ (asks'[m].state = "sent" => asks'[m].link = "none")
    BY <1>0, <1>7, <2>3, <2>4, <2>6 DEF LinksOK, Awaited
  <2>8. visit'.link # "replaced"
    BY <1>0, <1>7, <2>2 DEF LinksOK, Awaited
  <2>9. LinksOK'
    BY <1>0, <1>6, <2>2, <2>4, <2>6, <2>7, <2>8 DEF LinksOK
  <2>10. AwayOK'
    BY <1>0, <1>1, <1>5, <2>2 DEF AwayOK, BoardMoves, Here
  <2> QED BY <1>1, <1>5, <2>2, <2>5, <2>9, <2>10 DEF ProjectsInv, BoardMoves
<1>8. CASE /\ asks' = [asks EXCEPT ![n] = it] /\ visit' = visit
           /\ it.kind = "delete" /\ it.state = "ok" => db' = [db EXCEPT ![it.job] = "deleted"]
  <2>1. asks' \in [AskIds -> AskRecs] /\ asks'[n] = it
        /\ \A m \in AskIds : m # n => asks'[m] = asks[m]
    BY <1>0, <1>8 DEF AsksOK
  <2>2. it.kind = "delete" /\ it.state = "ok" => db'[it.job] = "deleted"
    BY <1>0, <1>6, <1>8, NothingAsked DEF BoardInv, DbOK
  <2>3. AsksOK'
    BY <1>0, <1>4, <1>6, <2>1, <2>2, NothingAsked DEF AsksOK, DbGrows
  <2>4. LinksOK'
    BY <1>0, <1>6, <1>8, <2>1 DEF LinksOK
  <2>5. AwayOK' /\ VisitOK'
    BY <1>0, <1>1, <1>5, <1>8 DEF AwayOK, BoardMoves, Here, VisitOK
  <2> QED BY <1>1, <1>5, <2>3, <2>4, <2>5 DEF ProjectsInv, BoardMoves
<1> QED BY <1>3, <1>7, <1>8

\* A share the page gives up as failed.
LEMMA LostIs ==
  ASSUME ProjectsInv, NEW n \in AskIds, ShareLost(n)
  PROVE  ProjectsInv' /\ list' = list
<1> USE FlightAssumption
<1>0. BoardInv /\ VisitOK /\ AsksOK /\ AwayOK /\ LinksOK
  BY DEF ProjectsInv
<1>1. UNCHANGED <<db, list, first, fetches, owed, selected, orders, removed>>
      /\ failures' \in 0..MaxFailures
  BY <1>0 DEF ShareLost, BoardInv
<1>2. BoardMoves
  BY <1>0, <1>1, ListStays, Unmoved
<1>3. /\ visit' \in VisitRecs /\ visit'.job = visit.job /\ visit'.loaded = visit.loaded
      /\ visit'.confirm = visit.confirm /\ visit'.link = visit.link
  BY <1>0 DEF ShareLost, VisitOK, VisitRecs
<1>4. asks[n].kind = "share" /\ asks[n].live /\ asks[n].state = "sent"
      /\ asks' = [asks EXCEPT ![n].live = FALSE]
  BY DEF ShareLost
<1>5. /\ asks' \in [AskIds -> AskRecs] /\ ~asks'[n].live /\ asks'[n].kind = "share"
      /\ asks'[n].job = asks[n].job /\ asks'[n].state = "sent"
      /\ \A m \in AskIds : m # n => asks'[m] = asks[m]
  BY <1>0, <1>4 DEF AsksOK, AskRecs
<1>6. AsksOK'
  BY <1>0, <1>1, <1>4, <1>5, NothingAsked DEF AsksOK
<1>7. \A m \in AskIds : ~Awaited(asks'[m])
  BY <1>0, <1>4, <1>5 DEF LinksOK, Awaited
<1>8. LinksOK'
  BY <1>0, <1>3, <1>7 DEF LinksOK
<1>9. VisitOK' /\ AwayOK'
  BY <1>0, <1>1, <1>2, <1>3 DEF VisitOK, AwayOK, BoardMoves, Here
<1> QED BY <1>1, <1>2, <1>6, <1>8, <1>9 DEF ProjectsInv, BoardMoves

LEMMA Answered ==
  ASSUME ProjectsInv, NEW n \in AskIds, DeleteAnswered(n) \/ ShareAnswered(n)
  PROVE  ProjectsInv' /\ Shown(list') = Shown(list)
<1> DEFINE a == asks[n]
<1>0. BoardInv /\ VisitOK /\ AsksOK /\ AwayOK /\ LinksOK
  BY DEF ProjectsInv
<1>1. a \in AskRecs /\ a # NoAsk /\ a.job \in Jobs /\ a.kind \in {"delete", "share"}
  BY <1>0, NothingAsked DEF AsksOK, DeleteAnswered, ShareAnswered
<1>2. /\ [asks EXCEPT ![n] = NoAsk] \in [AskIds -> AskRecs]
      /\ [asks EXCEPT ![n] = NoAsk][n] = NoAsk
      /\ \A m \in AskIds : m # n => [asks EXCEPT ![n] = NoAsk][m] = asks[m]
  BY <1>0, NothingAsked DEF AsksOK
<1>3. CASE DeleteAnswered(n) /\ Goes(a)
  <2>1. /\ Mounted /\ visit' = NoVisit /\ removed' = removed \cup {a.job} /\ db' = db
        /\ asks' = Abandoned([asks EXCEPT ![n] = NoAsk]) /\ failures' = failures
    BY <1>3 DEF DeleteAnswered
  <2>2. BoardInv' /\ list' = NoAnswer /\ \A j \in Jobs : db[j] = "deleted" => Gone(j)'
    BY <1>0, <2>1, MountedMoves
  <2>3. AsksOK' /\ \A m \in AskIds : ~Awaited(asks'[m])
    BY <1>0, <1>2, <2>1, AbandonedFit
  <2>4. db[a.job] = "deleted" /\ ~Here
    BY <1>0, <1>3 DEF Goes, AsksOK
  <2>5. AwayOK'
    BY <1>0, <1>1, <2>1, <2>2, <2>4 DEF AwayOK, Gone
  <2>6. VisitOK' /\ LinksOK'
    BY <2>1, <2>3, NothingAsked DEF VisitOK, LinksOK
  <2>7. Shown(list') = Shown(list)
    BY <1>0, <2>2, <2>4 DEF AwayOK
  <2> QED BY <2>2, <2>3, <2>5, <2>6, <2>7 DEF ProjectsInv
<1>4. CASE \/ DeleteAnswered(n) /\ ~Goes(a)
           \/ ShareAnswered(n)
  <2>1. UNCHANGED <<dashboardVars, removed>> /\ asks' = [asks EXCEPT ![n] = NoAsk]
    BY <1>4 DEF DeleteAnswered, ShareAnswered, dashboardVars
  <2>2. BoardInv' /\ list' = list /\ db' = db /\ \A j \in Jobs : Gone(j) => Gone(j)'
    BY <1>0, <2>1, BoardKept DEF BoardMoves, dashboardVars
  <2>3. AsksOK'
    BY <1>0, <1>2, <2>1, <2>2, NothingAsked DEF AsksOK
  <2>4. CASE DeleteAnswered(n) /\ ~Goes(a)
    <3>1. /\ visit' \in VisitRecs /\ visit'.job = visit.job /\ visit'.loaded = visit.loaded
          /\ visit'.confirm = visit.confirm /\ visit'.link = visit.link
          /\ visit'.creating = visit.creating
      BY <1>0, <2>4 DEF DeleteAnswered, VisitOK, VisitRecs
    <3>2. VisitOK' /\ AwayOK'
      BY <1>0, <2>1, <2>2, <3>1 DEF VisitOK, AwayOK, Here
    <3>3. LinksOK'
      BY <1>0, <1>2, <2>1, <3>1, NothingAsked DEF LinksOK
    <3> QED BY <2>2, <2>3, <3>2, <3>3 DEF ProjectsInv
  <2>5. CASE ShareAnswered(n)
    <3>1. CASE ~a.live
      <4>1. visit' = visit
        BY <2>5, <3>1 DEF ShareAnswered
      <4>2. VisitOK' /\ AwayOK'
        BY <1>0, <2>1, <2>2, <4>1 DEF VisitOK, AwayOK, Here
      <4>3. LinksOK'
        BY <1>0, <1>2, <2>1, <4>1, NothingAsked DEF LinksOK
      <4> QED BY <2>2, <2>3, <4>2, <4>3 DEF ProjectsInv
    <3>2. CASE a.live
      <4>1. Awaited(a) /\ visit.link = "none" /\ a.link # "replaced"
        BY <1>0, <2>5, <3>2 DEF ShareAnswered, LinksOK, Awaited
      <4>2. visit' = [visit EXCEPT !.creating = FALSE,
                                   !.link = IF a.state = "ok" THEN a.link ELSE @]
        BY <2>5, <3>2 DEF ShareAnswered
      <4>3. /\ visit' \in VisitRecs /\ visit'.job = visit.job /\ visit'.loaded = visit.loaded
            /\ visit'.confirm = visit.confirm /\ visit'.link \in {a.link, "none"}
        BY <1>0, <1>1, <4>1, <4>2 DEF VisitOK, VisitRecs, AskRecs
      <4>4. VisitOK' /\ AwayOK'
        BY <1>0, <2>1, <2>2, <4>3 DEF VisitOK, AwayOK, Here
      <4>5. \A m \in AskIds : ~Awaited(asks'[m])
        BY <1>0, <1>2, <2>1, <4>1, NothingAsked DEF LinksOK
      <4>6. LinksOK'
        BY <4>1, <4>3, <4>5 DEF LinksOK
      <4> QED BY <2>2, <2>3, <4>4, <4>6 DEF ProjectsInv
    <3> QED BY <1>1, <3>1, <3>2 DEF AskRecs
  <2> QED BY <1>4, <2>4, <2>5
<1> QED BY <1>3, <1>4

-----------------------------------------------------------------------------
LEMMA ProjectsStep ==
  ASSUME ProjectsInv, [ProjectsNext]_allVars
  PROVE  ProjectsInv' /\ (DropsOK \/ ~Here')
<1>0. BoardInv /\ AwayOK
  BY DEF ProjectsInv
<1>d. Shown(list') = Shown(list) => DropsOK
  BY DEF DropsOK
<1>1. CASE UNCHANGED allVars
  <2>1. BoardMoves /\ UNCHANGED <<visit, asks, removed>> /\ list' = list
    BY <1>0, <1>1, BoardKept DEF allVars, dashboardVars
  <2> QED BY <2>1, BoardAlone DEF BoardMoves
<1>2. CASE ServerStep /\ UNCHANGED <<visit, asks, removed>>
  BY <1>0, <1>2, ServerMoves, NothingListed, BoardAlone DEF BoardMoves
<1>3. CASE Here /\ PageStep /\ UNCHANGED <<visit, asks, removed>>
  BY <1>0, <1>3, PageMoves, BoardAlone DEF BoardMoves
<1>4. CASE OrderStep
  BY <1>4, <1>d, Ordered
<1>5. CASE (\E j \in Jobs : OpenCard(j)) \/ PageLoads \/ Back \/ ToggleConfirm
  BY <1>5, <1>d, Moving
<1>6. CASE handleConfirmDelete \/ SharePage
  BY <1>6, <1>d, Asking
<1>7. ASSUME NEW n \in AskIds, Answers(n) \/ ShareLost(n)
      PROVE  ProjectsInv' /\ (DropsOK \/ ~Here')
  BY <1>7, <1>d, Served, Answered, LostIs DEF Answers
<1> QED BY <1>1, <1>2, <1>3, <1>4, <1>5, <1>6, <1>7 DEF ProjectsNext

LEMMA ProjectsHolds == ProjectsSpec => []ProjectsInv
<1>1. ProjectsInv /\ [ProjectsNext]_allVars => ProjectsInv'
  BY ProjectsStep
<1> QED BY <1>1, ProjectsInitOK, PTL DEF ProjectsSpec

\* The cards and the bulk bar never offer a job that was deleted on its page, and the selection
\* is always of jobs in the list, for any jobs, requests and answers that come late or not at all.
THEOREM NothingGoneIsOfferedHolds == ProjectsSpec => []NothingGoneIsOffered
<1>1. ProjectsInv => NothingGoneIsOffered
  <2> SUFFICES ASSUME ProjectsInv PROVE NothingGoneIsOffered
    OBVIOUS
  <2>1. BoardInv /\ VisitOK /\ AsksOK /\ AwayOK
    BY DEF ProjectsInv
  <2>2. owed \in BOOLEAN
    BY <2>1, Zenon DEF BoardInv
  <2>3. DashboardTypeOK
    BY <2>1, <2>2 DEF DashboardTypeOK, BoardInv, DbOK, ListOK, FetchesOK, OrdersOK, Lists,
       FetchRecs, OrderRecs
  <2>4. ProjectsTypeOK
    BY <2>1, <2>3 DEF ProjectsTypeOK, VisitOK, AsksOK, AwayOK, VisitRecs, AskRecs
  <2>5. SelectionShown
    BY <2>1 DEF BoardInv, ListOK
  <2>6. DeletedOnPageStaysGone
    BY <2>1 DEF AwayOK, Gone, DeletedOnPageStaysGone, Shown
  <2> QED BY <2>4, <2>5, <2>6 DEF NothingGoneIsOffered
<1> QED BY <1>1, ProjectsHolds, PTL

\* The link a page shows works unless its job is deleted or the last share of it is not one the
\* page waited for, for any number of jobs and requests in any order.
THEOREM LinkWorksHolds == ProjectsSpec => []LinkWorks
<1>1. ProjectsInv => LinkWorks
  <2> SUFFICES ASSUME ProjectsInv PROVE LinkWorks
    OBVIOUS
  <2>1. visit.link \in Links \ {"replaced"}
    BY DEF ProjectsInv, VisitOK, VisitRecs, LinksOK
  <2> QED BY <2>1 DEF LinkWorks, ShownLink, Works, Links
<1> QED BY <1>1, ProjectsHolds, PTL

\* A card disappears from the list only when its job is deleted, an answer lacks it or the
\* dashboard is left.
THEOREM DropsOnlyDeletedHolds == ProjectsSpec => DropsOnlyDeleted
<1> DEFINE Dropped ==
      \A j \in Shown(list) \ Shown(list') :
        \/ db[j] = "deleted" \/ ~Here'
        \/ \E s \in Slots : fetches[s].state = "read" /\ fetches[s].jobs[j] = "absent"
<1>1. ProjectsInv /\ [ProjectsNext]_allVars => [Dropped]_allVars
  <2> SUFFICES ASSUME ProjectsInv, [ProjectsNext]_allVars PROVE Dropped
    OBVIOUS
  <2> QED BY ProjectsStep DEF DropsOK
<1> QED BY <1>1, ProjectsHolds, PTL DEF ProjectsSpec, DropsOnlyDeleted

=============================================================================
