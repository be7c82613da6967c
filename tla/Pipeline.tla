------------------------------ MODULE Pipeline ------------------------------
(***************************************************************************)
(* The job pipeline: the four RabbitMQ queues, the four workers that       *)
(* consume them (video-analyzer, tts-service, mux-service,                 *)
(* delivery-service), the gateway and upload-service handlers that feed    *)
(* them, and the three stores they share: the jobs and                     *)
(* transcript_segments tables and the object bucket.                       *)
(*                                                                         *)
(* A worker's handler is one process per consumer, cut where another       *)
(* process can see the difference: at each SQL statement, object write,    *)
(* publish and acknowledgement.  Reads that nothing can invalidate share   *)
(* a step with the call that follows them.                                 *)
(***************************************************************************)
EXTENDS Integers, FiniteSets

CONSTANTS
  Jobs,           \* job ids
  Segs,           \* segment_idx values
  Consumers,      \* consumer processes of all the workers
  Serves,         \* [Consumers -> Queues], the queue each one consumes
  QueueType,      \* RABBITMQ_QUEUE_TYPE: "classic" or "quorum"
  DeliveryLimit,  \* x-delivery-limit of the quorum queues
  Ops,            \* what the environment may do besides creating jobs
  MaxMsgs,        \* bound: messages ever published
  MaxFaults,      \* bound: failed calls, crashes and lost connections
  MaxOps          \* bound: client operations after a job is created

Queues == {"ingestion", "transcript", "audio", "delivery"}

ASSUME ServesAssumption == Serves \in [Consumers -> Queues]
ASSUME ConsumersAssumption == IsFiniteSet(Consumers)
ASSUME SegsAssumption == IsFiniteSet(Segs)
ASSUME BoundsAssumption ==
  /\ DeliveryLimit \in Nat /\ MaxMsgs \in Nat
  /\ MaxFaults \in Nat /\ MaxOps \in Nat
ASSUME QueueTypeAssumption == QueueType \in {"classic", "quorum"}

VARIABLES
  row,      \* jobs table: stage ("absent": no row), output_file and download_url set or not
  segRows,  \* transcript_segments rows of each job
  voiced,   \* the rows whose audio_path is set
  store,    \* the objects in the bucket
  msgs,     \* every message, by publish order
  next,     \* id of the next message
  work,     \* the handler each consumer is running
  pg,       \* the single Postgres session of each Python worker
  create,   \* the request that creates each job
  del,      \* the DELETE request on each job
  edit,     \* the segments a transcript or regenerate request is about to publish
  hooked,   \* number of webhook rounds sent for each delivery message
  done,     \* jobs some handler marked completed (history)
  faults, ops

vars == <<row, segRows, voiced, store, msgs, next, work, pg, create, del, edit,
          hooked, done, faults, ops>>

db == <<row, segRows, voiced>>
broker == <<msgs, next>>
requests == <<create, del, edit>>

MsgIds == 1..MaxMsgs
Stages == {"absent", "uploaded", "transcribed", "synthesized", "muxing",
           "muxed", "delivering", "completed"}

\* Objects: the uploaded video, the audio track of the documented audio
\* message, the muxed output, and one file per synthesized segment.
Raw(j) == <<"raw", j>>
Track(j) == <<"track", j>>
Out(j) == <<"out", j>>
SegAudio(j, i) == <<"seg", j, i>>
Objects == ({"raw", "track", "out"} \X Jobs) \cup ({"seg"} \X Jobs \X Segs)

\* Payload keys a consumer looks up.
Fields == {"original_file", "object_key", "segments", "segment_ids",
           "segments_count", "audio_file", "output_file"}
Places == {"ready", "unacked", "dead", "acked"}
Unsent == [place |-> "unsent"]
Msg == [place: Places, queue: Queues, job: Jobs, fields: SUBSET Fields,
        segs: SUBSET Segs, tries: 0..(DeliveryLimit + 1), old: BOOLEAN]
Live == {"ready", "unacked", "dead"}

Pcs == {"idle", "start", "analyze", "store", "stage", "synth", "record",
        "publish", "event", "download", "upload", "presign", "complete",
        "webhook", "ack"}
Idle == [pc |-> "idle", id |-> 0, held |-> FALSE, todo |-> {}, segs |-> {}]
Work == [pc: Pcs, id: 0..MaxMsgs, held: BOOLEAN, todo: SUBSET Segs, segs: SUBSET Segs]

CreatePcs == {"none", "stored", "inserted", "ok", "failed"}
DelPcs == {"none", "objects", "segments", "row", "gone", "failed"}

-----------------------------------------------------------------------------
Init ==
  /\ row = [j \in Jobs |-> [stage |-> "absent", output |-> FALSE, url |-> FALSE]]
  /\ segRows = [j \in Jobs |-> {}]
  /\ voiced = [j \in Jobs |-> {}]
  /\ store = {}
  /\ msgs = [i \in MsgIds |-> Unsent]
  /\ next = 1
  /\ work = [c \in Consumers |-> Idle]
  /\ pg = [c \in Consumers |-> "ok"]
  /\ create = [j \in Jobs |-> "none"]
  /\ del = [j \in Jobs |-> [pc |-> "none", out |-> FALSE]]
  /\ edit = [j \in Jobs |-> {}]
  /\ hooked = [i \in MsgIds |-> 0]
  /\ done = {}
  /\ faults = 0
  /\ ops = 0

Exists(j) == row[j].stage # "absent"
Fault == faults < MaxFaults /\ faults' = faults + 1
Op(name) == name \in Ops /\ ops < MaxOps /\ ops' = ops + 1
SetStage(j, s) ==                 \* UPDATE jobs SET stage ... WHERE id = j
  row' = IF Exists(j) THEN [row EXCEPT ![j].stage = s] ELSE row

-----------------------------------------------------------------------------
(* RabbitMQ.                                                               *)

NewMsg(q, j, fields, segs) ==
  [place |-> "ready", queue |-> q, job |-> j, fields |-> fields, segs |-> segs,
   tries |-> 0, old |-> FALSE]

Enqueue(ms, q, j, fields, segs) ==
  /\ next \in MsgIds
  /\ msgs' = [ms EXCEPT ![next] = NewMsg(q, j, fields, segs)]
  /\ next' = next + 1

At(i, p) == [msgs EXCEPT ![i].place = p]

Returned_NoLimit(i) == At(i, "ready")           \* wrong: no delivery limit

\* A message handed back: a quorum queue dead-letters it once it has been
\* delivered more than x-delivery-limit times, a classic queue never does.
Returned(i) ==
  At(i, IF QueueType = "quorum" /\ msgs[i].tries > DeliveryLimit
        THEN "dead" ELSE "ready")

Ready(q) == {i \in MsgIds : msgs[i].place = "ready" /\ msgs[i].queue = q}
IsHead(i) == \A k \in Ready(msgs[i].queue) : i <= k

\* The Python workers declare their queues without x-queue-type: on a queue
\* declared as quorum the declaration is refused and the worker never consumes.
Python(c) == Serves[c] \in {"ingestion", "transcript"}
CanConsume(c) == Python(c) => QueueType = "classic"

Deliver_AutoAck(c) ==                           \* wrong: acknowledged on delivery
  /\ work[c].pc = "idle"
  /\ CanConsume(c)
  /\ \E i \in Ready(Serves[c]) :
       /\ IsHead(i) /\ ~msgs[i].old
       /\ msgs' = [msgs EXCEPT ![i].place = "acked"]
       /\ work' = [work EXCEPT ![c] = [Idle EXCEPT !.pc = "start", !.id = i, !.held = TRUE]]
  /\ UNCHANGED <<db, store, next, pg, requests, hooked, done, faults, ops>>

Deliver(c) ==
  /\ work[c].pc = "idle"
  /\ CanConsume(c)
  /\ \E i \in Ready(Serves[c]) :
       /\ IsHead(i)
       /\ ~msgs[i].old
       /\ msgs' = [msgs EXCEPT ![i].place = "unacked",
                               ![i].tries = IF @ > DeliveryLimit THEN @ ELSE @ + 1]
       /\ work' = [work EXCEPT ![c] = [Idle EXCEPT !.pc = "start", !.id = i, !.held = TRUE]]
  /\ UNCHANGED <<db, store, next, pg, requests, hooked, done, faults, ops>>

\* The 24 h x-message-ttl of a classic queue runs out; the message keeps its
\* age when it is requeued, and is dead-lettered at the head of its queue.
Age(i) ==
  /\ "ttl" \in Ops /\ QueueType = "classic"
  /\ msgs[i].place \in {"ready", "unacked"}
  /\ ~msgs[i].old
  /\ msgs' = [msgs EXCEPT ![i].old = TRUE]
  /\ UNCHANGED <<db, store, next, work, pg, requests, hooked, done, faults, ops>>

Expire(i) ==
  /\ msgs[i].place = "ready" /\ msgs[i].old /\ IsHead(i)
  /\ msgs' = At(i, "dead")
  /\ UNCHANGED <<db, store, next, work, pg, requests, hooked, done, faults, ops>>

-----------------------------------------------------------------------------
(* How a handler ends.  Without its channel (held = FALSE) its ack, nack   *)
(* or publish fails and the broker has already taken the message back.     *)

JobOf(c) == msgs[work[c].id].job
FieldsOf(c) == msgs[work[c].id].fields
Goto(c, p) == work' = [work EXCEPT ![c].pc = p]
Release(c) == work' = [work EXCEPT ![c] = Idle]

\* basic_nack(requeue=False) of the Python workers; only the analyzer rolls back.
Reject(c) ==
  /\ msgs' = IF work[c].held THEN At(work[c].id, "dead") ELSE msgs
  /\ Release(c)

RolledBack(c, session) ==
  IF Serves[c] = "ingestion" /\ session = "aborted" THEN "ok" ELSE session

\* Nack(false, true) of the Go workers.
Requeue(c) ==
  /\ msgs' = IF work[c].held THEN Returned(work[c].id) ELSE msgs
  /\ Release(c)

Ack(c) ==
  /\ work[c].pc = "ack"
  /\ msgs' = IF work[c].held THEN At(work[c].id, "acked") ELSE msgs
  /\ Release(c)
  /\ UNCHANGED <<db, store, next, pg, requests, hooked, done, faults, ops>>

\* A publish on a channel that is gone raises: the handler gives up.
LostChannel(c) ==
  /\ work[c].pc = "publish" /\ ~work[c].held
  /\ Release(c)
  /\ UNCHANGED <<db, store, broker, pg, requests, hooked, done, faults, ops>>

\* The AMQP connection drops (or the broker's ack timeout closes the channel)
\* under a running handler, which only notices at its next use of the channel.
Disconnect(c) ==
  /\ work[c].held
  /\ Fault
  /\ msgs' = Returned(work[c].id)
  /\ work' = [work EXCEPT ![c].held = FALSE]
  /\ UNCHANGED <<db, store, next, pg, requests, hooked, done, ops>>

\* The process dies; a restarted one has a fresh database session.
Crash(c) ==
  /\ work[c].pc # "idle" \/ pg[c] # "ok"
  /\ Fault
  /\ msgs' = IF work[c].held THEN Returned(work[c].id) ELSE msgs
  /\ Release(c)
  /\ pg' = [pg EXCEPT ![c] = "ok"]
  /\ UNCHANGED <<db, store, next, requests, hooked, done, ops>>

\* A storage, Gemini, TTS, ffmpeg, broker or Redis call fails and the handler
\* takes its error path.  The analyzer suppresses its Redis error and the Go
\* workers log theirs; the tts-service does not ("event").
CallPcs == {"analyze", "synth", "publish", "event", "download", "upload", "presign"}
CallFails(c) ==
  /\ work[c].pc \in CallPcs
  /\ Fault
  /\ IF Python(c) THEN Reject(c) ELSE Requeue(c)
  /\ pg' = [pg EXCEPT ![c] = RolledBack(c, @)]
  /\ UNCHANGED <<db, store, next, requests, hooked, done, ops>>

\* The steps that run a statement on the worker's session.  The tts-service
\* reads the table at its start only when the message names segment ids.
Queries(c) ==
  CASE work[c].pc = "start" -> Serves[c] = "transcript" => "segment_ids" \in FieldsOf(c)
    [] OTHER -> work[c].pc \in {"store", "record", "stage", "complete"}

\* A statement fails.  psycopg2 leaves the session in an aborted transaction,
\* or closed when the server went away; database/sql replaces the connection.
StatementFails(c) ==
  /\ Queries(c)
  /\ Fault
  /\ IF Python(c)
     THEN /\ Reject(c)
          /\ \E s \in {"aborted", "closed"} : pg' = [pg EXCEPT ![c] = RolledBack(c, s)]
     ELSE Requeue(c) /\ UNCHANGED pg
  /\ UNCHANGED <<db, store, next, requests, hooked, done, ops>>

\* Every statement on a session that is not usable raises at once.
SessionBroken(c) ==
  /\ Python(c) /\ pg[c] # "ok" /\ Queries(c)
  /\ Reject(c)
  /\ pg' = [pg EXCEPT ![c] = RolledBack(c, @)]
  /\ UNCHANGED <<db, store, next, requests, hooked, done, faults, ops>>

SessionOk(c) == Python(c) => pg[c] = "ok"

-----------------------------------------------------------------------------
(* video-analyzer: _process_message.                                       *)

AtStep(c, q, p) == Serves[c] = q /\ work[c].pc = p

AnalyzerStart(c) ==
  /\ AtStep(c, "ingestion", "start") /\ SessionOk(c)
  /\ IF "object_key" \in FieldsOf(c) /\ Raw(JobOf(c)) \in store
     THEN Goto(c, "analyze") /\ UNCHANGED msgs
     ELSE Reject(c)                      \* KeyError, NoSuchKey
  /\ UNCHANGED <<db, store, next, pg, requests, hooked, done, faults, ops>>

Analyze(c) ==
  /\ AtStep(c, "ingestion", "analyze")
  /\ \E found \in SUBSET Segs \ {{}} :   \* the validator refuses an empty transcript
       work' = [work EXCEPT ![c].pc = "store", ![c].segs = found]
  /\ UNCHANGED <<db, store, broker, pg, requests, hooked, done, faults, ops>>

StoreSegments(c) ==
  /\ AtStep(c, "ingestion", "store") /\ SessionOk(c)
  /\ IF Exists(JobOf(c))
     THEN /\ segRows' = [segRows EXCEPT ![JobOf(c)] = @ \cup work[c].segs]
          /\ Goto(c, "stage") /\ UNCHANGED msgs
     ELSE Reject(c) /\ UNCHANGED segRows \* foreign key violation
  /\ UNCHANGED <<row, voiced, store, next, pg, requests, hooked, done, faults, ops>>

UpdateJobStage(c) ==
  /\ AtStep(c, "ingestion", "stage") /\ SessionOk(c)
  /\ SetStage(JobOf(c), "transcribed")
  /\ Goto(c, "publish")
  /\ UNCHANGED <<segRows, voiced, store, broker, pg, requests, hooked, done, faults, ops>>

PublishTranscript(c) ==
  /\ AtStep(c, "ingestion", "publish") /\ work[c].held
  /\ Enqueue(msgs, "transcript", JobOf(c), {"segments"}, work[c].segs)
  /\ Goto(c, "ack")
  /\ UNCHANGED <<db, store, pg, requests, hooked, done, faults, ops>>

-----------------------------------------------------------------------------
(* tts-service: _process_message.                                          *)

Regenerates(c) == "segment_ids" \in FieldsOf(c)

SelectSegments_RecordFirst(c) ==                \* wrong: the row is updated before the upload
  /\ AtStep(c, "transcript", "start")
  /\ work' = [work EXCEPT ![c].pc = "record", ![c].todo = msgs[work[c].id].segs,
                          ![c].segs = msgs[work[c].id].segs]
  /\ UNCHANGED <<db, store, broker, pg, requests, hooked, done, faults, ops>>

SelectSegments(c) ==
  /\ AtStep(c, "transcript", "start") /\ (Queries(c) => SessionOk(c))
  /\ LET i == work[c].id
         chosen == IF Regenerates(c) THEN msgs[i].segs \cap segRows[JobOf(c)]
                                     ELSE msgs[i].segs
     IN IF chosen # {}
        THEN /\ work' = [work EXCEPT ![c].pc = "synth", ![c].todo = chosen, ![c].segs = chosen]
             /\ UNCHANGED msgs
        ELSE Reject(c)                   \* ValueError: no segments
  /\ UNCHANGED <<db, store, next, pg, requests, hooked, done, faults, ops>>

Current(c) == CHOOSE i \in work[c].todo : TRUE   \* the list's order is immaterial

SynthesizeSegment(c) ==
  /\ AtStep(c, "transcript", "synth")
  /\ store' = store \cup {SegAudio(JobOf(c), Current(c))}
  /\ Goto(c, "record")
  /\ UNCHANGED <<db, broker, pg, requests, hooked, done, faults, ops>>

UpdateSegmentRecord_Once(c) ==                  \* wrong: the loop is left after one segment
  /\ AtStep(c, "transcript", "record") /\ SessionOk(c)
  /\ voiced' = IF Current(c) \in segRows[JobOf(c)]
               THEN [voiced EXCEPT ![JobOf(c)] = @ \cup {Current(c)}] ELSE voiced
  /\ Goto(c, IF Regenerates(c) THEN "publish" ELSE "stage")
  /\ UNCHANGED <<row, segRows, store, broker, pg, requests, hooked, done, faults, ops>>

UpdateSegmentRecord(c) ==
  /\ AtStep(c, "transcript", "record") /\ SessionOk(c)
  /\ LET i == Current(c)
         left == work[c].todo \ {i}
     IN /\ voiced' = IF i \in segRows[JobOf(c)]
                     THEN [voiced EXCEPT ![JobOf(c)] = @ \cup {i}] ELSE voiced
        /\ work' = [work EXCEPT ![c].todo = left,
                                ![c].pc = IF left # {} THEN "synth"
                                          ELSE IF Regenerates(c) THEN "publish" ELSE "stage"]
  /\ UNCHANGED <<row, segRows, store, broker, pg, requests, hooked, done, faults, ops>>

MarkSynthesized_Unknown(c) ==                   \* wrong: a stage no other part knows
  /\ AtStep(c, "transcript", "stage") /\ SessionOk(c)
  /\ SetStage(JobOf(c), "voiced")
  /\ Goto(c, "publish")
  /\ UNCHANGED <<segRows, voiced, store, broker, pg, requests, hooked, done, faults, ops>>

MarkSynthesized(c) ==
  /\ AtStep(c, "transcript", "stage") /\ SessionOk(c)
  /\ SetStage(JobOf(c), "synthesized")
  /\ Goto(c, "publish")
  /\ UNCHANGED <<segRows, voiced, store, broker, pg, requests, hooked, done, faults, ops>>

PublishAudio(c) ==
  /\ AtStep(c, "transcript", "publish") /\ work[c].held
  /\ Enqueue(msgs, "audio", JobOf(c), {"segments_count"}, work[c].segs)
  /\ Goto(c, IF Regenerates(c) THEN "ack" ELSE "event")
  /\ UNCHANGED <<db, store, pg, requests, hooked, done, faults, ops>>

SynthesizedEvent(c) ==                   \* redis publish; CallFails when it raises
  /\ AtStep(c, "transcript", "event")
  /\ Goto(c, "ack")
  /\ UNCHANGED <<db, store, broker, pg, requests, hooked, done, faults, ops>>

-----------------------------------------------------------------------------
(* mux-service: processMessage.                                            *)

MuxStart(c) ==
  /\ AtStep(c, "audio", "start")
  /\ SetStage(JobOf(c), "muxing")
  /\ Goto(c, "download")
  /\ UNCHANGED <<segRows, voiced, store, broker, pg, requests, hooked, done, faults, ops>>

MuxDownload(c) ==
  /\ AtStep(c, "audio", "download")
  /\ IF /\ {"original_file", "audio_file"} \subseteq FieldsOf(c)
        /\ {Raw(JobOf(c)), Track(JobOf(c))} \subseteq store
     THEN Goto(c, "upload") /\ UNCHANGED msgs
     ELSE Requeue(c)
  /\ UNCHANGED <<db, store, next, pg, requests, hooked, done, faults, ops>>

MuxUpload(c) ==
  /\ AtStep(c, "audio", "upload")
  /\ store' = store \cup {Out(JobOf(c))}
  /\ Goto(c, "stage")
  /\ UNCHANGED <<db, broker, pg, requests, hooked, done, faults, ops>>

MuxStage_NoOutput(c) ==                         \* wrong: output_file is not recorded
  /\ AtStep(c, "audio", "stage")
  /\ SetStage(JobOf(c), "muxed")
  /\ Goto(c, "publish")
  /\ UNCHANGED <<segRows, voiced, store, broker, pg, requests, hooked, done, faults, ops>>

MuxStage(c) ==
  /\ AtStep(c, "audio", "stage")
  /\ row' = IF Exists(JobOf(c))
            THEN [row EXCEPT ![JobOf(c)].stage = "muxed", ![JobOf(c)].output = TRUE]
            ELSE row
  /\ Goto(c, "publish")
  /\ UNCHANGED <<segRows, voiced, store, broker, pg, requests, hooked, done, faults, ops>>

PublishDelivery_ThenError(c) ==                 \* wrong: an error after the publish
  /\ AtStep(c, "audio", "publish") /\ work[c].held /\ Exists(JobOf(c))
  /\ Enqueue(Returned(work[c].id), "delivery", JobOf(c), {"output_file"}, {})
  /\ Release(c)
  /\ UNCHANGED <<db, store, pg, requests, hooked, done, faults, ops>>

\* The owner's id is read from the row first; without a row the message goes back.
PublishDelivery(c) ==
  /\ AtStep(c, "audio", "publish") /\ work[c].held
  /\ IF Exists(JobOf(c))
     THEN Enqueue(msgs, "delivery", JobOf(c), {"output_file"}, {}) /\ Goto(c, "ack")
     ELSE Requeue(c) /\ UNCHANGED next
  /\ UNCHANGED <<db, store, pg, requests, hooked, done, faults, ops>>

\* The broker took the message but its confirm did not come within
\* publishConfirmTimeout: Publish returns an error and the message goes back.
ConfirmTimeout(c) ==
  /\ AtStep(c, "audio", "publish") /\ work[c].held /\ Exists(JobOf(c))
  /\ Fault
  /\ Enqueue(Returned(work[c].id), "delivery", JobOf(c), {"output_file"}, {})
  /\ Release(c)
  /\ UNCHANGED <<db, store, pg, requests, hooked, done, ops>>

-----------------------------------------------------------------------------
(* delivery-service: processMessage.                                       *)

DeliveryStart(c) ==
  /\ AtStep(c, "delivery", "start")
  /\ SetStage(JobOf(c), "delivering")
  /\ Goto(c, "presign")
  /\ UNCHANGED <<segRows, voiced, store, broker, pg, requests, hooked, done, faults, ops>>

\* Signing needs no object; the duration is read from the row.
Presign(c) ==
  /\ AtStep(c, "delivery", "presign")
  /\ IF Exists(JobOf(c)) THEN Goto(c, "complete") /\ UNCHANGED msgs ELSE Requeue(c)
  /\ UNCHANGED <<db, store, next, pg, requests, hooked, done, faults, ops>>

Complete_Delivered(c) ==                        \* wrong: the row keeps another stage
  /\ AtStep(c, "delivery", "complete")
  /\ row' = [row EXCEPT ![JobOf(c)].url = TRUE]
  /\ Goto(c, "webhook")
  /\ UNCHANGED <<segRows, voiced, store, broker, pg, requests, hooked, done, faults, ops>>

Complete(c) ==
  /\ AtStep(c, "delivery", "complete")
  /\ LET j == JobOf(c)
     IN IF Exists(j)
        THEN /\ row' = [row EXCEPT ![j].stage = "completed", ![j].url = TRUE]
             /\ done' = done \cup {j}
        ELSE UNCHANGED <<row, done>>
  /\ Goto(c, "webhook")
  /\ UNCHANGED <<segRows, voiced, store, broker, pg, requests, hooked, faults, ops>>

\* Webhook failures are logged, not returned.
SendWebhooks(c) ==
  /\ AtStep(c, "delivery", "webhook")
  /\ hooked' = [hooked EXCEPT ![work[c].id] = @ + 1]
  /\ Goto(c, "ack")
  /\ UNCHANGED <<db, store, broker, pg, requests, done, faults, ops>>

-----------------------------------------------------------------------------
(* The handlers that feed the pipeline.  A failed call is answered with a  *)
(* 5xx and leaves what the earlier steps did.                              *)

CreateStep(j, from, to) == create[j] = from /\ create' = [create EXCEPT ![j] = to]

CreateFails(j) ==                        \* an orphan object, then an orphan row
  /\ create[j] \in {"none", "stored", "inserted"}
  /\ Fault
  /\ create' = [create EXCEPT ![j] = "failed"]
  /\ UNCHANGED <<db, store, broker, work, pg, del, edit, hooked, done, ops>>

StoreVideo(j) ==
  /\ CreateStep(j, "none", "stored")
  /\ store' = store \cup {Raw(j)}
  /\ UNCHANGED <<db, broker, work, pg, del, edit, hooked, done, faults, ops>>

InsertJob(j) ==
  /\ CreateStep(j, "stored", "inserted")
  /\ row' = [row EXCEPT ![j].stage = "uploaded"]
  /\ UNCHANGED <<segRows, voiced, store, broker, work, pg, del, edit, hooked, done, faults, ops>>

PublishIngestion(j) ==
  /\ \/ CreateStep(j, "inserted", "ok") /\ UNCHANGED faults
     \/ CreateStep(j, "inserted", "failed") /\ Fault    \* accepted, confirm timed out
  /\ Enqueue(msgs, "ingestion", j, {"original_file"}, {})
  /\ UNCHANGED <<db, store, work, pg, del, edit, hooked, done, ops>>

\* upload-service handleComplete: a fresh job id is announced on the queue
\* without a row for it in the jobs table.
CompleteUpload(j) ==
  /\ Op("upload")
  /\ \/ CreateStep(j, "none", "ok") /\ UNCHANGED faults
     \/ CreateStep(j, "none", "failed") /\ Fault
  /\ store' = store \cup {Raw(j)}
  /\ Enqueue(msgs, "ingestion", j, {"original_file"}, {})
  /\ UNCHANGED <<db, work, pg, del, edit, hooked, done>>

\* The texts are committed and every segment row is read back; updating the
\* stage is best effort; the message follows.
UpdateTranscript(j) ==
  /\ Op("edit")
  /\ Exists(j) /\ segRows[j] # {} /\ edit[j] = {}
  /\ edit' = [edit EXCEPT ![j] = segRows[j]]
  /\ \/ SetStage(j, "transcribed") /\ UNCHANGED faults
     \/ Fault /\ UNCHANGED row
  /\ UNCHANGED <<segRows, voiced, store, broker, work, pg, create, del, hooked, done>>

\* One segment goes out, as the one-element list of a transcript message.
RegenerateSegment(j) ==
  /\ Op("regenerate")
  /\ Exists(j) /\ edit[j] = {}
  /\ \E i \in segRows[j] : edit' = [edit EXCEPT ![j] = {i}]
  /\ UNCHANGED <<db, store, broker, work, pg, create, del, hooked, done, faults>>

\* Each member carries its segment_id, which the tts-service keeps.
PublishEdit(j) ==
  /\ edit[j] # {}
  /\ edit' = [edit EXCEPT ![j] = {}]
  /\ \/ Enqueue(msgs, "transcript", j, {"segments"}, edit[j]) /\ UNCHANGED faults
     \/ Fault /\ UNCHANGED broker
  /\ UNCHANGED <<db, store, work, pg, create, del, hooked, done, ops>>

ReadJobToDelete(j) ==
  /\ Op("delete")
  /\ del[j].pc \in {"none", "failed"} /\ Exists(j)
  /\ del' = [del EXCEPT ![j] = [pc |-> "objects", out |-> row[j].output]]
  /\ UNCHANGED <<db, store, broker, work, pg, create, edit, hooked, done, faults>>

s3KeysForJob(j) == {Raw(j)} \cup IF del[j].out THEN {Out(j)} ELSE {}

DeleteObjects(j) ==                      \* best effort: a failed delete is logged
  /\ del[j].pc = "objects"
  /\ del' = [del EXCEPT ![j].pc = "segments"]
  /\ \/ store' = store \ s3KeysForJob(j) /\ UNCHANGED faults
     \/ Fault /\ \E o \in s3KeysForJob(j) : store' = store \ (s3KeysForJob(j) \ {o})
  /\ UNCHANGED <<db, broker, work, pg, create, edit, hooked, done, ops>>

DeleteSegments(j) ==
  /\ del[j].pc = "segments"
  /\ del' = [del EXCEPT ![j].pc = "row"]
  /\ segRows' = [segRows EXCEPT ![j] = {}]
  /\ voiced' = [voiced EXCEPT ![j] = {}]
  /\ UNCHANGED <<row, store, broker, work, pg, create, edit, hooked, done, faults, ops>>

DeleteRow(j) ==                          \* ON DELETE CASCADE takes late segments along
  /\ del[j].pc = "row"
  /\ del' = [del EXCEPT ![j].pc = "gone"]
  /\ row' = [row EXCEPT ![j] = [stage |-> "absent", output |-> FALSE, url |-> FALSE]]
  /\ segRows' = [segRows EXCEPT ![j] = {}]
  /\ voiced' = [voiced EXCEPT ![j] = {}]
  /\ UNCHANGED <<store, broker, work, pg, create, edit, hooked, done, faults, ops>>

DeleteFails(j) ==
  /\ del[j].pc \in {"segments", "row"}
  /\ Fault
  /\ del' = [del EXCEPT ![j].pc = "failed"]
  /\ UNCHANGED <<db, store, broker, work, pg, create, edit, hooked, done, ops>>

\* External: a producer that follows the documented message formats, for a
\* job that has its row.  The audio message comes with the track it names.
DocumentedMessage(j) ==
  /\ Exists(j)
  /\ \/ Op("ingest") /\ Enqueue(msgs, "ingestion", j, {"object_key"}, {}) /\ UNCHANGED store
     \/ /\ Op("audio")
        /\ Enqueue(msgs, "audio", j, {"original_file", "audio_file"}, {})
        /\ store' = store \cup {Track(j)}
     \/ /\ Op("resynthesize") /\ UNCHANGED store
        /\ \E ids \in SUBSET Segs \ {{}} : Enqueue(msgs, "transcript", j, {"segment_ids"}, ids)
  /\ UNCHANGED <<db, work, pg, requests, hooked, done, faults>>

-----------------------------------------------------------------------------
Handler(c) ==
  \/ Ack(c) \/ LostChannel(c) \/ SessionBroken(c)
  \/ AnalyzerStart(c) \/ Analyze(c) \/ StoreSegments(c) \/ UpdateJobStage(c)
  \/ PublishTranscript(c)
  \/ SelectSegments(c) \/ SynthesizeSegment(c) \/ UpdateSegmentRecord(c)
  \/ MarkSynthesized(c) \/ PublishAudio(c) \/ SynthesizedEvent(c)
  \/ MuxStart(c) \/ MuxDownload(c) \/ MuxUpload(c) \/ MuxStage(c) \/ PublishDelivery(c)
  \/ DeliveryStart(c) \/ Presign(c) \/ Complete(c) \/ SendWebhooks(c)

Failure(c) ==
  Disconnect(c) \/ Crash(c) \/ CallFails(c) \/ StatementFails(c) \/ ConfirmTimeout(c)

Client(j) ==
  \/ StoreVideo(j) \/ InsertJob(j) \/ PublishIngestion(j) \/ CreateFails(j)
  \/ CompleteUpload(j) \/ UpdateTranscript(j) \/ PublishEdit(j) \/ RegenerateSegment(j)
  \/ ReadJobToDelete(j) \/ DeleteObjects(j) \/ DeleteSegments(j) \/ DeleteRow(j)
  \/ DeleteFails(j) \/ DocumentedMessage(j)

Next ==
  \/ \E c \in Consumers : Deliver(c) \/ Handler(c) \/ Failure(c)
  \/ \E j \in Jobs : Client(j)
  \/ \E i \in MsgIds : Age(i) \/ Expire(i)

\* The consumer loops run and the broker delivers and expires on their own;
\* failures are never owed, and a client owes only the requests it has begun.
Fairness ==
  /\ \A c \in Consumers : WF_vars(Deliver(c)) /\ WF_vars(Handler(c))
  /\ \A j \in Jobs : WF_vars(PublishIngestion(j))
  /\ \A i \in MsgIds : WF_vars(Age(i)) /\ WF_vars(Expire(i))

Spec == Init /\ [][Next]_vars
FairSpec == Spec /\ Fairness

-----------------------------------------------------------------------------
(* Properties.                                                             *)

TypeOK ==
  /\ row \in [Jobs -> [stage: Stages, output: BOOLEAN, url: BOOLEAN]]
  /\ segRows \in [Jobs -> SUBSET Segs]
  /\ voiced \in [Jobs -> SUBSET Segs]
  /\ store \subseteq Objects
  /\ msgs \in [MsgIds -> Msg \cup {Unsent}]
  /\ next \in 1..(MaxMsgs + 1)
  /\ work \in [Consumers -> Work]
  /\ pg \in [Consumers -> {"ok", "aborted", "closed"}]
  /\ create \in [Jobs -> CreatePcs]
  /\ del \in [Jobs -> [pc: DelPcs, out: BOOLEAN]]
  /\ edit \in [Jobs -> SUBSET Segs]
  /\ hooked \in [MsgIds -> Nat]
  /\ done \subseteq Jobs
  /\ faults \in 0..MaxFaults
  /\ ops \in 0..MaxOps

Sent == {i \in MsgIds : msgs[i] # Unsent}
Deleted(j) == del[j].pc = "gone"
Deleting(j) == del[j].pc # "none"

\* Nothing is silently lost.  An accepted job, and the job of every message a
\* worker acknowledged, is completed or deleted or has a message after that one
\* in some queue or dead-letter queue, whatever crashes, lost connections and
\* failed calls the workers meet: a worker acknowledges only when the next
\* queue has its message, or the row is completed.
Covered(j, i) ==
  \/ j \in done \/ Deleted(j)
  \/ \E k \in MsgIds : k > i /\ msgs[k].place \in Live /\ msgs[k].job = j

Accounted ==
  /\ \A j \in Jobs : create[j] = "ok" => Covered(j, 0)
  /\ \A i \in MsgIds : msgs[i].place = "acked" => Covered(msgs[i].job, i)

\* What a finished job offers for download is there: a completed row has its
\* output_file and its download_url, and the object they name is in the bucket
\* unless a DELETE request has been at work on the job.
CompletedHasVideo ==
  \A j \in Jobs :
    /\ row[j].stage = "completed" => row[j].output /\ row[j].url
    /\ row[j].output => Out(j) \in store \/ Deleting(j)

\* A segment row never names an audio object that is not in the bucket, even
\* when handlers of two deliveries of one message run at once or die half way.
AudioPathBacked ==
  \A j \in Jobs : \A i \in voiced[j] : i \in segRows[j] /\ SegAudio(j, i) \in store

\* Work is duplicated only by failures: a job has at most one delivery message
\* per audio message and one more for each fault, and webhooks go out once per
\* delivery message and fault.
Count(j, q) == Cardinality({i \in Sent : msgs[i].job = j /\ msgs[i].queue = q})
DuplicatesNeedFaults ==
  /\ \A j \in Jobs : Count(j, "delivery") <= Count(j, "audio") + faults
  /\ \A i \in MsgIds : hooked[i] <= 1 + faults

\* The mux-service is told of no segment without audio, and a transcript message
\* is acknowledged only once each of its segments has some, although the rows are
\* committed one by one: a statement that fails half way, a spoilt session, a
\* replica that dies or runs on beside its successor never makes a part look whole.
\* Only a DELETE at work on the job takes the rows away.
Announces(i) ==
  \/ msgs[i].queue = "audio" /\ "segments_count" \in msgs[i].fields
  \/ msgs[i].queue = "transcript" /\ "segments" \in msgs[i].fields /\ msgs[i].place = "acked"
AnnouncedIsVoiced ==
  \A i \in Sent : Announces(i) =>
    msgs[i].segs \subseteq voiced[msgs[i].job] \/ Deleting(msgs[i].job)

\* Every message leaves its queue: it is acknowledged or dead-lettered, through
\* finitely many failures, because the delivery limit (quorum) or the message
\* TTL (classic) ends every redelivery loop.
Settles ==
  \A c \in Consumers : CanConsume(c) =>
    \A i \in MsgIds :
      (msgs[i].place \in {"ready", "unacked"} /\ msgs[i].queue = Serves[c])
        ~> msgs[i].place \in {"acked", "dead"}

\* Through fewer failures than the delivery limit, a job named by a documented
\* audio message is completed, or someone began to delete it.
AudioCompletes ==
  \A j \in Jobs :
    (\E i \in MsgIds : msgs[i].place = "ready" /\ msgs[i].job = j /\ "audio_file" \in msgs[i].fields)
      ~> (row[j].stage = "completed" \/ Deleting(j))

=============================================================================
