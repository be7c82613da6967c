# recast-ai: specifications and proofs

recast-ai turns an uploaded screen recording into a narrated one. A gateway takes
uploads and client requests; four workers, chained by RabbitMQ queues, analyse the
video, voice the transcript, mux the audio and deliver the result; they share a
PostgreSQL database, an S3/MinIO bucket and Redis. A browser client uploads, watches,
edits, shares and deletes the jobs. This directory holds the TLA+
modules that model those parts, the TLC configurations that check them on small
instances, and the TLAPS proofs of what holds for every size.

Run inside this directory:

    tlc -workers 2 -config Pipeline_front.cfg MCPipeline
    tlapm PipelineProofs.tla

## 1. Inventory

Each part with its state, its operations, what it talks to and what must be true of it.
`PROJECT.json` repeats the list with the sources and the status of each part, and holds
the list of hazards, each at its line.

| part (source) | state | operations | interacts with | correct when |
|---|---|---|---|---|
| video-analyzer (`services/video-analyzer/main.py`) | the message in hand; one psycopg2 session for the whole process | consume `ingestion.queue`: download, analyse, store segments, set stage, publish, ack | bucket, Gemini, database, `transcript.queue`, Redis events | no message lost, a failed statement does not spoil the session for the next message |
| tts-service (`services/tts-service/main.py`) | as above | consume `transcript.queue`: per segment synthesize, score, rewrite, fit, upload, update the row; then set stage, publish, event, ack | provider, analyzer's rewrite endpoint, bucket, database, `audio.queue` | no row names missing audio; timings match the audio; a bad segment is flagged |
| tts algorithms (`services/tts-service/tts/`) and transcript timing (`analyzer/validator.py`) | none (pure) | word timings, atempo range, score and rewrite loop | - | words ordered and inside their span; best attempt kept |
| mux-service (`cmd/mux-service/main.go`) | the message in hand | consume `audio.queue`: stage, download two files, mux, upload, stage, publish, ack | bucket, database, `delivery.queue` | as above; failures are requeued and still end |
| delivery-service (`cmd/delivery-service/main.go`) | the message in hand | consume `delivery.queue`: stage, presign, complete the row, event, webhooks, ack | database, client webhooks | a completed job has its video; duplicates are bounded |
| queues (`pkg/queue/`) | connection, channel, confirm mode | Publish with confirm, Consume, declare with dead-letter queue, delivery limit or TTL | broker (external) | a nil error means the broker has the message |
| api-gateway jobs, transcript, segments (`internal/gateway/handler/`) | rows and objects | CreateJob, DeleteJob, UpdateTranscript, RegenerateSegment, reads | all stores, `ingestion.queue`, `transcript.queue` | an answered job is queued; deletion leaves no half |
| api-gateway middleware (`internal/gateway/middleware/`) | Redis counter and response cache, cached queue depth | rate limit, idempotency, admission, poll | Redis, broker management API | retries do not duplicate; no client shut out for ever |
| upload-service (`cmd/upload-service/main.go`) | chunk objects, tracker (Redis hash or memory) | chunk, complete, delete, status | bucket, Redis, `ingestion.queue` | the queued video is the whole file, once |
| outbox (`pkg/outbox/outbox.go`) | `job_events` rows | TxPublish, relay tick: claim, publish, mark, count | database, broker | nothing uncommitted published, nothing marked before the broker has it, nothing committed forgotten |
| websocket hub (`internal/gateway/websocket/hub.go`) | clients per job, one Redis subscription per job, two locks, two pumps per client | register, unregister, fan out, shutdown | Redis pub/sub, browsers | no subscription outlives its clients; no event twice to one client; a client of a job has a live subscription |
| accounts and sharing (`handler/auth.go`, `share.go`) | users, tokens | register, login, Google, refresh, share, revoke | database | one user per address and Google id |
| Gemini clients, `pkg/resilience` | attempt counters | retry with back-off | external services | a bounded number of attempts |
| job page (`web/src/app/jobs/[id]/page.tsx`, `lib/ws.ts`, `components/pipeline-progress.tsx`) | status, segments, one socket with its timer and budget, share link, two dialogs | load, follow events, fetch the transcript, share, delete, leave | gateway, hub | one live socket, none after leaving; a status that is stale only after a lost event |
| transcript editor (`editor.tsx`) | texts, baseline, saving | type, save, revert | the job page, gateway | one save at a time; a text without the unsaved mark was stored |
| upload dialog (`components/upload-modal.tsx`) | step, file, voice, probes, uploads, two timers | pick, next, back, create, close, reopen | upload-service through `lib/api.ts` | what is sent is what was reviewed; one upload per opening |
| dashboard (`app/dashboard/page.tsx`, `components/job-card.tsx`) | list, selection, requests under way | fetch, poll, select, delete, share, singly or in bulk | gateway, upload dialog, job page | only deleted jobs lose their card; what was deleted stays away |
| session (`lib/api.ts`, `components/navbar.tsx`, login and register pages) | token in localStorage shared by the tabs, the bar's user | sign in, sign out, 401, storage event | gateway, other tabs | the bar shows the user of the stored token, unless that was put in while signed in |
| settings (`app/settings/page.tsx`) | name with autosave, preferences, sign-out and delete dialog | type, choose, sign out, delete | session, gateway | a save is claimed when confirmed, but for overlapping preferences; a delete is of the confirmed account |
| plumbing, deployment, monitoring, tests | configuration | wiring | - | - |

What makes the system hard is that nothing spans a handler: every SQL statement, object
write, publish and acknowledgement is a commit point of its own, and between any two a
process may die, a channel may be lost under a handler that runs on, a broker confirm
may come too late, or a client request may change the same rows. `helm` runs two
replicas of every service, so a redelivered message may be handled by one replica while
the first handler still runs in another. Python workers reject failed messages to the
dead-letter queue, Go workers requeue them, and on a classic queue nothing but the
message TTL ends that loop. In the client the same holds for every `await`: the component
that asked may be unmounted, reopened, or about something else when the answer comes, and
tabs share one token.

## 2. Plan

Order of work: the most important behaviour first.

1. `Pipeline` - queues, four workers, feeding handlers, shared stores. **Done**, with `PipelineProofs`.
2. `OutboxPromise` and `Outbox` - an abstract promise and the relays that implement it. **Done**, with `OutboxProofs`.
3. `Upload` - the chunk protocol. **Done**, with `UploadProofs`.
4. `Gateway` - the middleware chain around CreateJob. **Done**, with `GatewayProofs`.
5. `Narration` - one segment through the voice loop, with edits. **Done**, with `NarrationProofs`.
6. `Hub` - websocket hub: registration, pumps, slow clients, clean-up, shutdown. **Done**, with `HubProofs`.
7. `JobSocket`, `TranscriptEditor`, composed in `JobPage` - one visit of the job page. **Done**, with `JobPageProofs`.
8. `UploadModal` - the upload dialog. **Done**, with `UploadProofs`.
9. `Dashboard`, extended by `Projects` - the list, and the share and delete dialogs of the job page. **Done**, with `UploadProofs`.
10. `Session`, extended by `Settings` - token, bar, forms, settings. **Done**, with `SettingsProofs`.
11. `Accounts` - check-then-insert of Register and Google linking, refresh and expiry on the gateway's side.
12. `Webhook` and `Retry` - three attempts with 2 s and 4 s pauses, `resilience.Retry`, Gemini polling; attempt bounds as functions checked against a reference.
13. `Queues` - declarations by Go and Python side, reconnects and confirm mode; refined by the broker part of `Pipeline`.
14. `UploadModal` over `Upload` once the two speak one protocol (section 6).

Every invariant and action property of the runs is a theorem of section 7 now. Still worth proving, most important
first: the type invariants of the modules whose theorems do not name theirs, and the planned modules' own.

## 3. How the modules relate to the code

Every module is cut at the same places: one step per SQL statement, object write,
publish, acknowledgement or Redis call, because those are the points between which
another process can act. Reads whose result nothing can invalidate share a step with the
call that follows. A handler is a program counter and its local variables, in one record
per process. A failed call is an action that needs a unit of the fault budget, so a run
enumerates every place where up to that many failures fall. Operators whose comment says
`wrong:` are plausible bugs: each is the mutant form of the definition after it, which
the checks substitute to see that a property notices.

### Pipeline

`row`, `segRows`, `voiced` are the `jobs` and `transcript_segments` tables, `store` the bucket;
`msgs` holds every message ever published, with its place (ready, unacked, dead, acked), its
queue and the payload *keys* it carries. Keys are kept because producers and consumers
disagree about them; values are not. `work[c]` is the handler a consumer runs; its `held`
says whether its channel is still open, so a handler whose connection was dropped goes on
until its next use of the channel. `pg[c]` is the one session of a Python worker.

- Broker (external, as `pkg/queue` and `pika` use it): `Deliver` from the head with prefetch 1,
  `Returned` with the quorum delivery limit, `Age`/`Expire` for the TTL of classic queues.
- Workers: `AnalyzerStart` .. `PublishTranscript`, `SelectSegments` .. `SynthesizedEvent`,
  `MuxStart` .. `PublishDelivery`, `DeliveryStart` .. `SendWebhooks`, then `Ack`. Python workers
  end badly with `Reject` (and the analyzer alone rolls back), Go workers with `Requeue`.
- Failures: `Disconnect`, `Crash`, `CallFails`, `StatementFails`, `ConfirmTimeout`; `SessionBroken`
  is the consequence of an earlier failed statement, not a new fault.
- Clients: `CreateJob` in three steps, `CompleteUpload`, `UpdateTranscript` and
  `RegenerateSegment` with `PublishEdit`, `DeleteJob` in four steps.
- `DocumentedMessage` is a producer outside the code that sends the message formats of the
  documentation. It is there because the gateway's own ingestion messages are refused by
  the analyzer and the tts-service's audio messages by the mux-service (section 6): without
  it the second half of the pipeline would never run. `Ops` says which of these
  operations a run allows.

Webhook attempts, event publishing that is only logged, and presence or shape of
Gemini's answers beyond "some non-empty set of segments" are abstracted.

### OutboxPromise and Outbox

`OutboxPromise` has four sets: committed, delivered, marked, dropped events. `Outbox` has the
rows with their transaction state, how often the broker was handed each event, and each
relay's local batch. `Claim` models the `SELECT .. FOR UPDATE SKIP LOCKED` that runs outside
a transaction: `locked` is what another relay's statement holds at that very moment, and no
lock outlives the step. `Promise!Spec` is checked through the refinement mapping at the end
of the module.

### Upload

One upload; all keys contain its id. An object is the set of chunk indices it consists
of, a client always sends the same bytes for an index. `Documented = TRUE` restricts the
client to the protocol of `docs/api.md` (all chunks, then complete), `FALSE` lets requests
come in any order. The tracker is Redis or the in-memory fallback, which dies with the
process.

### Gateway

The chain of `cmd/api-gateway/main.go` in its order. A `Keys` element is one job a user wants:
an Idempotency-Key together with its body; those in `Small` have a body the cache buffers.
The counter stops one above the limit, where all values are treated alike. A large
upload skips the cache, so `OncePerKey` is stated for small ones.

### Narration

One segment, its row and its audio object, the ready messages about it, two replicas and a
user. Texts are sequences of word lengths; word timings, scaling with round-half-to-even and
the clamps are computed as in `validator.py` and `alignment.py`. A provider's answer is one of
`Voices`: duration, word marks and a coarse score; the score arithmetic is not modelled.

### Hub

One gateway process. `jobs` and `subs` are the two maps of the hub, each behind its own lock; `ps` holds
the PubSub objects with the loops that read them, `cl` the client objects with channel and
connection, `proc[c]` where the goroutines stand that may unregister client `c`: its read pump, its
write pump, and each `go unregister(c)` of a broadcast that found its channel full. A step is
what a goroutine does under one lock or between two channel operations. `broadcast` fetches the
job's map under the lock and walks it outside (`left`), so `Register` may or may not be seen and
the runtime may stop the process for the race (`MapRace`). A second `close` and a send on a closed
channel end the process (`Panic`), as nothing recovers a pump; `Restart` begins its next life. Only
what happens in one life is counted, so the run covers any number of lives.

### JobSocket, TranscriptEditor and JobPage

`JobSocket` has the calls of `connectJobWS`, one per run of the page's effect, each with its socket
state, attempt counter and cleanup. `TranscriptEditor` has what is on screen, the baseline and the saves
under way; the texts of all segments are one value. `JobPage` composes them: an action is one
event handler with the render and the effects it causes, so `Follow` (the effect of
`[id, jobStatus]`) and `Rendered` (mounting or unmounting the editor) are part of each action
that changes the status. The server moves the job along `Path`; only stages in `Heard` reach the
channel the hub listens to. `missed` is a ghost: the last change reached nobody.

### UploadModal

The dialog is mounted as long as the dashboard is, so timers and requests of one opening act in the
next. `handleCreate` is cut at each request; its closure's file and voice are kept in `uploads`.
`Escape` uses the `handleClose` of the render that opened the dialog (`keyGuard`). Openings into which an
earlier one reached are in the ghost `disturbed`.

### Dashboard and Projects

`db` is the server, `list` what is shown. `fetches` are `getJobs` calls with the answer they carry,
`orders` the deletes and shares under way. `Projects` adds the visit of a job page with its delete
confirmation and share dialog: the promises of a page that was left still settle. A link is "current"
while it has the token the job's row has now; after that it is "replaced", by the next share its
page waits for, or "taken", by any other. `Works` is what PublicShare does with it: a current link of a
deleted job is not found either. A share that was sent is handled whether or not its page waits:
one of a page that was left (`Abandoned`) and one that failed for the page (`ShareLost`) stay under way,
and replace the token whenever the gateway gets to them, or never.

### Session and Settings

`Session` is one tab; `Elsewhere` stands for the others, which write the same localStorage and
are heard by a storage event later on. `Unauthorized` is what the request wrapper does on a 401.
`Settings` adds the page in that tab: every step of the session that enters or leaves the page
mounts or unmounts it (`Follows`). Ghosts say what a mark should be compared with: `sure` is what the last
answer confirmed, `late` that a mark is that of an earlier choice, `over` that a token was put in while the
bar was signed in. Answers are those `lib/api.ts` expects.

## 4. Runs

Constants are in the `.cfg` files; `MC*.tla` define the values too long for them.
Deadlock checking is off in every run but `Hub_watchers`, where the process can always restart: each
bound on messages, faults or operations is a place where the model stops and the program would
go on.

| run | question | distinct states |
|---|---|---|
| `Pipeline_front` | analyzer, two tts replicas, edits, regenerations, a DELETE, one failure: does a row name missing audio, is a part announced or acknowledged half voiced? | 1 500 000 |
| `Pipeline_back` | mux and two delivery replicas, classic queues, TTL, one failure, DELETE at any moment: is an accepted job ever lost, does a completed job have its video, are duplicates paid for by faults? | 1 900 000 |
| `Pipeline_live` | quorum queues, one failure, DELETE: does every message leave its queue, does a documented audio message complete its job? | 35 000 |
| `Upload_documented` | two requests at a time, five failures, crashes, expiring tracker: is the queued video whole and queued once, is a refusal deserved, does every upload end? | 215 000 |
| `Gateway_retries` | one small and one large body, two requests at a time, two failures, lost answers or overlaps: is every told id a queued job, are duplicates explained, is every client served? | 975 000 |
| `Outbox_relay` | two relays, two events, three failures: do they implement the promise, are duplicates bounded, is a row given up only for its own failures? | 96 000 |
| `Narration_segment` | two replicas, two texts, five voices, an edit or regeneration, one failure: timings, review flag, best attempt, audio against timings | 1 665 000 |
| `Hub_watchers` | two clients of a job, two subscriptions, one slow-client unregister, two events per life: is a subscription leaked, an event sent twice, a client left deaf without cause? | 1 925 000 |
| `JobPage_visit` | four runs of the socket effect, five stages, two dropped connections, three texts: sockets, status, progress bar, saves | 1 080 000 |
| `UploadModal_dialog` | two openings, two files, two uploads of two chunks: steps, probes, uploads | 1 440 000 |
| `Dashboard_list` | two jobs, one created later, two requests under way of either kind, one failure: list, selection, deletes, links | 783 000 |
| `Settings_tabs` | two users, two tokens, two names, one failure, other tabs: bar, saves, danger zone | 2 341 000 |

Why the bounds are enough. One job suffices in `Pipeline` because rows, objects and
messages of different jobs are never read together; jobs only share the order of a queue,
and a second message of the same job (an edit, an upload, a redelivery) already makes
handlers queue behind each other. Two consumers of one queue are what a redelivery needs to
overlap with its first handler. One fault produces every single failure at every step; five
in `Upload`, because a second message for a file of three chunks takes a failed clean-up of each, of
the tracker, and a 202 that was lost, and three
in `Outbox`, so that both attempts of a row can fail and a relay crash as well. The Upload
instance has three chunks of 1, 2 and 3 bytes with the limit exactly at their sum, so the
off-by-one at the limit is on the path. The Narration scene of 201 ms makes one voice fall
just inside the 1 % band that is left alone (202 ms), one exactly inside the atempo range
(151), one just outside (302), and two empty, one of them with marks; one text has words too short for a whole
millisecond each. Two clients in `Hub` are what a departure and an arrival need to overlap, two subscriptions what an old
loop and its replacement need; a channel of one slot makes the second event find it full. Four effect runs in
`JobPage` let the status change twice and a socket be replaced while its predecessor closes,
and one reconnect per call puts the end of the budget on the path. In `UploadModal` a second opening is all an
earlier timer or upload needs; in `Projects` two requests of a page let a delete and a share, or two
shares, overlap, and one request that no page waits for is enough to outlive a visit (`OneStray`); in `Session` two tokens are an old session and a new one. The proofs of section 7 remove the bounds for what they cover.

### The properties

Related questions are one property with named conjuncts; a type invariant is the first conjunct of
one property of its module.

`Pipeline`: **Accounted** - a job that was accepted, and the job of every acknowledged message,
is completed, deleted, or has a later message waiting, held or dead-lettered. The run checks it where
failures are requeued and a TTL may run out, the theorem `NothingLost` for all workers.
**AudioPathBacked**, **CompletedHasVideo** relate rows to the bucket. **DuplicatesNeedFaults**
charges every extra delivery message and webhook round to a fault. **AnnouncedIsVoiced**:
the rows of a part are voiced one by one, yet no message announces it to the mux-service, and none
is acknowledged, with a row that has no audio, unless a DELETE is at work on the job. **Settles** and **AudioCompletes** are liveness.

`Outbox`: **KeepsPromise** (refinement, liveness included), **DuplicatesBounded**, **GivesUpForCause**.

`Upload`: **QueuedWholeOnce** (`FileIntact`, `OneJobPerUpload`), **RefusedForCause**, **ChunksAccounted**
(`AcknowledgedKept` until the upload ends, `NothingLeftBehind` after), **UploadEnds**. The escape in
`UploadEnds` is real: a service that dies while
it deletes chunks leaves a tracker that names missing objects, and every later complete
answers 500 until the tracker's TTL.

`Gateway`: **Promised**, **OncePerKey**, **ClientServed**. The escape in `ClientServed` is real too: INCR
and EXPIRE are two calls, and a counter without an expiry locks its user out.

`Narration`: **WordsFollow**, **UnflaggedIsGood** (with the best attempt kept), **TimedForItsAudio**.

`Hub`: **NoLeakedSubscription** and **DeafOnlyAfterDeparture** relate the two maps, which are under two
locks: a subscription without clients has a goroutine that will close it, and a client without a
subscription has lost it to another one's departure. Their exceptions are real: `cleanupSub` runs
after the clients' lock was released (hub.go:155), and a client dropped as slow while it is registering leaves
a subscription behind until its own pumps panic. **OncePerClient** holds although two loops may
serve one job for a while.

`JobPage`: **OneLiveSocket** and **GoesQuiet** - cleanups leave nothing behind, whatever state they
find the socket in, and reconnects stay within the budget of a call. **StatusTracks** says when a stale
status is excused. **ChecksOffThePast** is about the
stages without a step, for which `findIndex` answers -1. **CleanMeansStored** is about the saves: one
at a time, and no text loses its mark that the server never had.

`UploadModal`: **FormConsistent** (`StepHasInput`, `ProbesBelong`), **OneUploadPerOpening**, **SentAsReviewed**.

`Projects` and `Dashboard`: **NothingGoneIsOffered** (`SelectionShown`, `DeletedOnPageStaysGone`),
**DropsOnlyDeleted**, **LinkWorks**, **PollingCatchesUp**. `LinkWorks` compares the link shown with what
PublicShare would answer, through late answers, lost ones and pages left: no link is ever
replaced by the next share of its own page. Its exceptions are real (section 6): a deleted job, and
a last share by somebody else, by an earlier visit, or given up and handled late.

`Session` and `Settings`: **BarShowsSession** (`BarTracksToken`, `UserOfSession`), **SaveMarksTrue**
(`AutosaveOfTheEdit`, `SavedIsConfirmed`, `MarkOfTheChoice`), **DeletesTheConfirmed**, **DangerLeaves**.
`UserOfSession` compares the bar with the token stored now, not with the one it asked about; excepted is
a token put in while the bar was signed in. `MarkOfTheChoice` is about the preferences, whose
saves overlap: "Saving" has the newest choice under way, "Saved" stands for the very choice shown,
and no mark hides that the newest is unanswered; excepted is a mark left by an answer to an
earlier choice. Section 6 has both exceptions.

## 5. Fairness

Fairness is weak, per process, and only given to what the code drives on its own:
handlers that have begun (`Handler`, `Relaying`), the broker's delivery and expiry, the tickers
of the relay and of the admission poller, the end of a rate-limit window, and a client that
promised to go on (`Upload`, `Gateway`). In the client it is given to the requests of
the dashboard and of the danger zone (an answer or an error always comes), to close events and
reconnect timers, and to the polling interval; nobody has to click, and `Hub` and `UploadModal` need none. Nothing is owed by a failure, an
edit, a DELETE or the first request of a client. In `Pipeline` `Age` is fair because a
TTL is a clock; in `Pipeline_live` the queues are quorum queues, so redelivery ends by the
delivery limit and not by the clock. `Settles` leaves out consumers that cannot consume: on
quorum queues the Python workers' own declaration is refused (section 6).

## 6. Where documents and code differ

The models follow the code; each of the following is a step or a value in them, or the reason why
something is not modelled.

- `README.md:285`, duplicate messages are dropped silently: no consumer compares `stage_attempt_id`
  with anything, a redelivery sends its webhooks again (`cmd/delivery-service/main.go:136`, `Deliver` and
  `SendWebhooks` in `Pipeline`).
- The analyzer's `README.md:77` names the key `object_key`; the gateway and the upload-service send
  `original_file` (`pkg/models/models.go:128`), so an accepted job is dead-lettered at once.
- `docs/api.md:292`, complete answers once every chunk is present: it assembles what the tracker
  lists (`cmd/upload-service/main.go:334`; `Upload` with `Documented = FALSE` queues a video with a gap).
- `cmd/api-gateway/main.go:164`, retries across a 5xx do not create a second job: only 2xx answers are
  cached, and the row is inserted before the publish that may fail.
- `docs/api.md:237`, an edited segment is voiced with its edit: the rewrite that was under way
  writes its own text over it (`services/tts-service/main.py:394`).

- `pkg/models/models.go:142` has the mux-service read `audio_file` and `original_file`; the
  tts-service's message (`main.py:464`) has `segments_count` instead. `MuxDownload` refuses it.
- `product-spec.md:302` dead-letters after three attempts; Go workers requeue for ever on classic
  queues (`cmd/mux-service/main.go:126`), Python workers dead-letter after one.
- `pkg/queue/queue.go:112` selects quorum queues by configuration; the Python workers redeclare
  the same names as classic queues, which the broker refuses.
- `docs/api.md:198`, objects are purged on DELETE: segment audio and objects of a job still in
  progress stay (`s3KeysForJob`).
- `pkg/outbox/outbox.go:1-10,40-43`, commit order: ids are taken at INSERT, rows are seen at
  COMMIT, and a failed row is overtaken. `:110-112`, relays without overlap: the claim holds no
  lock. `Outbox` models both, and `DuplicatesBounded` says what remains true.
- `docs/architecture.md:202`, webhook back-off 2, 8, 32 s: the code waits 2 and 4 s.
- An edit sets the stage back while workers of earlier messages move it forward. Nothing in
  the code promises that stages only advance, so no property says so.
- The response recorder of `pkg/observability/http_middleware.go:16` is no `Hijacker`, so behind the
  composed gateway no connection is upgraded to a websocket. `Hub` and `JobPage` model what
  both sides do once one is.

The hub:

- Both pumps defer `unregister` (hub.go:143), so every disconnect ends in the second `close` of the client's
  channel and the process panics; `docs/contributing.md:106` allows no panics outside the set-up of `main`.
  `Shutdown` closes the channels the pumps then close again.
- Only the mux- and the delivery-service publish on `job:<id>:events`; the Python services publish on
  `job:<id>`, which nobody reads.

Client and server:

- The gateway has no `/upload/init`, no `/auth/logout`, no writing method on `/auth/me`, PATCH instead of
  PUT on the transcript and GET instead of POST on the export, so those requests of `lib/api.ts` are answered
  404 or 405. The client modules follow what the client expects of an answer and let every request fail.
- The gateway's job has `stage`, the client reads `status`: the page's status is undefined then, and it
  opens no socket and shows no transcript (`AnswersLoad` allows it).

The client on its own:

- `page.tsx:478`, "This panel will light up once the analyzer finishes": nothing polls, so a
  missed event is missed for good. The reconnect budget is never refilled (ws.ts:68). Events queued behind a
  change of status are dropped with the old socket.
- `TRANSCRIPT_STAGES` lacks synthesized, muxed and delivering, so the editor unmounts on the way and
  unsaved edits are lost; what is typed while a save is under way is replaced by its answer; mounting
  the editor sends the transcript back at once (`Mount`), since `saveSignal` is 0 and not undefined; a save
  asked for while another is under way is dropped. The "Saved" mark is cleared by the effect that
  the save itself causes.
- `app/dashboard/page.tsx:260`, "Polite auto-refresh while any job is non-terminal": `NON_TERMINAL_STAGES` lacks
  pending, synthesized, muxed and delivering; a list in which every job is in one of them is not polled.
  `PollingCatchesUp` is stated for what the constant has.
- An older answer of the dashboard may bring a deleted card back or hide a new one until the next poll, if
  there is one. A bulk delete acts on selected cards that the filter hides, and clears a selection made meanwhile.
- A page's delete that is answered after the visitor went elsewhere still takes them to the dashboard
  (page.tsx:206).
- Every share replaces the job's token, so earlier links die (share.go:86); the page keeps its link for
  one visit only, so sharing again on the next visit kills the first link. A share sent by a page that was
  left, or one that failed for the page, may be handled later still and kill the link that a later visit or
  a second try shows. The link of a deleted job answers 404 (share.go:165), while a page of
  the job may still show it.
- In the upload dialog Escape closes and clears a running upload's form, the 50 ms timer clears the form of a
  dialog reopened in time, and an upload that ends late closes a later opening.
- A 401 removes whatever token is stored by then, also a newer one (api.ts:201); a wrong password is a 401
  like any other, so the form's error text is lost in the reload. The bar shows the previous user
  until its question is answered. A token put in while the bar is signed in, by another tab or by the
  sign-in form of this one, leaves `authenticated` true: the effect (navbar.tsx:79) does not ask again, and the
  bar shows the former user until the tab signs out or loads a page anew. Requests of the settings page go out with the token another tab put there.
- Each choice of the preferences is a request of its own and any answer sets the mark
  (settings/page.tsx:693-695): an older success shows "Saved just now" over a newer choice that is unanswered or
  has failed, and an older failure shows an error over one that was saved. The voice filled in
  when the voices load (:655) is shown but sent only with the next choice.
- `upload-modal.tsx:444` passes its progress callback where `uploadChunks` (api.ts:390) takes the parameters,
  so `/upload/init` gets none and the progress shown stays at 0 until the end.
- "Save failed - retry" of the profile is never shown, because the failed name is still dirty and shows as
  saving. Account deletion removes the token and leaves also when the gateway refused. "Sign out
  everywhere" revokes nothing.

## 7. Proofs

`tlapm` checks every leaf; nothing is assumed but the named assumptions of the modules, which
TLC evaluates on every instance.

**PipelineProofs.** `TypeCorrect == Spec => []TypeOK` and `NothingLost == Spec => []Accounted`, for
all sets of jobs and consumers, both queue types and all bounds. Assumptions used:
`ServesAssumption`, `BoundsAssumption`, `QueueTypeAssumption`.

`TypeOK` is not inductive: `Ack` writes to `msgs[work[c].id]`, which must be a published message,
and its job and queue must be those the handler started with. `TypeInv` adds this:
`BrokerOK` (a place is "unsent" exactly from `next` on), `HandlersOK` (a running handler has a
published message of its consumer's queue, and has a segment left inside the tts loop), and
`StoresOK`. The fifty or so actions do only a few things to the broker and to the handlers;
those are named once - `Grows` (no message changes queue or job), `LiveKept`, `NoNewAck`,
`Moves(c)` (one handler moves or ends) - with lemmas that each broker operation has them. A
step lemma per action then says which effects it has, and `HandlersKept` concludes.

`Accounted` is not inductive either: publishing and acknowledging are two steps, and between
them only the handler knows that the next message is there. `AccountedInv` adds `Forwarded` (a
handler past its publish, or past its completion of the row, has its job covered by a later
message) and `CompleteRow` (the row that the delivery-service is about to complete is there
unless the job was deleted meanwhile). `CoverKept` shows that a covered job stays covered
by a step that acknowledges nothing; only `Ack`, `Complete`, `Deliver` and deletion need more.

`AudioStaysBacked == Spec => []AudioPathBacked` strengthens the property with `Uploaded`: a handler that
is about to update a segment row has its object in the bucket. No action but `SynthesizeSegment` leads to
that point and no action removes segment audio, so all steps but four keep both parts for the
same plain reason; the four that write the rows or the handler's position have their own lemma.

`AnnouncedIsVoicedHolds == Spec => []AnnouncedIsVoiced`. The tts-service updates the rows it was sent,
and an UPDATE of a row that is not there changes nothing, so the segments must be followed from where they come from:
a request that edits, an analyzer that is about to publish, and every transcript message with segments name
rows of the table, and a handler that voices has given audio to all it was sent but those left (`VoicedInv`),
each unless a DELETE is at work. `VoiceFlow` is what every step does: rows and audio only grow, messages
keep their text, and a handler that is owed something goes on with it, ends, or (four actions) is shown to be right.

`CompletedJobsHaveVideo == Spec => []CompletedHasVideo`. Here the facts travel along the chain: a
mux handler has stored the object before it names it and named it before it announces it (`MuxOK`),
so the row of every job with a delivery message names its video (`NamedOK`), and only the
delivery-service, which has such a message, completes a row. That a row is not inserted anew under
old messages is `StartedOK`. `Flow` says what any step but the INSERT may do to rows, objects,
requests and messages; `FlowKeeps` needs no more than that.

`DuplicatesNeedFaultsHolds == Spec => []DuplicatesNeedFaults`, for any finite set of consumers
(`ConsumersAssumption`). What is counted is what was published and what may still be: the audio
messages of a job that are waiting or held by a handler that has not yet published (`OpenInv`), and for
the webhooks of one delivery message the handlers that will still send them (`HookInv`). A message returns
to its queue only through a fault, because at most one open channel holds it (`HoldInv`); a handler
whose channel was lost goes on, and that loss is the fault that pays for it.

**OutboxProofs.** `TypeCorrect` and `RelaysKeepPromise == Spec => Promise!Safety`, for any set of
relays, batch size, attempt limit and bounds. The invariant `RelayInv` is `TypeOK` with `IdsFresh`
(ids at and above the sequence are unused and unsent) and `TickOK` (what a relay holds
was committed, though its row may be deleted by now, and a relay about to mark has sent its event). Each
relay step maps to one action of the promise or to a stutter.

`DuplicatesAreBounded == Spec => []DuplicatesBounded` and `GivingUpHasCause == Spec =>
[]GivesUpForCause` hold for any finite set of relays (`RelaysAssumption`, `ConfigAssumption`,
`BoundsAssumption`). Neither bound is inductive, since a publish and the mark that accounts
for it are two steps of a relay. `CountInv` says who may still add to a count. While a row is open,
every publish but the failed ones belongs to a relay that is about to mark it; once it is
marked or deleted no claim can pick it up, so only the relays that still hold it may publish it
once each; and the attempts counted, with those about to be counted, are failures.
`CountMoves` turns the step of one relay into a change of at most one in each of these counts.

**GatewayProofs.** `PromisesKept == Spec => []Promised`, for any requests, keys, limits and bounds
(`KeysAssumption`, `LimitAssumption`, `BoundsAssumption`). `Promised` is not inductive: between the
insert, the publish and the SET of the response cache only the handler knows which row it is
about. `PromiseInv` adds `HandlersOK`: a handler past the insert has a row with its own key, and one
past the publish a row whose message went out. `RowsGrow` - no step takes a key from a row or
a message back - keeps all three parts in every step; `Insert`, which alone fills an empty row,
needs that the marker of an empty row is no key.

`OncePerKeyHolds == Spec => []OncePerKey`, for any finite set of requests (`RequestsAssumption`).
`KeyInv` counts, for each small key, the rows, the running requests that may still insert one, and
the one the client may send when none is running: without a cached response they are at most one more
than faults and overlaps, with one two more, since the next request will be answered from the cache. A
request past the cache is bound to insert, so these are counted apart (`Sure`).

**NarrationProofs.** `UnflaggedIsGoodHolds == Spec => []UnflaggedIsGood` and `TimedForItsAudioHolds ==
Spec => []TimedForItsAudio`, for any texts, voices, replicas and bounds (`TextsAssumption`,
`SceneAssumption`, `VoicesAssumption`, `BoundsAssumption`). Both properties speak of a segment that is
handled to its end, so the invariant says what holds before: a row without a flag is good, or its
segment is `Awaited` - a message waits, an edit is about to be published, a held message will still be
recorded, or one is dead-lettered (`FlagInv`); and the row is timed for the audio, or awaited (`AudioInv`).
No step that leaves the row alone ends the waiting (`Steps`): a message leaves the queue for a replica that
holds it, and is let go only recorded, redelivered or dead-lettered. `Record` writes a flag unless
`FitsItsScene`, the one piece of arithmetic: what atempo need not refuse is within a percent of the scene.
For the audio, as long as no two replicas had the segment at once, the only one at work records what it uploaded.

`WordsFollowHolds == Spec => []WordsFollow` is about what folds compute for every text and every list of
marks. The library's induction rules take an operator and cannot be used, so induction goes by a smallest
counterexample (`SmallestNumber`). `TableExists` shows that the table a fold is defined by exists, for any
step given as a function, and `TableKeeps` that the fold has what its base has and each step keeps; the four folds
(`SumTo`, `EnforceMonotonic`, `SynthesizeWords` and the running end in `Rescale`) are then a step lemma each.
`Following(B)` is the set of word lists in order with all times in B: the validator's steps stay in it
with B the scene (`TimingIn`), rescaled and proportional times are at most the length of the audio
(`RescaleIn`, `ProportionalIn`), and `EnforceMonotonic`, which takes maxima, never leaves a range (`MonoIn`).
The proof showed that the property had claimed too much: marks that come with no audio are not scaled
(`multiplier` is 1.0 for a `final_duration_ms` of 0), so nothing bounds them. The property now says so, and the
instance has such a voice; the segment is flagged then. `VoicesAssumption` only types the marks: they may be
negative, out of order and longer than the audio.

**UploadProofs.** About the client of `docs/api.md` (`Documented`), any finite set of chunks and any
sizes, limits and bounds. `UploadInv` says who may run beside whom: a complete or delete request
runs alone, and no two requests send one chunk. `ChunksAccountedHolds == Spec => []ChunksAccounted`
adds `CleanInv`: while nothing has failed, a stored chunk is in the tracker or its request is
about to record it, and a closing request takes store and tracker down together.
`RefusedForCauseHolds == Spec => []RefusedForCause` also supposes `Indices # {}` (a file with no chunk
is refused with "no chunks recorded for upload", rightly), and needs that the fold `Bytes` grows with its set: a
chunk more adds its size (`Adds`), proved for finite sets by taking a smallest counterexample, as
the library's induction rules cannot be instantiated. `QueuedWholeOnceHolds == Spec =>
[]QueuedWholeOnce` supposes `Tracker = "redis"`: the memory tracker forgets what was accepted, and
TLC shows then a video with a gap. `FileInv` keeps the whole file in tracker or final object;
`CountInv` charges a second message to the failures: one for each chunk still in the store, one for the
tracker, one for the 202. This proof corrected the property, which had claimed two failures whatever
the size of the file; the code needs |file| + 2.

The same module has the page one uploads from. The dialog: `FormConsistentHolds`, `OneUploadPerOpeningHolds` and
`SentAsReviewedHolds`, of `ModalSpec`, for any bounds and kinds of probes (`ModalAssumption`). `DialogInv` adds to the properties that
a closing timer belongs to an opening that is over (`OpeningsOK`), that a probe under way is of the file in the
form (`ProbesOK`), that the service has exactly the chunks sent while an upload runs (`SendingFits`), and that the
button of the present opening is held by whatever upload it has, as long as nothing of an earlier opening came into it
(`ButtonHeld`): without it a second upload of one opening would be possible in the induction.
The dashboard: `NothingGoneIsOfferedHolds`, `LinkWorksHolds` and `DropsOnlyDeletedHolds`, of `ProjectsSpec`, for any jobs,
number of requests and path of stages; `PathAssumption` says that a path is a non-empty sequence of `JobStage` values, so
that "deleted" is none. A job is `Gone` when the server has deleted it, the list does not have it and no answer
under way does; no step brings it back (`GoneStays`), because leaving or mounting the dashboard forgets the answers
under way. What a delete reports as done is deleted (`OrdersOK`), which is what `DropsOnlyDeleted` needs of a step.
For the links: a page waits for one share at most, with no link shown (`LinksOK`), so that what it shows or is
about to show can only be replaced by a share it does not wait for.

**HubProofs.** `NoLeakedSubscriptionHolds`, `DeafOnlyAfterDepartureHolds` and `OncePerClientHolds`, for
any clients, jobs, subscriptions and buffer sizes (`HubAssumption`, `NoneAssumption`, and
`SlowAssumption`: the goroutines of a broadcast are not the pumps). `HubInv` ties the two maps to the goroutines: who is
in a map, or in one that is being walked, is a client of that job; an open subscription is the one its job
has; and a goroutine that took its client out of the map has departed. `Tended` says that a
subscription without clients has somebody who will close it or bring the process down; `Served`,
that a served client has lost its subscription only to a departure. `StreamInv` is about the
events: two subscriptions of a job hold none in common, because only the open one is reached by a
publish, and what a client was sent is nowhere held for it any more. Most steps are `Calm` (the pumps)
or `Looping` (the subscription loops) and keep everything for that reason alone.

**JobPageProofs.** `OneLiveSocketHolds`, `StatusTracksHolds`, `CleanMeansStoredHolds`, for any path of
stages, bounds and number of calls (`PathAssumption`, `SocketAssumption`, `DropsAssumption`, `TextAssumption`).
`LineInv` describes the sockets: a closed call has nothing to come, only the current one
may be open, what waits in an inbox are stages the job has passed, and unless a change was missed the
last of them is the server's stage (`TrackInv`). `TextInv` describes the editor: every baseline and
every answer is a text the server has had, and a mounted editor that is not saving has no request
under way. `ChecksOffThePastHolds` supposes `StepsInOrder`, that the steps of the bar come on the job's
path in their order, which is what the checked path of stages has and what the workers' order of
stages gives; it concludes for every such path, although `findIndex` answers -1 for the stages without a step.

**SettingsProofs.** `BarShowsSessionHolds`, `SaveMarksTrueHolds` (with the type invariant of session and
page) and `DeletesTheConfirmedHolds`, for any users and bounds (`NoneAssumption`, `TokensAssumption`,
`SettingsAssumption`). `SessionInv`: a bar that asks, asks about its own session only (`asked` holds at most
the last token, the effect's cleanup having aborted the rest), so no late answer can be about another,
and that last token is the stored one unless one was put in over it (`AsksOf`), which every step that
writes the storage has to show;
tokens are never taken back, which lets facts about an owner outlive new sign-ins. `PageInv`: while the
token the page was loaded with is still stored, the user shown is its owner (`UserOK`); `CallOK` says
what every request carries and, while somebody listens, that an awaited name is the edit shown and an
awaited delete is of the account confirmed. `PrefsGood` says of the preferences that at most one
request is of the newest choice and carries the choice shown, so its answer makes the mark true. The ways of going somewhere (`PushesInv`, `LoadsInv`) are
proved once, and so is the effect that saves the name (`AutosaveInv`).
While proving it a guard of `Visit` was found to be parsed as part of the implication after it; the
only behaviour this had added was a step to the page one is on, which changes nothing.

Only model-checked: all liveness (`Settles`, `AudioCompletes`, `UploadEnds`, `ClientServed`,
`GoesQuiet`, `PollingCatchesUp`, `DangerLeaves`, the liveness part of `KeepsPromise`), which is out of the
prover's reach. All other properties of the runs are theorems. Three of them suppose more than the
run's specification: `RefusedForCauseHolds` a file with a chunk, `QueuedWholeOnceHolds` the Redis
tracker, `ChecksOffThePastHolds` the order of the steps, each for the reason given above.

## 8. Not modelled

- `DeleteShare`, which no page calls (`unshareJob` has no caller).
- The gateway's account handlers, webhook attempts, retry helpers and queue declaration: planned (section 2).
- In the client: rendering, formatting, the video player, search and filter, menus, the export button, regeneration
  from the editor, the preview of a voice (it never plays: `previewVoice` returns a string whose `.url` is
  read), and the public page of a shared job, which only reads. The toaster
  and the hotkey hooks are called by no page; the overlay of shortcuts only opens and closes.
- Read-only handlers (ListJobs, GetJob, GetTranscript, status, export, voices): they change
  nothing. Token signing, password hashing: cryptography.
- Gemini prompts and answers, ffmpeg filters, audio decoding, quality score arithmetic: their
  outcomes are nondeterministic choices where a property depends on them.
- Wiring, configuration, metrics, tracing, helm charts, dashboards.
