--------------------------- MODULE PipelineProofs ---------------------------
(***************************************************************************)
(* Theorems about Pipeline, for every value of its constants: any number   *)
(* of jobs, segments and consumers, any routing of consumers to queues,    *)
(* any bound on messages and faults.                                       *)
(*                                                                         *)
(* TypeInv, the type invariant, is proved through the effect of a step on  *)
(* two halves of the state: Grows says what a step does to the messages    *)
(* and Moves(c) what a step of consumer c does to the handlers.  Then:     *)
(* no message is lost, and what the workers leave behind: the audio a      *)
(* segment row names, the audio an announced part has, the video a         *)
(* completed row names, and how often a message is passed on.              *)
(***************************************************************************)
EXTENDS Pipeline, FiniteSetTheorems, TLAPS

USE ServesAssumption, BoundsAssumption, QueueTypeAssumption

-----------------------------------------------------------------------------
(* The invariant.                                                          *)

\* The ids below next are exactly the messages that were published.
BrokerOK ==
  /\ msgs \in [MsgIds -> Msg \cup {Unsent}]
  /\ next \in 1..(MaxMsgs + 1)
  /\ \A i \in MsgIds : msgs[i].place = "unsent" <=> i >= next

\* A running handler has a published message of the queue its consumer reads,
\* and at the two inner steps of the tts loop a segment is left.
HandlerOK(c) ==
  /\ work[c].pc # "idle" =>
       /\ work[c].id \in MsgIds /\ work[c].id < next
       /\ msgs[work[c].id].queue = Serves[c]
  /\ work[c].held => work[c].pc # "idle"
  /\ work[c].pc \in {"synth", "record"} => work[c].todo # {}

HandlersOK ==
  /\ work \in [Consumers -> Work]
  /\ \A c \in Consumers : HandlerOK(c)

RowType == [stage: Stages, output: BOOLEAN, url: BOOLEAN]

StoresOK ==
  /\ row \in [Jobs -> RowType]
  /\ segRows \in [Jobs -> SUBSET Segs]
  /\ voiced \in [Jobs -> SUBSET Segs]
  /\ store \subseteq Objects
  /\ pg \in [Consumers -> {"ok", "aborted", "closed"}]
  /\ create \in [Jobs -> CreatePcs]
  /\ del \in [Jobs -> [pc: DelPcs, out: BOOLEAN]]
  /\ edit \in [Jobs -> SUBSET Segs]
  /\ hooked \in [MsgIds -> Nat]
  /\ done \subseteq Jobs
  /\ faults \in 0..MaxFaults
  /\ ops \in 0..MaxOps

TypeInv == BrokerOK /\ HandlersOK /\ StoresOK

LEMMA TypeInvGivesTypeOK == TypeInv => TypeOK
  BY DEF TypeInv, TypeOK, BrokerOK, HandlersOK, StoresOK, RowType

LEMMA InitTypeInv == Init => TypeInv
  BY DEF Init, TypeInv, BrokerOK, HandlersOK, HandlerOK, StoresOK, RowType, Stages, Idle,
         Work, Pcs, CreatePcs, DelPcs, MsgIds, Unsent

\* What a message below next is, and what a running handler works on.
LEMMA SentIsMsg ==
  ASSUME BrokerOK, NEW i \in MsgIds, i < next
  PROVE  msgs[i] \in Msg
  BY DEF BrokerOK, Unsent, MsgIds

LEMMA HandlerFacts ==
  ASSUME BrokerOK, HandlersOK, NEW c \in Consumers, work[c].pc # "idle"
  PROVE  /\ work[c].id \in MsgIds /\ work[c].id < next
         /\ msgs[work[c].id] \in Msg
         /\ JobOf(c) \in Jobs
         /\ work[c].segs \in SUBSET Segs
         /\ work[c].todo \in SUBSET Segs
         /\ msgs[work[c].id].segs \in SUBSET Segs
  <1>1. work[c].id \in MsgIds /\ work[c].id < next /\ work[c] \in Work
    BY DEF HandlersOK, HandlerOK
  <1>2. msgs[work[c].id] \in Msg
    BY <1>1, SentIsMsg
  <1> QED BY <1>1, <1>2 DEF Msg, Work, JobOf

-----------------------------------------------------------------------------
(* What a step does to the messages.                                       *)

\* Messages keep their queue and job, and ids are never reused.
Grows ==
  /\ BrokerOK'
  /\ next <= next'
  /\ \A i \in MsgIds : i < next =>
       msgs'[i].queue = msgs[i].queue /\ msgs'[i].job = msgs[i].job

\* A message that is waiting, held or dead-lettered stays so.
LiveKept ==
  \A i \in MsgIds : msgs[i].place \in Live => msgs'[i].place \in Live

\* No message becomes acknowledged.
NoNewAck ==
  \A i \in MsgIds : msgs'[i].place = "acked" => msgs[i].place = "acked"

MsgsKept == Grows /\ LiveKept /\ NoNewAck

LEMMA SameEffect ==
  ASSUME BrokerOK, UNCHANGED <<msgs, next>>
  PROVE  MsgsKept
  BY DEF MsgsKept, Grows, LiveKept, NoNewAck, BrokerOK, MsgIds

LEMMA AtFacts ==
  ASSUME BrokerOK, NEW i \in MsgIds, i < next, NEW p \in Places
  PROVE  /\ At(i, p) \in [MsgIds -> Msg \cup {Unsent}]
         /\ At(i, p)[i].place = p
         /\ At(i, p)[i].queue = msgs[i].queue
         /\ At(i, p)[i].job = msgs[i].job
         /\ \A k \in MsgIds : k # i => At(i, p)[k] = msgs[k]
  <1>1. msgs[i] \in Msg BY SentIsMsg
  <1>2. At(i, p)[i] = [msgs[i] EXCEPT !.place = p]
    BY DEF At, BrokerOK
  <1>3. [msgs[i] EXCEPT !.place = p] \in Msg
    BY <1>1 DEF Msg
  <1>4. /\ [msgs[i] EXCEPT !.place = p].place = p
        /\ [msgs[i] EXCEPT !.place = p].queue = msgs[i].queue
        /\ [msgs[i] EXCEPT !.place = p].job = msgs[i].job
    BY <1>1 DEF Msg
  <1>5. /\ At(i, p) \in [MsgIds -> Msg \cup {Unsent}]
        /\ \A k \in MsgIds : k # i => At(i, p)[k] = msgs[k]
    BY <1>2, <1>3 DEF At, BrokerOK
  <1> QED BY <1>2, <1>4, <1>5

\* A step that changes one published message and not its queue or job.
LEMMA OneMessage ==
  ASSUME BrokerOK, NEW i \in MsgIds, i < next, next' = next,
         msgs' \in [MsgIds -> Msg \cup {Unsent}],
         msgs'[i].place \in Places,
         msgs'[i].queue = msgs[i].queue, msgs'[i].job = msgs[i].job,
         \A k \in MsgIds : k # i => msgs'[k] = msgs[k]
  PROVE  /\ Grows
         /\ msgs'[i].place \in Live \cup {msgs[i].place} => LiveKept
         /\ msgs'[i].place \in Live \cup {msgs[i].place} => NoNewAck
  <1>1. BrokerOK'
    BY DEF BrokerOK, Places, MsgIds
  <1>2. Grows
    BY <1>1 DEF Grows, BrokerOK
  <1> QED BY <1>2 DEF LiveKept, NoNewAck, Live

LEMMA AtEffect ==
  ASSUME BrokerOK, NEW i \in MsgIds, i < next, NEW p \in Places,
         msgs' = At(i, p), next' = next
  PROVE  Grows /\ (p \in Live => LiveKept /\ NoNewAck)
  BY AtFacts, OneMessage

LEMMA ReturnedIsAt ==
  ASSUME NEW i
  PROVE  \E p \in {"ready", "dead"} : Returned(i) = At(i, p)
  BY DEF Returned

LEMMA ReturnedEffect ==
  ASSUME BrokerOK, NEW i \in MsgIds, i < next, msgs' = Returned(i), next' = next
  PROVE  MsgsKept
  BY AtEffect, ReturnedIsAt DEF MsgsKept, Places, Live

\* A publish: the new message is the last one, live, and of the job given.
Published(q, j) ==
  /\ next \in MsgIds /\ next' = next + 1
  /\ msgs'[next].place \in Live /\ msgs'[next].job = j /\ msgs'[next].queue = q

LEMMA EnqueueOnto ==
  ASSUME BrokerOK,
         NEW ms \in [MsgIds -> Msg \cup {Unsent}],
         \A i \in MsgIds : /\ ms[i].queue = msgs[i].queue \/ i >= next
                           /\ ms[i].job = msgs[i].job \/ i >= next
                           /\ ms[i].place = "unsent" <=> i >= next
                           /\ msgs[i].place \in Live => ms[i].place \in Live
                           /\ ms[i].place = "acked" => msgs[i].place = "acked",
         NEW q \in Queues, NEW j \in Jobs,
         NEW fields \in SUBSET Fields, NEW segs \in SUBSET Segs,
         Enqueue(ms, q, j, fields, segs)
  PROVE  MsgsKept /\ Published(q, j)
  <1>1. NewMsg(q, j, fields, segs) \in Msg BY DEF NewMsg, Msg, Places
  <1>2. /\ next \in MsgIds /\ next' = next + 1
        /\ msgs' \in [MsgIds -> Msg \cup {Unsent}]
        /\ msgs'[next] = NewMsg(q, j, fields, segs)
        /\ \A i \in MsgIds : i # next => msgs'[i] = ms[i]
    BY <1>1 DEF Enqueue
  <1>3. /\ msgs'[next].place = "ready" /\ msgs'[next].job = j /\ msgs'[next].queue = q
    BY <1>2 DEF NewMsg
  <1>4. \A i \in MsgIds : msgs'[i].place = "unsent" <=> i >= next'
    BY <1>2, <1>3 DEF MsgIds, BrokerOK
  <1>5. BrokerOK'
    BY <1>2, <1>4 DEF BrokerOK, MsgIds
  <1>6. LiveKept /\ NoNewAck
    BY <1>2, <1>3 DEF LiveKept, NoNewAck, Live
  <1> QED BY <1>2, <1>3, <1>5, <1>6 DEF MsgsKept, Grows, Published, Live, MsgIds, BrokerOK

LEMMA EnqueueEffect ==
  ASSUME BrokerOK, NEW q \in Queues, NEW j \in Jobs,
         NEW fields \in SUBSET Fields, NEW segs \in SUBSET Segs,
         Enqueue(msgs, q, j, fields, segs)
  PROVE  MsgsKept /\ Published(q, j)
  <1>1. msgs \in [MsgIds -> Msg \cup {Unsent}] BY DEF BrokerOK
  <1>2. \A i \in MsgIds : msgs[i].place = "unsent" <=> i >= next BY DEF BrokerOK
  <1> QED BY <1>1, <1>2, EnqueueOnto

LEMMA EnqueueReturnedEffect ==
  ASSUME BrokerOK, NEW i \in MsgIds, i < next, NEW q \in Queues, NEW j \in Jobs,
         NEW fields \in SUBSET Fields, NEW segs \in SUBSET Segs,
         Enqueue(Returned(i), q, j, fields, segs)
  PROVE  MsgsKept /\ Published(q, j)
  <1>1. PICK p \in {"ready", "dead"} : Returned(i) = At(i, p) BY ReturnedIsAt
  <1>3. /\ At(i, p) \in [MsgIds -> Msg \cup {Unsent}]
        /\ At(i, p)[i].place = p
        /\ At(i, p)[i].queue = msgs[i].queue /\ At(i, p)[i].job = msgs[i].job
        /\ \A k \in MsgIds : k # i => At(i, p)[k] = msgs[k]
    BY AtFacts DEF Places
  <1>4. \A k \in MsgIds : /\ At(i, p)[k].queue = msgs[k].queue
                          /\ At(i, p)[k].job = msgs[k].job
                          /\ At(i, p)[k].place = "unsent" <=> k >= next
                          /\ msgs[k].place \in Live => At(i, p)[k].place \in Live
                          /\ At(i, p)[k].place = "acked" => msgs[k].place = "acked"
    BY <1>3 DEF BrokerOK, Live, MsgIds
  <1> QED BY <1>1, <1>3, <1>4, EnqueueOnto

-----------------------------------------------------------------------------
(* What a step does to the handlers.                                       *)

\* Only c's handler moves; it ends, or goes on with the message it has.
Moves(c) ==
  /\ work' \in [Consumers -> Work]
  /\ \A d \in Consumers : d # c => work'[d] = work[d]
  /\ work'[c].pc # "idle" => work[c].pc # "idle" /\ work'[c].id = work[c].id
  /\ work'[c].held => work'[c].pc # "idle"
  /\ work'[c].pc \in {"synth", "record"} => work'[c].todo # {}

LEMMA ReleaseMoves ==
  ASSUME HandlersOK, NEW c \in Consumers, Release(c)
  PROVE  Moves(c) /\ work'[c].pc = "idle"
  BY DEF HandlersOK, Release, Moves, Idle, Work, Pcs

LEMMA GotoMoves ==
  ASSUME HandlersOK, NEW c \in Consumers, work[c].pc # "idle",
         NEW p \in Pcs \ {"idle", "synth", "record"}, Goto(c, p)
  PROVE  Moves(c) /\ work'[c].pc = p
  <1>1. work'[c] = [work[c] EXCEPT !.pc = p] BY DEF HandlersOK, Goto
  <1>2. work'[c] \in Work /\ work'[c].pc = p /\ work'[c].id = work[c].id
    BY <1>1 DEF HandlersOK, Work
  <1> QED BY <1>1, <1>2 DEF HandlersOK, Goto, Moves

LEMMA HandlersKept ==
  ASSUME HandlersOK, Grows, NEW c \in Consumers, Moves(c), BrokerOK
  PROVE  HandlersOK'
  <1>1. work' \in [Consumers -> Work] BY DEF Moves
  <1>2. ASSUME NEW d \in Consumers PROVE HandlerOK(d)'
    <2>1. CASE d = c
      BY <2>1 DEF Moves, HandlersOK, HandlerOK, Grows, BrokerOK, MsgIds
    <2>2. CASE d # c
      BY <2>2 DEF Moves, HandlersOK, HandlerOK, Grows, BrokerOK, MsgIds
    <2> QED BY <2>1, <2>2
  <1> QED BY <1>1, <1>2 DEF HandlersOK

LEMMA HandlersSame ==
  ASSUME HandlersOK, Grows, BrokerOK, work' = work
  PROVE  HandlersOK'
  <1>1. ASSUME NEW d \in Consumers PROVE HandlerOK(d)'
    BY DEF HandlersOK, HandlerOK, Grows, BrokerOK, MsgIds
  <1> QED BY <1>1 DEF HandlersOK

\* The two ways a handler gives up.
LEMMA RejectEffect ==
  ASSUME BrokerOK, HandlersOK, NEW c \in Consumers, work[c].pc # "idle",
         Reject(c), next' = next
  PROVE  MsgsKept /\ Moves(c) /\ work'[c].pc = "idle"
  <1>1. Moves(c) /\ work'[c].pc = "idle" BY ReleaseMoves DEF Reject
  <1>2. work[c].id \in MsgIds /\ work[c].id < next BY HandlerFacts
  <1> QED BY <1>1, <1>2, AtEffect, SameEffect DEF MsgsKept, Reject, Places, Live

LEMMA RequeueEffect ==
  ASSUME BrokerOK, HandlersOK, NEW c \in Consumers, work[c].pc # "idle",
         Requeue(c), next' = next
  PROVE  MsgsKept /\ Moves(c) /\ work'[c].pc = "idle"
  <1>1. Moves(c) /\ work'[c].pc = "idle" BY ReleaseMoves DEF Requeue
  <1>2. work[c].id \in MsgIds /\ work[c].id < next BY HandlerFacts
  <1> QED BY <1>1, <1>2, ReturnedEffect, SameEffect DEF Requeue

-----------------------------------------------------------------------------
(* The steps of a consumer.                                                *)

Covers(c) == Covered(JobOf(c), work[c].id)

\* The steps a handler reaches only when its message has been passed on.
Past == {"ack", "event", "webhook"}

\* A row goes only when its job is deleted, and a job is accepted only with
\* its first message published.
StoresKept ==
  /\ StoresOK'
  /\ done \subseteq done'
  /\ \A j \in Jobs :
       /\ Deleted(j) => Deleted(j)'
       /\ Exists(j) => Exists(j)' \/ Deleted(j)'
       /\ create'[j] = "ok" => create[j] = "ok" \/ Covered(j, 0)'

\* What every step of a consumer does, acknowledging apart.
StepOK(c) ==
  /\ MsgsKept
  /\ Moves(c)
  /\ StoresKept
  /\ work'[c].pc \in Past => work[c].pc \in Past \/ Covers(c)'
  /\ work'[c].pc = "complete" => work[c].pc = "complete" \/ Exists(JobOf(c))

LEMMA StoresSame ==
  ASSUME StoresOK, UNCHANGED <<row, segRows, voiced, store, pg, create, del, edit, hooked,
                               done, faults, ops>>
  PROVE  StoresKept
  BY DEF StoresOK, StoresKept, Exists, Deleted

LEMMA SetStageKeeps ==
  ASSUME StoresOK, NEW j \in Jobs, NEW s \in Stages \ {"absent"}, SetStage(j, s)
  PROVE  /\ row' \in [Jobs -> RowType]
         /\ \A k \in Jobs : Exists(k) => Exists(k)'
  BY DEF StoresOK, SetStage, RowType, Exists

\* A step that writes rows and nothing else of the stores.
LEMMA RowWritten ==
  ASSUME StoresOK, row' \in [Jobs -> RowType], \A k \in Jobs : Exists(k) => Exists(k)',
         UNCHANGED <<segRows, voiced, store, pg, create, del, edit, hooked, done, faults, ops>>
  PROVE  StoresKept
  <1>1. StoresOK'
    BY DEF StoresOK
  <1> QED BY <1>1 DEF StoresKept, Deleted

LEMMA ObjectsType ==
  ASSUME NEW j \in Jobs
  PROVE  /\ Raw(j) \in Objects /\ Track(j) \in Objects /\ Out(j) \in Objects
         /\ \A i \in Segs : SegAudio(j, i) \in Objects
  BY DEF SegAudio, Raw, Out, Track, Objects

\* A handler that has published has its job covered.
LEMMA PublishCovers ==
  ASSUME TypeInv, NEW c \in Consumers, work[c].pc # "idle",
         NEW q \in Queues, Published(q, JobOf(c)), Moves(c), work'[c].pc # "idle", Grows
  PROVE  Covers(c)'
  <1>1. work[c].id \in MsgIds /\ work[c].id < next
    BY HandlerFacts DEF TypeInv
  <1>2. work'[c].id = work[c].id /\ msgs'[work[c].id].job = msgs[work[c].id].job
    BY <1>1 DEF Moves, Grows
  <1> QED BY <1>1, <1>2 DEF Covers, Covered, JobOf, Published

LEMMA LostChannelStep ==
  ASSUME TypeInv, NEW c \in Consumers, LostChannel(c)
  PROVE  StepOK(c)
  <1>1. /\ work[c].pc = "publish"
        /\ BrokerOK /\ HandlersOK /\ StoresOK
    BY DEF LostChannel, TypeInv
  <1>2. MsgsKept /\ Moves(c) /\ work'[c].pc = "idle"
    BY <1>1, ReleaseMoves, SameEffect DEF LostChannel, broker
  <1>3. StoresKept
    BY <1>1, StoresSame DEF LostChannel, db, requests
  <1> QED BY <1>1, <1>2, <1>3 DEF StepOK, Past

LEMMA SessionBrokenStep ==
  ASSUME TypeInv, NEW c \in Consumers, SessionBroken(c)
  PROVE  StepOK(c)
  <1>1. /\ work[c].pc # "idle"
        /\ BrokerOK /\ HandlersOK /\ StoresOK
    BY DEF SessionBroken, Queries, TypeInv
  <1>2. MsgsKept /\ Moves(c) /\ work'[c].pc = "idle"
    BY <1>1, RejectEffect DEF SessionBroken, broker
  <1>3. StoresKept
    BY <1>1, TypeInvGivesTypeOK DEF SessionBroken, RolledBack, StoresOK, StoresKept, Exists, Deleted, db, requests
  <1> QED BY <1>1, <1>2, <1>3 DEF StepOK, Past

LEMMA AnalyzerStartStep ==
  ASSUME TypeInv, NEW c \in Consumers, AnalyzerStart(c)
  PROVE  StepOK(c)
  <1>1. /\ work[c].pc = "start"
        /\ BrokerOK /\ HandlersOK /\ StoresOK
    BY DEF AnalyzerStart, AtStep, TypeInv
  <1>2. MsgsKept /\ Moves(c) /\ work'[c].pc \in {"idle", "analyze"}
    BY <1>1, GotoMoves, SameEffect, RejectEffect DEF AnalyzerStart, Pcs
  <1>3. StoresKept
    BY <1>1, StoresSame DEF AnalyzerStart, db, requests
  <1> QED BY <1>1, <1>2, <1>3 DEF StepOK, Past

LEMMA AnalyzeStep ==
  ASSUME TypeInv, NEW c \in Consumers, Analyze(c)
  PROVE  StepOK(c)
  <1>1. /\ work[c].pc = "analyze"
        /\ BrokerOK /\ HandlersOK /\ StoresOK
    BY DEF Analyze, AtStep, TypeInv
  <1>2. PICK found \in SUBSET Segs : work' = [work EXCEPT ![c].pc = "store", ![c].segs = found]
    BY DEF Analyze
  <1>3. work \in [Consumers -> Work] BY <1>1 DEF HandlersOK
  <1>4. work' \in [Consumers -> Work] /\ \A d \in Consumers : d # c => work'[d] = work[d]
    <2>1. [work[c] EXCEPT !.pc = "store", !.segs = found] \in Work
      BY <1>2, <1>3 DEF Work, Pcs
    <2> QED BY <1>2, <1>3, <2>1
  <1>5. work'[c].pc = "store" /\ work'[c].id = work[c].id
    BY <1>2, <1>3 DEF Work
  <1>m. Moves(c)
    BY <1>1, <1>4, <1>5 DEF Moves
  <1>6. MsgsKept
    BY <1>1, SameEffect DEF Analyze, broker
  <1>7. StoresKept
    BY <1>1, StoresSame DEF Analyze, db, requests
  <1> QED BY <1>1, <1>5, <1>m, <1>6, <1>7 DEF StepOK, Past

LEMMA StoreSegmentsStep ==
  ASSUME TypeInv, NEW c \in Consumers, StoreSegments(c)
  PROVE  StepOK(c)
  <1>1. /\ work[c].pc = "store"
        /\ BrokerOK /\ HandlersOK /\ StoresOK
    BY DEF StoreSegments, AtStep, TypeInv
  <1>2. MsgsKept /\ Moves(c) /\ work'[c].pc \in {"idle", "stage"}
    BY <1>1, GotoMoves, SameEffect, RejectEffect DEF StoreSegments, Pcs
  <1>3. StoresKept
    BY <1>1, HandlerFacts DEF StoreSegments, StoresOK, StoresKept, Exists, Deleted, requests
  <1> QED BY <1>1, <1>2, <1>3 DEF StepOK, Past

LEMMA UpdateJobStageStep ==
  ASSUME TypeInv, NEW c \in Consumers, UpdateJobStage(c)
  PROVE  StepOK(c)
  <1>1. /\ work[c].pc = "stage"
        /\ BrokerOK /\ HandlersOK /\ StoresOK
    BY DEF UpdateJobStage, AtStep, TypeInv
  <1>2. MsgsKept /\ Moves(c) /\ work'[c].pc = "publish"
    BY <1>1, GotoMoves, SameEffect DEF UpdateJobStage, broker, Pcs
  <1>s. JobOf(c) \in Jobs
    BY <1>1, HandlerFacts
  <1>r. row' \in [Jobs -> RowType] /\ \A k \in Jobs : Exists(k) => Exists(k)'
    BY <1>1, <1>s, SetStageKeeps DEF UpdateJobStage, Stages
  <1>3. StoresKept
    BY <1>1, <1>r, RowWritten DEF UpdateJobStage, requests
  <1> QED BY <1>1, <1>2, <1>3 DEF StepOK, Past

LEMMA PublishTranscriptStep ==
  ASSUME TypeInv, NEW c \in Consumers, PublishTranscript(c)
  PROVE  StepOK(c)
  <1>1. /\ work[c].pc = "publish"
        /\ BrokerOK /\ HandlersOK /\ StoresOK
    BY DEF PublishTranscript, AtStep, TypeInv
  <1>p. MsgsKept /\ Published("transcript", JobOf(c))
    BY <1>1, HandlerFacts, EnqueueEffect DEF PublishTranscript, Queues, Fields
  <1>2. MsgsKept /\ Moves(c) /\ work'[c].pc = "ack"
    BY <1>1, <1>p, GotoMoves DEF PublishTranscript, Pcs
  <1>3. StoresKept
    BY <1>1, StoresSame DEF PublishTranscript, db, requests
  <1> QED BY <1>1, <1>2, <1>3, <1>p, PublishCovers DEF StepOK, Past, Queues, MsgsKept

LEMMA SelectSegmentsStep ==
  ASSUME TypeInv, NEW c \in Consumers, SelectSegments(c)
  PROVE  StepOK(c)
  <1>1. /\ work[c].pc = "start"
        /\ BrokerOK /\ HandlersOK /\ StoresOK
    BY DEF SelectSegments, AtStep, TypeInv
  <1> DEFINE chosen == IF Regenerates(c) THEN msgs[work[c].id].segs \cap segRows[JobOf(c)]
                                         ELSE msgs[work[c].id].segs
  <1>2. StoresKept
    BY <1>1, StoresSame DEF SelectSegments, db, requests
  <1>3. CASE chosen # {}
    <2>1. chosen \in SUBSET Segs /\ work \in [Consumers -> Work]
      BY <1>1, HandlerFacts DEF HandlersOK
    <2>2. /\ work' = [work EXCEPT ![c].pc = "synth", ![c].todo = chosen, ![c].segs = chosen]
          /\ UNCHANGED <<msgs, next>>
      BY <1>3 DEF SelectSegments
    <2> HIDE DEF chosen
    <2>w. /\ work'[c] = [work[c] EXCEPT !.pc = "synth", !.todo = chosen, !.segs = chosen]
          /\ work[c] \in Work
      BY <2>1, <2>2
    <2>t. work'[c] \in Work
      BY <2>1, <2>w DEF Work, Pcs
    <2>3. work' \in [Consumers -> Work] /\ \A d \in Consumers : d # c => work'[d] = work[d]
      BY <2>1, <2>2, <2>t
    <2>4. work'[c].pc = "synth" /\ work'[c].id = work[c].id /\ work'[c].todo = chosen
      BY <2>1, <2>2 DEF Work
    <2>5. Moves(c)
      BY <1>1, <1>3, <2>3, <2>4 DEF Moves
    <2>6. MsgsKept
      BY <1>1, <2>2, SameEffect
    <2> QED BY <1>1, <1>2, <2>4, <2>5, <2>6 DEF StepOK, Past
  <1>4. CASE chosen = {}
    <2>1. Reject(c) /\ next' = next
      BY <1>4 DEF SelectSegments
    <2>2. MsgsKept /\ Moves(c) /\ work'[c].pc = "idle"
      BY <1>1, <2>1, RejectEffect
    <2> QED BY <1>1, <1>2, <2>2 DEF StepOK, Past
  <1> QED BY <1>3, <1>4

LEMMA SynthesizeSegmentStep ==
  ASSUME TypeInv, NEW c \in Consumers, SynthesizeSegment(c)
  PROVE  StepOK(c)
  <1>1. /\ work[c].pc = "synth"
        /\ BrokerOK /\ HandlersOK /\ StoresOK
    BY DEF SynthesizeSegment, AtStep, TypeInv
  <1>2. /\ work \in [Consumers -> Work]
        /\ work[c].todo # {} /\ work[c].todo \in SUBSET Segs
    BY <1>1 DEF HandlersOK, HandlerOK, Work
  <1>3. Current(c) \in Segs
    BY <1>2 DEF Current
  <1>g. Goto(c, "record")
    BY DEF SynthesizeSegment
  <1>4. work' \in [Consumers -> Work] /\ \A d \in Consumers : d # c => work'[d] = work[d]
    BY <1>2, <1>g DEF Goto, Work, Pcs
  <1>5. work'[c].pc = "record" /\ work'[c].id = work[c].id /\ work'[c].todo = work[c].todo
    BY <1>2, <1>g DEF Goto, Work
  <1>m. Moves(c)
    BY <1>1, <1>2, <1>4, <1>5 DEF Moves
  <1>6. MsgsKept
    BY <1>1, SameEffect DEF SynthesizeSegment, broker
  <1>7. StoresKept
    BY <1>1, <1>3, HandlerFacts, ObjectsType
    DEF SynthesizeSegment, StoresOK, StoresKept, Exists, Deleted, db, requests
  <1> QED BY <1>1, <1>5, <1>m, <1>6, <1>7 DEF StepOK, Past

LEMMA UpdateSegmentRecordStep ==
  ASSUME TypeInv, NEW c \in Consumers, UpdateSegmentRecord(c)
  PROVE  StepOK(c)
  <1>1. /\ work[c].pc = "record"
        /\ BrokerOK /\ HandlersOK /\ StoresOK
    BY DEF UpdateSegmentRecord, AtStep, TypeInv
  <1> DEFINE left == work[c].todo \ {Current(c)}
             p == IF left # {} THEN "synth"
                  ELSE IF Regenerates(c) THEN "publish" ELSE "stage"
  <1>2. /\ work \in [Consumers -> Work]
        /\ work[c].todo # {} /\ work[c].todo \in SUBSET Segs
    BY <1>1 DEF HandlersOK, HandlerOK, Work
  <1>3. Current(c) \in Segs
    BY <1>2 DEF Current
  <1>4. work' = [work EXCEPT ![c].todo = left, ![c].pc = p]
    BY DEF UpdateSegmentRecord
  <1>p. /\ p \in Pcs /\ p \notin {"idle", "record", "complete"} \cup Past
        /\ p = "synth" => left # {}
        /\ left \in SUBSET Segs
    BY <1>2 DEF Pcs, Past
  <1> HIDE DEF left, p
  <1>w. work'[c] = [work[c] EXCEPT !.todo = left, !.pc = p] /\ work[c] \in Work
    BY <1>2, <1>4
  <1>t. work'[c] \in Work
    BY <1>w, <1>p DEF Work
  <1>5. work' \in [Consumers -> Work] /\ \A d \in Consumers : d # c => work'[d] = work[d]
    BY <1>2, <1>4, <1>t
  <1>u. work'[c].pc = p /\ work'[c].id = work[c].id /\ work'[c].todo = left
    BY <1>2, <1>4, <1>p DEF Work
  <1>m. Moves(c)
    BY <1>1, <1>5, <1>u, <1>p DEF Moves
  <1>6. MsgsKept
    BY <1>1, SameEffect DEF UpdateSegmentRecord, broker
  <1>7. StoresKept
    <2>1. voiced' \in [Jobs -> SUBSET Segs]
      BY <1>1, <1>3, HandlerFacts DEF UpdateSegmentRecord, StoresOK
    <2> QED BY <1>1, <2>1 DEF UpdateSegmentRecord, StoresOK, StoresKept, Exists, Deleted, requests
  <1> QED BY <1>1, <1>p, <1>u, <1>m, <1>6, <1>7 DEF StepOK

LEMMA MarkSynthesizedStep ==
  ASSUME TypeInv, NEW c \in Consumers, MarkSynthesized(c)
  PROVE  StepOK(c)
  <1>1. /\ work[c].pc = "stage"
        /\ BrokerOK /\ HandlersOK /\ StoresOK
    BY DEF MarkSynthesized, AtStep, TypeInv
  <1>2. MsgsKept /\ Moves(c) /\ work'[c].pc = "publish"
    BY <1>1, GotoMoves, SameEffect DEF MarkSynthesized, broker, Pcs
  <1>s. JobOf(c) \in Jobs
    BY <1>1, HandlerFacts
  <1>r. row' \in [Jobs -> RowType] /\ \A k \in Jobs : Exists(k) => Exists(k)'
    BY <1>1, <1>s, SetStageKeeps DEF MarkSynthesized, Stages
  <1>3. StoresKept
    BY <1>1, <1>r, RowWritten DEF MarkSynthesized, requests
  <1> QED BY <1>1, <1>2, <1>3 DEF StepOK, Past

LEMMA PublishAudioStep ==
  ASSUME TypeInv, NEW c \in Consumers, PublishAudio(c)
  PROVE  StepOK(c)
  <1>1. /\ work[c].pc = "publish"
        /\ BrokerOK /\ HandlersOK /\ StoresOK
    BY DEF PublishAudio, AtStep, TypeInv
  <1>p. MsgsKept /\ Published("audio", JobOf(c))
    BY <1>1, HandlerFacts, EnqueueEffect DEF PublishAudio, Queues, Fields
  <1>2. MsgsKept /\ Moves(c) /\ work'[c].pc \in {"ack", "event"}
    BY <1>1, <1>p, GotoMoves DEF PublishAudio, Pcs
  <1>3. StoresKept
    BY <1>1, StoresSame DEF PublishAudio, db, requests
  <1> QED BY <1>1, <1>2, <1>3, <1>p, PublishCovers DEF StepOK, Past, Queues, MsgsKept

LEMMA SynthesizedEventStep ==
  ASSUME TypeInv, NEW c \in Consumers, SynthesizedEvent(c)
  PROVE  StepOK(c)
  <1>1. /\ work[c].pc = "event"
        /\ BrokerOK /\ HandlersOK /\ StoresOK
    BY DEF SynthesizedEvent, AtStep, TypeInv
  <1>2. MsgsKept /\ Moves(c) /\ work'[c].pc = "ack"
    BY <1>1, GotoMoves, SameEffect DEF SynthesizedEvent, broker, Pcs
  <1>3. StoresKept
    BY <1>1, StoresSame DEF SynthesizedEvent, db, requests
  <1> QED BY <1>1, <1>2, <1>3 DEF StepOK, Past

LEMMA MuxStartStep ==
  ASSUME TypeInv, NEW c \in Consumers, MuxStart(c)
  PROVE  StepOK(c)
  <1>1. /\ work[c].pc = "start"
        /\ BrokerOK /\ HandlersOK /\ StoresOK
    BY DEF MuxStart, AtStep, TypeInv
  <1>2. MsgsKept /\ Moves(c) /\ work'[c].pc = "download"
    BY <1>1, GotoMoves, SameEffect DEF MuxStart, broker, Pcs
  <1>s. JobOf(c) \in Jobs
    BY <1>1, HandlerFacts
  <1>r. row' \in [Jobs -> RowType] /\ \A k \in Jobs : Exists(k) => Exists(k)'
    BY <1>1, <1>s, SetStageKeeps DEF MuxStart, Stages
  <1>3. StoresKept
    BY <1>1, <1>r, RowWritten DEF MuxStart, requests
  <1> QED BY <1>1, <1>2, <1>3 DEF StepOK, Past

LEMMA MuxDownloadStep ==
  ASSUME TypeInv, NEW c \in Consumers, MuxDownload(c)
  PROVE  StepOK(c)
  <1>1. /\ work[c].pc = "download"
        /\ BrokerOK /\ HandlersOK /\ StoresOK
    BY DEF MuxDownload, AtStep, TypeInv
  <1>2. MsgsKept /\ Moves(c) /\ work'[c].pc \in {"idle", "upload"}
    BY <1>1, GotoMoves, SameEffect, RequeueEffect DEF MuxDownload, Pcs
  <1>3. StoresKept
    BY <1>1, StoresSame DEF MuxDownload, db, requests
  <1> QED BY <1>1, <1>2, <1>3 DEF StepOK, Past

LEMMA MuxUploadStep ==
  ASSUME TypeInv, NEW c \in Consumers, MuxUpload(c)
  PROVE  StepOK(c)
  <1>1. /\ work[c].pc = "upload"
        /\ BrokerOK /\ HandlersOK /\ StoresOK
    BY DEF MuxUpload, AtStep, TypeInv
  <1>2. MsgsKept /\ Moves(c) /\ work'[c].pc = "stage"
    BY <1>1, GotoMoves, SameEffect DEF MuxUpload, broker, Pcs
  <1>3. StoresKept
    BY <1>1, HandlerFacts, ObjectsType DEF MuxUpload, StoresOK, StoresKept, Exists, Deleted, db, requests
  <1> QED BY <1>1, <1>2, <1>3 DEF StepOK, Past

LEMMA MuxStageStep ==
  ASSUME TypeInv, NEW c \in Consumers, MuxStage(c)
  PROVE  StepOK(c)
  <1>1. /\ work[c].pc = "stage"
        /\ BrokerOK /\ HandlersOK /\ StoresOK
    BY DEF MuxStage, AtStep, TypeInv
  <1>2. MsgsKept /\ Moves(c) /\ work'[c].pc = "publish"
    BY <1>1, GotoMoves, SameEffect DEF MuxStage, broker, Pcs
  <1>3. row' \in [Jobs -> RowType] /\ \A k \in Jobs : Exists(k) => Exists(k)'
    <2>1. row \in [Jobs -> RowType] /\ JobOf(c) \in Jobs
      BY <1>1, HandlerFacts DEF StoresOK
    <2> QED BY <2>1 DEF MuxStage, RowType, Stages, Exists
  <1>4. StoresKept
    BY <1>1, <1>3, RowWritten DEF MuxStage, requests
  <1> QED BY <1>1, <1>2, <1>4 DEF StepOK, Past

LEMMA PublishDeliveryStep ==
  ASSUME TypeInv, NEW c \in Consumers, PublishDelivery(c)
  PROVE  StepOK(c)
  <1>1. /\ work[c].pc = "publish"
        /\ BrokerOK /\ HandlersOK /\ StoresOK
    BY DEF PublishDelivery, AtStep, TypeInv
  <1>2. StoresKept
    BY <1>1, StoresSame DEF PublishDelivery, db, requests
  <1>3. CASE Exists(JobOf(c))
    <2>1. MsgsKept /\ Published("delivery", JobOf(c))
      BY <1>1, <1>3, HandlerFacts, EnqueueEffect DEF PublishDelivery, Queues, Fields
    <2>2. Moves(c) /\ work'[c].pc = "ack"
      BY <1>1, <1>3, GotoMoves DEF PublishDelivery, Pcs
    <2>3. Covers(c)'
      BY <1>1, <2>1, <2>2, PublishCovers DEF Queues, MsgsKept
    <2> QED BY <1>2, <2>1, <2>2, <2>3 DEF StepOK
  <1>4. CASE ~Exists(JobOf(c))
    <2>1. MsgsKept /\ Moves(c) /\ work'[c].pc = "idle"
      BY <1>1, <1>4, RequeueEffect DEF PublishDelivery
    <2> QED BY <1>2, <2>1 DEF StepOK, Past
  <1> QED BY <1>3, <1>4

LEMMA ConfirmTimeoutStep ==
  ASSUME TypeInv, NEW c \in Consumers, ConfirmTimeout(c)
  PROVE  StepOK(c)
  <1>1. /\ work[c].pc = "publish"
        /\ BrokerOK /\ HandlersOK /\ StoresOK
    BY DEF ConfirmTimeout, AtStep, TypeInv
  <1>2. MsgsKept /\ Moves(c) /\ work'[c].pc = "idle"
    BY <1>1, HandlerFacts, EnqueueReturnedEffect, ReleaseMoves DEF ConfirmTimeout, Queues, Fields
  <1>3. StoresKept
    BY <1>1, TypeInvGivesTypeOK DEF ConfirmTimeout, Fault, StoresOK, StoresKept, Exists, Deleted, db, requests
  <1> QED BY <1>1, <1>2, <1>3 DEF StepOK, Past

LEMMA DeliveryStartStep ==
  ASSUME TypeInv, NEW c \in Consumers, DeliveryStart(c)
  PROVE  StepOK(c)
  <1>1. /\ work[c].pc = "start"
        /\ BrokerOK /\ HandlersOK /\ StoresOK
    BY DEF DeliveryStart, AtStep, TypeInv
  <1>2. MsgsKept /\ Moves(c) /\ work'[c].pc = "presign"
    BY <1>1, GotoMoves, SameEffect DEF DeliveryStart, broker, Pcs
  <1>s. JobOf(c) \in Jobs
    BY <1>1, HandlerFacts
  <1>r. row' \in [Jobs -> RowType] /\ \A k \in Jobs : Exists(k) => Exists(k)'
    BY <1>1, <1>s, SetStageKeeps DEF DeliveryStart, Stages
  <1>3. StoresKept
    BY <1>1, <1>r, RowWritten DEF DeliveryStart, requests
  <1> QED BY <1>1, <1>2, <1>3 DEF StepOK, Past

LEMMA PresignStep ==
  ASSUME TypeInv, NEW c \in Consumers, Presign(c)
  PROVE  StepOK(c)
  <1>1. /\ work[c].pc = "presign"
        /\ BrokerOK /\ HandlersOK /\ StoresOK
    BY DEF Presign, AtStep, TypeInv
  <1>2. StoresKept
    BY <1>1, StoresSame DEF Presign, db, requests
  <1>3. CASE Exists(JobOf(c))
    <2>1. MsgsKept /\ Moves(c) /\ work'[c].pc = "complete"
      BY <1>1, <1>3, GotoMoves, SameEffect DEF Presign, Pcs
    <2> QED BY <1>2, <1>3, <2>1 DEF StepOK, Past
  <1>4. CASE ~Exists(JobOf(c))
    <2>1. MsgsKept /\ Moves(c) /\ work'[c].pc = "idle"
      BY <1>1, <1>4, RequeueEffect DEF Presign
    <2> QED BY <1>2, <2>1 DEF StepOK, Past
  <1> QED BY <1>3, <1>4

LEMMA SendWebhooksStep ==
  ASSUME TypeInv, NEW c \in Consumers, SendWebhooks(c)
  PROVE  StepOK(c)
  <1>1. /\ work[c].pc = "webhook"
        /\ BrokerOK /\ HandlersOK /\ StoresOK
    BY DEF SendWebhooks, AtStep, TypeInv
  <1>2. MsgsKept /\ Moves(c) /\ work'[c].pc = "ack"
    BY <1>1, GotoMoves, SameEffect DEF SendWebhooks, broker, Pcs
  <1>3. StoresKept
    BY <1>1, HandlerFacts DEF SendWebhooks, StoresOK, StoresKept, Exists, Deleted, db, requests
  <1> QED BY <1>1, <1>2, <1>3 DEF StepOK, Past

LEMMA CallFailsStep ==
  ASSUME TypeInv, NEW c \in Consumers, CallFails(c)
  PROVE  StepOK(c)
  <1>1. /\ work[c].pc # "idle"
        /\ BrokerOK /\ HandlersOK /\ StoresOK
    BY DEF CallFails, CallPcs, TypeInv
  <1>2. MsgsKept /\ Moves(c) /\ work'[c].pc = "idle"
    BY <1>1, RejectEffect, RequeueEffect DEF CallFails, StepOK
  <1>3. StoresKept
    BY <1>1, TypeInvGivesTypeOK DEF CallFails, Fault, RolledBack, StoresOK, StoresKept, Exists, Deleted, db, requests
  <1> QED BY <1>1, <1>2, <1>3 DEF StepOK, Past

LEMMA StatementFailsStep ==
  ASSUME TypeInv, NEW c \in Consumers, StatementFails(c)
  PROVE  StepOK(c)
  <1>1. /\ work[c].pc # "idle"
        /\ BrokerOK /\ HandlersOK /\ StoresOK
    BY DEF StatementFails, Queries, TypeInv
  <1>2. MsgsKept /\ Moves(c) /\ work'[c].pc = "idle"
    BY <1>1, RejectEffect, RequeueEffect DEF StatementFails, StepOK
  <1>3. StoresKept
    BY <1>1, TypeInvGivesTypeOK DEF StatementFails, Fault, RolledBack, StoresOK, StoresKept, Exists, Deleted, db, requests
  <1> QED BY <1>1, <1>2, <1>3 DEF StepOK, Past

LEMMA DisconnectStep ==
  ASSUME TypeInv, NEW c \in Consumers, Disconnect(c)
  PROVE  StepOK(c)
  <1>1. /\ work[c].pc # "idle"
        /\ BrokerOK /\ HandlersOK /\ StoresOK
    BY DEF Disconnect, TypeInv, HandlersOK, HandlerOK
  <1>2. MsgsKept
    BY <1>1, HandlerFacts, ReturnedEffect DEF Disconnect
  <1>3. work \in [Consumers -> Work] /\ work' = [work EXCEPT ![c].held = FALSE]
    BY <1>1 DEF Disconnect, HandlersOK
  <1>4. work' \in [Consumers -> Work] /\ \A d \in Consumers : d # c => work'[d] = work[d]
    BY <1>3 DEF Work
  <1>5. /\ work'[c].pc = work[c].pc /\ work'[c].id = work[c].id
        /\ work'[c].todo = work[c].todo /\ ~work'[c].held
    BY <1>3 DEF Work
  <1>6. Moves(c)
    BY <1>1, <1>4, <1>5 DEF Moves, HandlersOK, HandlerOK
  <1>7. StoresKept
    BY <1>1 DEF Disconnect, Fault, StoresOK, StoresKept, Exists, Deleted, db, requests
  <1> QED BY <1>2, <1>5, <1>6, <1>7 DEF StepOK

LEMMA CrashStep ==
  ASSUME TypeInv, NEW c \in Consumers, Crash(c)
  PROVE  StepOK(c)
  <1>1. BrokerOK /\ HandlersOK /\ StoresOK
    BY DEF TypeInv
  <1>2. work[c].held => work[c].pc # "idle"
    BY <1>1 DEF HandlersOK, HandlerOK
  <1>3. MsgsKept
    BY <1>1, <1>2, HandlerFacts, ReturnedEffect, SameEffect DEF Crash
  <1>4. Moves(c) /\ work'[c].pc = "idle"
    BY <1>1, ReleaseMoves DEF Crash
  <1>5. StoresKept
    BY <1>1 DEF Crash, Fault, StoresOK, StoresKept, Exists, Deleted, db, requests
  <1> QED BY <1>3, <1>4, <1>5 DEF StepOK, Past

-----------------------------------------------------------------------------
(* The steps that move no handler.                                         *)

QuietOK == MsgsKept /\ StoresKept /\ UNCHANGED work

LEMMA StutterStep ==
  ASSUME TypeInv, UNCHANGED vars
  PROVE  QuietOK
  <1>1. BrokerOK /\ StoresOK BY DEF TypeInv
  <1> QED BY <1>1, SameEffect, StoresSame DEF QuietOK, vars

LEMMA AgeStep ==
  ASSUME TypeInv, NEW i \in MsgIds, Age(i)
  PROVE  QuietOK
  <1>1. BrokerOK /\ StoresOK BY DEF TypeInv
  <1>2. StoresKept /\ UNCHANGED <<next, work>>
    BY <1>1, StoresSame DEF Age, db, requests
  <1>3. i < next
    BY <1>1 DEF Age, BrokerOK, MsgIds
  <1>4. msgs[i] \in Msg
    BY <1>1, <1>3, SentIsMsg
  <1>5. /\ msgs'[i] = [msgs[i] EXCEPT !.old = TRUE]
        /\ \A k \in MsgIds : k # i => msgs'[k] = msgs[k]
    BY <1>1 DEF Age, BrokerOK
  <1>6. msgs'[i] \in Msg
    BY <1>4, <1>5 DEF Msg
  <1>7. /\ msgs'[i].place = msgs[i].place
        /\ msgs'[i].queue = msgs[i].queue /\ msgs'[i].job = msgs[i].job
    BY <1>4, <1>5 DEF Msg
  <1>8. msgs' \in [MsgIds -> Msg \cup {Unsent}]
    BY <1>1, <1>6 DEF Age, BrokerOK
  <1>9. MsgsKept
    BY <1>1, <1>2, <1>3, <1>4, <1>5, <1>7, <1>8, OneMessage DEF MsgsKept, Msg
  <1> QED BY <1>2, <1>9 DEF QuietOK

LEMMA ExpireStep ==
  ASSUME TypeInv, NEW i \in MsgIds, Expire(i)
  PROVE  QuietOK
  <1>1. BrokerOK /\ StoresOK BY DEF TypeInv
  <1>2. StoresKept /\ UNCHANGED <<next, work>>
    BY <1>1, StoresSame DEF Expire, db, requests
  <1>3. i < next
    BY <1>1 DEF Expire, BrokerOK, MsgIds
  <1>4. MsgsKept
    BY <1>1, <1>2, <1>3, AtEffect DEF Expire, Places, Live, MsgsKept
  <1> QED BY <1>2, <1>4 DEF QuietOK

LEMMA CreateFailsStep ==
  ASSUME TypeInv, NEW j \in Jobs, CreateFails(j)
  PROVE  QuietOK
  <1>1. BrokerOK /\ StoresOK BY DEF TypeInv
  <1>2. MsgsKept /\ UNCHANGED work
    BY <1>1, SameEffect DEF CreateFails, broker
  <1>3. StoresKept
    BY <1>1 DEF CreateFails, Fault, CreatePcs, db, StoresOK, StoresKept, Exists, Deleted
  <1> QED BY <1>2, <1>3 DEF QuietOK

LEMMA StoreVideoStep ==
  ASSUME TypeInv, NEW j \in Jobs, StoreVideo(j)
  PROVE  QuietOK
  <1>1. BrokerOK /\ StoresOK BY DEF TypeInv
  <1>2. MsgsKept /\ UNCHANGED work
    BY <1>1, SameEffect DEF StoreVideo, broker
  <1>3. StoresKept
    BY <1>1, ObjectsType DEF StoreVideo, CreateStep, CreatePcs, db, StoresOK, StoresKept, Exists, Deleted
  <1> QED BY <1>2, <1>3 DEF QuietOK

LEMMA InsertJobStep ==
  ASSUME TypeInv, NEW j \in Jobs, InsertJob(j)
  PROVE  QuietOK
  <1>1. BrokerOK /\ StoresOK BY DEF TypeInv
  <1>2. MsgsKept /\ UNCHANGED work
    BY <1>1, SameEffect DEF InsertJob, broker
  <1>3. StoresKept
    <2>1. row' \in [Jobs -> RowType] /\ \A k \in Jobs : Exists(k) => Exists(k)'
      BY <1>1 DEF InsertJob, RowType, Stages, Exists, StoresOK
    <2>2. create' \in [Jobs -> CreatePcs] /\ \A k \in Jobs : create'[k] = "ok" => create[k] = "ok"
      BY <1>1 DEF InsertJob, CreateStep, CreatePcs, StoresOK
    <2>3. UNCHANGED <<segRows, voiced, store, pg, del, edit, hooked, done, faults, ops>>
      BY DEF InsertJob
    <2>4. StoresOK'
      BY <1>1, <2>1, <2>2, <2>3 DEF StoresOK
    <2> QED BY <2>1, <2>2, <2>3, <2>4 DEF StoresKept, Deleted
  <1> QED BY <1>2, <1>3 DEF QuietOK

\* A published message covers its job.
LEMMA PublishedCovers ==
  ASSUME NEW q, NEW j, Published(q, j)
  PROVE  Covered(j, 0)'
  BY DEF Published, Covered, MsgIds

LEMMA PublishIngestionStep ==
  ASSUME TypeInv, NEW j \in Jobs, PublishIngestion(j)
  PROVE  QuietOK
  <1>1. BrokerOK /\ StoresOK BY DEF TypeInv
  <1>2. MsgsKept /\ Published("ingestion", j) /\ UNCHANGED work
    BY <1>1, EnqueueEffect DEF PublishIngestion, Queues, Fields
  <1>3. Covered(j, 0)'
    BY <1>2, PublishedCovers
  <1>4. StoresKept
    BY <1>1, <1>3 DEF PublishIngestion, CreateStep, Fault, CreatePcs, db, StoresOK, StoresKept,
                      Exists, Deleted
  <1> QED BY <1>2, <1>4 DEF QuietOK

LEMMA CompleteUploadStep ==
  ASSUME TypeInv, NEW j \in Jobs, CompleteUpload(j)
  PROVE  QuietOK
  <1>1. BrokerOK /\ StoresOK BY DEF TypeInv
  <1>2. MsgsKept /\ Published("ingestion", j) /\ UNCHANGED work
    BY <1>1, EnqueueEffect DEF CompleteUpload, Queues, Fields
  <1>3. Covered(j, 0)'
    BY <1>2, PublishedCovers
  <1>4. create' \in [Jobs -> CreatePcs] /\ \A k \in Jobs : k # j => create'[k] = create[k]
    BY <1>1 DEF CompleteUpload, CreateStep, CreatePcs, StoresOK
  <1>5. store' \subseteq Objects
    BY <1>1, ObjectsType DEF CompleteUpload, StoresOK
  <1>6. faults' \in 0..MaxFaults /\ ops' \in 0..MaxOps
    BY <1>1 DEF CompleteUpload, Op, Fault, StoresOK
  <1>7. StoresKept
    BY <1>1, <1>3, <1>4, <1>5, <1>6
    DEF CompleteUpload, db, StoresOK, StoresKept, Exists, Deleted
  <1> QED BY <1>2, <1>7 DEF QuietOK

LEMMA UpdateTranscriptStep ==
  ASSUME TypeInv, NEW j \in Jobs, UpdateTranscript(j)
  PROVE  QuietOK
  <1>1. BrokerOK /\ StoresOK BY DEF TypeInv
  <1>2. MsgsKept /\ UNCHANGED work
    BY <1>1, SameEffect DEF UpdateTranscript, broker
  <1>3. row' \in [Jobs -> RowType] /\ \A k \in Jobs : Exists(k) => Exists(k)'
    BY <1>1, SetStageKeeps DEF UpdateTranscript, Stages, StoresOK, Exists
  <1>4. StoresKept
    BY <1>1, <1>3 DEF UpdateTranscript, Op, Fault, StoresOK, StoresKept, Deleted
  <1> QED BY <1>2, <1>4 DEF QuietOK

LEMMA PublishEditStep ==
  ASSUME TypeInv, NEW j \in Jobs, PublishEdit(j)
  PROVE  QuietOK
  <1>1. BrokerOK /\ StoresOK /\ edit[j] \in SUBSET Segs
    BY DEF TypeInv, StoresOK
  <1>2. MsgsKept /\ UNCHANGED work
    BY <1>1, EnqueueEffect, SameEffect DEF PublishEdit, Queues, Fields, broker
  <1>3. StoresKept
    BY <1>1 DEF PublishEdit, Fault, db, StoresOK, StoresKept, Exists, Deleted
  <1> QED BY <1>2, <1>3 DEF QuietOK

LEMMA RegenerateSegmentStep ==
  ASSUME TypeInv, NEW j \in Jobs, RegenerateSegment(j)
  PROVE  QuietOK
  <1>1. BrokerOK /\ StoresOK BY DEF TypeInv
  <1>2. MsgsKept /\ UNCHANGED work
    BY <1>1, SameEffect DEF RegenerateSegment, broker
  <1>3. StoresKept
    BY <1>1 DEF RegenerateSegment, Op, db, StoresOK, StoresKept, Exists, Deleted
  <1> QED BY <1>2, <1>3 DEF QuietOK

LEMMA ReadJobToDeleteStep ==
  ASSUME TypeInv, NEW j \in Jobs, ReadJobToDelete(j)
  PROVE  QuietOK
  <1>1. BrokerOK /\ StoresOK BY DEF TypeInv
  <1>2. MsgsKept /\ UNCHANGED work
    BY <1>1, SameEffect DEF ReadJobToDelete, broker
  <1>3. StoresKept
    BY <1>1 DEF ReadJobToDelete, Op, DelPcs, RowType, db, StoresOK, StoresKept, Exists, Deleted
  <1> QED BY <1>2, <1>3 DEF QuietOK

LEMMA DeleteObjectsStep ==
  ASSUME TypeInv, NEW j \in Jobs, DeleteObjects(j)
  PROVE  QuietOK
  <1>1. BrokerOK /\ StoresOK BY DEF TypeInv
  <1>2. MsgsKept /\ UNCHANGED work
    BY <1>1, SameEffect DEF DeleteObjects, broker
  <1>3. StoresKept
    BY <1>1 DEF DeleteObjects, Fault, DelPcs, db, StoresOK, StoresKept, Exists, Deleted
  <1> QED BY <1>2, <1>3 DEF QuietOK

LEMMA DeleteSegmentsStep ==
  ASSUME TypeInv, NEW j \in Jobs, DeleteSegments(j)
  PROVE  QuietOK
  <1>1. BrokerOK /\ StoresOK BY DEF TypeInv
  <1>2. MsgsKept /\ UNCHANGED work
    BY <1>1, SameEffect DEF DeleteSegments, broker
  <1>3. StoresKept
    BY <1>1 DEF DeleteSegments, DelPcs, StoresOK, StoresKept, Exists, Deleted
  <1> QED BY <1>2, <1>3 DEF QuietOK

LEMMA DeleteRowStep ==
  ASSUME TypeInv, NEW j \in Jobs, DeleteRow(j)
  PROVE  QuietOK
  <1>1. BrokerOK /\ StoresOK BY DEF TypeInv
  <1>2. MsgsKept /\ UNCHANGED work
    BY <1>1, SameEffect DEF DeleteRow, broker
  <1>3. StoresKept
    BY <1>1 DEF DeleteRow, DelPcs, RowType, Stages, StoresOK, StoresKept, Exists, Deleted
  <1> QED BY <1>2, <1>3 DEF QuietOK

LEMMA DeleteFailsStep ==
  ASSUME TypeInv, NEW j \in Jobs, DeleteFails(j)
  PROVE  QuietOK
  <1>1. BrokerOK /\ StoresOK BY DEF TypeInv
  <1>2. MsgsKept /\ UNCHANGED work
    BY <1>1, SameEffect DEF DeleteFails, broker
  <1>3. StoresKept
    BY <1>1 DEF DeleteFails, Fault, DelPcs, db, StoresOK, StoresKept, Exists, Deleted
  <1> QED BY <1>2, <1>3 DEF QuietOK

LEMMA DocumentedMessageStep ==
  ASSUME TypeInv, NEW j \in Jobs, DocumentedMessage(j)
  PROVE  QuietOK
  <1>1. BrokerOK /\ StoresOK BY DEF TypeInv
  <1>2. MsgsKept /\ UNCHANGED work
    BY <1>1, EnqueueEffect DEF DocumentedMessage, Queues, Fields
  <1>3. StoresKept
    BY <1>1, ObjectsType DEF DocumentedMessage, Op, db, requests, StoresOK, StoresKept, Exists, Deleted
  <1> QED BY <1>2, <1>3 DEF QuietOK

-----------------------------------------------------------------------------
(* The two steps that are neither: a delivery and an acknowledgement.      *)

LEMMA DeliverStep ==
  ASSUME TypeInv, NEW c \in Consumers, Deliver(c)
  PROVE  /\ MsgsKept /\ StoresKept
         /\ HandlersOK'
         /\ work'[c].pc = "start"
         /\ \A d \in Consumers : d # c => work'[d] = work[d]
  <1>1. BrokerOK /\ HandlersOK /\ StoresOK BY DEF TypeInv
  <1>2. StoresKept /\ UNCHANGED next
    BY <1>1, StoresSame DEF Deliver, db, requests
  <1>3. PICK i \in Ready(Serves[c]) :
          /\ msgs' = [msgs EXCEPT ![i].place = "unacked",
                                  ![i].tries = IF @ > DeliveryLimit THEN @ ELSE @ + 1]
          /\ work' = [work EXCEPT ![c] = [Idle EXCEPT !.pc = "start", !.id = i, !.held = TRUE]]
    BY DEF Deliver
  <1>4. i \in MsgIds /\ i < next /\ msgs[i].place = "ready" /\ msgs[i].queue = Serves[c]
    BY <1>1, <1>3 DEF Ready, BrokerOK, MsgIds
  <1>5. msgs[i] \in Msg
    BY <1>1, <1>4, SentIsMsg
  <1> DEFINE n == IF msgs[i].tries > DeliveryLimit THEN msgs[i].tries ELSE msgs[i].tries + 1
  <1>6. n \in 0..(DeliveryLimit + 1)
    BY <1>5 DEF Msg
  <1>7. /\ msgs'[i] = [msgs[i] EXCEPT !.place = "unacked", !.tries = n]
        /\ \A k \in MsgIds : k # i => msgs'[k] = msgs[k]
    BY <1>1, <1>3, <1>4, <1>5 DEF BrokerOK, Msg
  <1> HIDE DEF n
  <1>8. msgs'[i] \in Msg
    BY <1>5, <1>6, <1>7 DEF Msg, Places
  <1>9. /\ msgs'[i].place = "unacked"
        /\ msgs'[i].queue = msgs[i].queue /\ msgs'[i].job = msgs[i].job
    BY <1>5, <1>7 DEF Msg
  <1>10. msgs' \in [MsgIds -> Msg \cup {Unsent}]
    BY <1>1, <1>3, <1>8 DEF BrokerOK
  <1>11. MsgsKept
    BY <1>1, <1>2, <1>4, <1>7, <1>9, <1>10, OneMessage DEF MsgsKept, Places, Live
  <1>12. /\ work'[c] = [pc |-> "start", id |-> i, held |-> TRUE, todo |-> {}, segs |-> {}]
         /\ \A d \in Consumers : d # c => work'[d] = work[d]
    BY <1>1, <1>3 DEF HandlersOK, Idle
  <1>13. work' \in [Consumers -> Work]
    <2>1. work'[c] \in Work
      BY <1>4, <1>12 DEF Work, Pcs, MsgIds
    <2>2. work \in [Consumers -> Work]
      BY <1>1 DEF HandlersOK
    <2> QED BY <1>3, <2>1, <2>2
  <1>14. ASSUME NEW d \in Consumers PROVE HandlerOK(d)'
    <2>1. CASE d = c
      BY <2>1, <1>2, <1>4, <1>9, <1>12 DEF HandlerOK
    <2>2. CASE d # c
      BY <2>2, <1>1, <1>11, <1>12 DEF MsgsKept, Grows, HandlersOK, HandlerOK, BrokerOK, MsgIds
    <2> QED BY <2>1, <2>2
  <1> QED BY <1>2, <1>11, <1>12, <1>13, <1>14 DEF HandlersOK

LEMMA AckStep ==
  ASSUME TypeInv, NEW c \in Consumers, Ack(c)
  PROVE  /\ Grows /\ Moves(c) /\ StoresKept
         /\ work[c].pc = "ack" /\ work'[c].pc = "idle"
         /\ work[c].id \in MsgIds /\ work[c].id < next
         /\ \A i \in MsgIds : i # work[c].id => msgs'[i] = msgs[i]
  <1>1. /\ work[c].pc = "ack"
        /\ BrokerOK /\ HandlersOK /\ StoresOK
    BY DEF Ack, TypeInv
  <1>2. StoresKept
    BY <1>1, StoresSame DEF Ack, db, requests
  <1>3. Moves(c) /\ work'[c].pc = "idle"
    BY <1>1, ReleaseMoves DEF Ack
  <1>4. work[c].id \in MsgIds /\ work[c].id < next
    BY <1>1, HandlerFacts
  <1>5. Grows
    BY <1>1, <1>4, AtEffect, SameEffect DEF Ack, Places, MsgsKept
  <1>6. \A i \in MsgIds : i # work[c].id => msgs'[i] = msgs[i]
    BY <1>1, <1>4, AtFacts DEF Ack, Places
  <1> QED BY <1>1, <1>2, <1>3, <1>4, <1>5, <1>6

-----------------------------------------------------------------------------
(* The type invariant.                                                     *)


\* The steps of a consumer that StepOK describes; Complete needs more than
\* the type invariant and comes below.
Ordinary(c) ==
  \/ LostChannel(c) \/ SessionBroken(c)
  \/ AnalyzerStart(c) \/ Analyze(c) \/ StoreSegments(c) \/ UpdateJobStage(c)
  \/ PublishTranscript(c)
  \/ SelectSegments(c) \/ SynthesizeSegment(c) \/ UpdateSegmentRecord(c)
  \/ MarkSynthesized(c) \/ PublishAudio(c) \/ SynthesizedEvent(c)
  \/ MuxStart(c) \/ MuxDownload(c) \/ MuxUpload(c) \/ MuxStage(c) \/ PublishDelivery(c)
  \/ DeliveryStart(c) \/ Presign(c) \/ SendWebhooks(c)
  \/ Failure(c)

LEMMA OrdinaryStep ==
  ASSUME TypeInv, NEW c \in Consumers, Ordinary(c)
  PROVE  StepOK(c)
  <1>1. CASE Failure(c)
    BY <1>1, DisconnectStep, CrashStep, CallFailsStep, StatementFailsStep, ConfirmTimeoutStep
    DEF Failure
  <1>2. CASE ~Failure(c)
    BY <1>2, LostChannelStep, SessionBrokenStep, AnalyzerStartStep, AnalyzeStep,
       StoreSegmentsStep, UpdateJobStageStep, PublishTranscriptStep, SelectSegmentsStep,
       SynthesizeSegmentStep, UpdateSegmentRecordStep, MarkSynthesizedStep, PublishAudioStep,
       SynthesizedEventStep, MuxStartStep, MuxDownloadStep, MuxUploadStep, MuxStageStep,
       PublishDeliveryStep, DeliveryStartStep, PresignStep, SendWebhooksStep
    DEF Ordinary
  <1> QED BY <1>1, <1>2

LEMMA ClientStep ==
  ASSUME TypeInv, NEW j \in Jobs, Client(j)
  PROVE  QuietOK
  BY CreateFailsStep, StoreVideoStep, InsertJobStep, PublishIngestionStep, CompleteUploadStep,
     UpdateTranscriptStep, PublishEditStep, RegenerateSegmentStep, ReadJobToDeleteStep,
     DeleteObjectsStep, DeleteSegmentsStep, DeleteRowStep, DeleteFailsStep, DocumentedMessageStep
  DEF Client

\* The delivery-service's UPDATE to completed.  The part of StepOK about
\* coverage is left to the second invariant.
LEMMA CompleteStep ==
  ASSUME TypeInv, NEW c \in Consumers, Complete(c)
  PROVE  /\ MsgsKept /\ Moves(c) /\ StoresKept
         /\ work[c].pc = "complete" /\ work'[c].pc = "webhook"
         /\ Exists(JobOf(c)) => JobOf(c) \in done'
  <1>1. /\ work[c].pc = "complete"
        /\ BrokerOK /\ HandlersOK /\ StoresOK
    BY DEF Complete, AtStep, TypeInv
  <1>2. MsgsKept /\ Moves(c) /\ work'[c].pc = "webhook"
    BY <1>1, GotoMoves, SameEffect DEF Complete, broker, Pcs
  <1>3. JobOf(c) \in Jobs
    BY <1>1, HandlerFacts
  <1>4. row' \in [Jobs -> RowType] /\ \A k \in Jobs : Exists(k) => Exists(k)'
    <2>1. CASE Exists(JobOf(c))
      <3>1. row' = [row EXCEPT ![JobOf(c)].stage = "completed", ![JobOf(c)].url = TRUE]
        BY <2>1 DEF Complete
      <3>2. row \in [Jobs -> RowType]
        BY <1>1 DEF StoresOK
      <3>3. row' \in [Jobs -> RowType]
        BY <1>3, <3>1, <3>2 DEF RowType, Stages
      <3>4. row'[JobOf(c)].stage = "completed"
        BY <1>3, <3>1, <3>2 DEF RowType
      <3>5. \A k \in Jobs : k # JobOf(c) => row'[k] = row[k]
        BY <1>3, <3>1, <3>2
      <3> QED BY <3>3, <3>4, <3>5 DEF Exists
    <2>2. CASE ~Exists(JobOf(c))
      BY <1>1, <2>2 DEF Complete, StoresOK, Exists
    <2> QED BY <2>1, <2>2
  <1>5. done \subseteq done' /\ done' \subseteq Jobs
    BY <1>1, <1>3 DEF Complete, StoresOK
  <1>6. StoresKept
    BY <1>1, <1>4, <1>5 DEF Complete, StoresOK, StoresKept, Deleted, requests
  <1> QED BY <1>1, <1>2, <1>6 DEF Complete

LEMMA TypeInvStep == TypeInv /\ [Next]_vars => TypeInv'
  <1> SUFFICES ASSUME TypeInv, [Next]_vars PROVE TypeInv'
    OBVIOUS
  <1> USE DEF TypeInv
  <1>1. ASSUME QuietOK PROVE TypeInv'
    BY <1>1, HandlersSame DEF QuietOK, MsgsKept, Grows, StoresKept
  <1>2. ASSUME NEW c \in Consumers, MsgsKept \/ Grows, Moves(c), StoresKept PROVE TypeInv'
    BY <1>2, HandlersKept DEF MsgsKept, Grows, StoresKept
  <1>3. CASE UNCHANGED vars
    BY <1>1, <1>3, StutterStep
  <1>4. CASE \E j \in Jobs : Client(j)
    BY <1>1, <1>4, ClientStep
  <1>5. CASE \E i \in MsgIds : Age(i) \/ Expire(i)
    BY <1>1, <1>5, AgeStep, ExpireStep
  <1>6. ASSUME NEW c \in Consumers, Deliver(c) \/ Handler(c) \/ Failure(c) PROVE TypeInv'
    <2>1. CASE Deliver(c)
      BY <2>1, DeliverStep DEF MsgsKept, Grows, StoresKept
    <2>2. CASE Ack(c)
      BY <2>2, <1>2, AckStep
    <2>3. CASE Complete(c)
      BY <2>3, <1>2, CompleteStep
    <2>4. CASE Ordinary(c)
      BY <2>4, <1>2, OrdinaryStep DEF StepOK
    <2> QED BY <1>6, <2>1, <2>2, <2>3, <2>4 DEF Handler, Ordinary
  <1> QED BY <1>3, <1>4, <1>5, <1>6 DEF Next

\* Every variable of the pipeline keeps its type: in particular a handler never
\* outlives the ids of the published messages, the jobs and segments it works on
\* are real ones, and a stage is never a value that no part of the code writes.
THEOREM TypeCorrect == Spec => []TypeOK
  <1>1. Init => TypeInv
    BY InitTypeInv
  <1>2. TypeInv /\ [Next]_vars => TypeInv'
    BY TypeInvStep
  <1>3. TypeInv => TypeOK
    BY TypeInvGivesTypeOK
  <1> QED BY <1>1, <1>2, <1>3, PTL DEF Spec

-----------------------------------------------------------------------------
(* Nothing is lost.  Accounted is not inductive: a worker acknowledges in  *)
(* a step of its own, so the invariant says that a handler past its        *)
(* publish, or past its update of the row, has its job covered, and that   *)
(* the row which the delivery-service is about to complete is there unless *)
(* its job was deleted meanwhile.                                          *)

Forwarded ==
  \A c \in Consumers : work[c].pc \in Past => Covers(c)

CompleteRow ==
  \A c \in Consumers :
    work[c].pc = "complete" => Exists(JobOf(c)) \/ Deleted(JobOf(c))

AccountedInv == TypeInv /\ Forwarded /\ CompleteRow /\ Accounted

LEMMA CoverKept ==
  ASSUME TypeInv, MsgsKept, StoresKept, NEW j \in Jobs, NEW i \in Nat, Covered(j, i)
  PROVE  Covered(j, i)'
  <1>1. CASE j \in done \/ Deleted(j)
    BY <1>1 DEF Covered, StoresKept
  <1>2. CASE \E k \in MsgIds : k > i /\ msgs[k].place \in Live /\ msgs[k].job = j
    <2>1. PICK k \in MsgIds : k > i /\ msgs[k].place \in Live /\ msgs[k].job = j
      BY <1>2
    <2>2. k < next
      BY <2>1 DEF TypeInv, BrokerOK, Live, MsgIds
    <2>3. msgs'[k].place \in Live /\ msgs'[k].job = j
      BY <2>1, <2>2 DEF MsgsKept, LiveKept, Grows
    <2> QED BY <2>1, <2>3 DEF Covered
  <1> QED BY <1>1, <1>2 DEF Covered

LEMMA AccountedKept ==
  ASSUME TypeInv, Accounted, MsgsKept, StoresKept
  PROVE  Accounted'
  <1>1. ASSUME NEW j \in Jobs, create'[j] = "ok" PROVE Covered(j, 0)'
    BY <1>1, CoverKept DEF Accounted, StoresKept
  <1>2. ASSUME NEW i \in MsgIds, msgs'[i].place = "acked" PROVE Covered(msgs[i].job, i)'
    <2>1. msgs[i].place = "acked" /\ Covered(msgs[i].job, i)
      BY <1>2 DEF MsgsKept, NoNewAck, Accounted
    <2>2. i < next
      BY <2>1 DEF TypeInv, BrokerOK, MsgIds
    <2>3. PICK j \in Jobs : j = msgs[i].job
      BY <2>2, SentIsMsg DEF TypeInv, Msg
    <2>4. j = msgs'[i].job
      BY <2>2, <2>3 DEF MsgsKept, Grows
    <2>5. Covered(j, i)'
      BY <2>1, <2>3, CoverKept DEF MsgIds
    <2> QED BY <2>4, <2>5
  <1> QED BY <1>1, <1>2 DEF Accounted

\* A handler that stays where it is keeps its part of the invariant.
LEMMA HandlerKept ==
  ASSUME TypeInv, MsgsKept, StoresKept, NEW c \in Consumers, work[c].pc # "idle",
         work'[c].id = work[c].id
  PROVE  /\ JobOf(c)' = JobOf(c)
         /\ Covers(c) => Covers(c)'
         /\ Exists(JobOf(c)) \/ Deleted(JobOf(c)) => Exists(JobOf(c))' \/ Deleted(JobOf(c))'
  <1>1. /\ work[c].id \in MsgIds /\ work[c].id < next
        /\ JobOf(c) \in Jobs
    BY HandlerFacts DEF TypeInv
  <1>2. JobOf(c)' = JobOf(c)
    BY <1>1 DEF MsgsKept, Grows, JobOf
  <1>3. PICK j \in Jobs : j = JobOf(c)
    BY <1>1
  <1>4. PICK i \in MsgIds : i = work[c].id
    BY <1>1
  <1>5. Covers(c) => Covered(j, i)'
    BY <1>3, <1>4, CoverKept DEF MsgIds, Covers
  <1>6. Covered(j, i)' => Covers(c)'
    BY <1>2, <1>3, <1>4 DEF Covers
  <1>7. Exists(j) \/ Deleted(j) => Exists(j)' \/ Deleted(j)'
    BY DEF StoresKept
  <1>8. Exists(j)' \/ Deleted(j)' => Exists(JobOf(c))' \/ Deleted(JobOf(c))'
    BY <1>2, <1>3
  <1> QED BY <1>2, <1>3, <1>5, <1>6, <1>7, <1>8

LEMMA ConsumerKeeps ==
  ASSUME AccountedInv, NEW c \in Consumers, StepOK(c), TypeInv'
  PROVE  AccountedInv'
  <1>1. TypeInv /\ Forwarded /\ CompleteRow /\ Accounted /\ MsgsKept /\ Moves(c) /\ StoresKept
    BY DEF AccountedInv, StepOK
  <1>2. Accounted'
    BY <1>1, AccountedKept
  <1>3. ASSUME NEW d \in Consumers
        PROVE  /\ work'[d].pc \in Past => Covers(d)'
               /\ work'[d].pc = "complete" => Exists(JobOf(d))' \/ Deleted(JobOf(d))'
    <2>1. CASE d # c /\ work[d].pc # "idle"
      BY <1>1, <2>1, HandlerKept DEF Moves, Forwarded, CompleteRow
    <2>2. CASE d # c /\ work[d].pc = "idle"
      BY <1>1, <2>2 DEF Moves, Past
    <2>3. CASE d = c /\ work'[c].pc = "idle"
      BY <2>3 DEF Past
    <2>4. CASE d = c /\ work'[c].pc # "idle"
      <3>1. work[c].pc # "idle" /\ work'[c].id = work[c].id
        BY <1>1, <2>4 DEF Moves
      <3>2. work'[c].pc \in Past => Covers(c)'
        BY <1>1, <3>1, HandlerKept DEF StepOK, Forwarded
      <3>3. work'[c].pc = "complete" => Exists(JobOf(c))' \/ Deleted(JobOf(c))'
        BY <1>1, <3>1, HandlerKept DEF StepOK, CompleteRow
      <3> QED BY <2>4, <3>2, <3>3
    <2> QED BY <2>1, <2>2, <2>3, <2>4
  <1> QED BY <1>2, <1>3 DEF AccountedInv, Forwarded, CompleteRow

LEMMA QuietKeeps ==
  ASSUME AccountedInv, QuietOK, TypeInv'
  PROVE  AccountedInv'
  <1>1. /\ TypeInv /\ Forwarded /\ CompleteRow /\ Accounted
        /\ MsgsKept /\ StoresKept /\ work' = work
    BY DEF AccountedInv, QuietOK
  <1>2. Accounted'
    BY <1>1, AccountedKept
  <1>3. ASSUME NEW d \in Consumers
        PROVE  /\ work'[d].pc \in Past => Covers(d)'
               /\ work'[d].pc = "complete" => Exists(JobOf(d))' \/ Deleted(JobOf(d))'
    <2>1. CASE work[d].pc # "idle"
      BY <1>1, <2>1, HandlerKept DEF Forwarded, CompleteRow
    <2>2. CASE work[d].pc = "idle"
      BY <1>1, <2>2 DEF Past
    <2> QED BY <2>1, <2>2
  <1> QED BY <1>2, <1>3 DEF AccountedInv, Forwarded, CompleteRow

LEMMA DeliverKeeps ==
  ASSUME AccountedInv, NEW c \in Consumers, Deliver(c), TypeInv'
  PROVE  AccountedInv'
  <1>1. /\ TypeInv /\ Forwarded /\ CompleteRow /\ Accounted
        /\ MsgsKept /\ StoresKept
        /\ work'[c].pc = "start"
        /\ \A d \in Consumers : d # c => work'[d] = work[d]
    BY DeliverStep DEF AccountedInv
  <1>2. Accounted'
    BY <1>1, AccountedKept
  <1>3. ASSUME NEW d \in Consumers
        PROVE  /\ work'[d].pc \in Past => Covers(d)'
               /\ work'[d].pc = "complete" => Exists(JobOf(d))' \/ Deleted(JobOf(d))'
    <2>1. CASE d # c /\ work[d].pc # "idle"
      BY <1>1, <2>1, HandlerKept DEF Forwarded, CompleteRow
    <2>2. CASE d # c /\ work[d].pc = "idle"
      BY <1>1, <2>2 DEF Past
    <2>3. CASE d = c
      BY <1>1, <2>3 DEF Past
    <2> QED BY <2>1, <2>2, <2>3
  <1> QED BY <1>2, <1>3 DEF AccountedInv, Forwarded, CompleteRow

LEMMA CompleteKeeps ==
  ASSUME AccountedInv, NEW c \in Consumers, Complete(c), TypeInv'
  PROVE  AccountedInv'
  <1>1. /\ TypeInv /\ CompleteRow
        /\ MsgsKept /\ Moves(c) /\ StoresKept
        /\ work[c].pc = "complete" /\ work'[c].pc = "webhook"
        /\ Exists(JobOf(c)) => JobOf(c) \in done'
    BY CompleteStep DEF AccountedInv
  <1>2. JobOf(c)' = JobOf(c)
    BY <1>1, HandlerKept DEF Moves
  <1>3. JobOf(c) \in Jobs
    BY <1>1, HandlerFacts DEF TypeInv
  <1>6. Covers(c)'
    <2>1. CASE Exists(JobOf(c))
      BY <1>1, <1>2, <2>1 DEF Covers, Covered
    <2>2. CASE ~Exists(JobOf(c))
      <3>1. PICK j \in Jobs : j = JobOf(c) /\ Deleted(j)
        BY <1>1, <1>3, <2>2 DEF CompleteRow
      <3>2. Deleted(j)'
        BY <1>1, <3>1 DEF StoresKept
      <3>3. Deleted(JobOf(c))'
        BY <1>2, <3>1, <3>2
      <3> QED BY <3>3 DEF Covers, Covered
    <2> QED BY <2>1, <2>2
  <1>7. StepOK(c)
    BY <1>1, <1>6 DEF StepOK, Past
  <1> QED BY <1>7, ConsumerKeeps

\* An acknowledgement removes one message, whose job is covered by a later one.
LEMMA AckCovers ==
  ASSUME AccountedInv, NEW c \in Consumers, Ack(c),
         NEW j \in Jobs, NEW i \in Nat, Covered(j, i)
  PROVE  Covered(j, i)'
  <1>1. /\ TypeInv /\ Forwarded
        /\ Grows /\ StoresKept
        /\ work[c].pc = "ack"
        /\ work[c].id \in MsgIds /\ work[c].id < next
        /\ \A k \in MsgIds : k # work[c].id => msgs'[k] = msgs[k]
    BY AckStep DEF AccountedInv
  <1>2. CASE j \in done \/ Deleted(j)
    BY <1>1, <1>2 DEF StoresKept, Covered
  <1>3. ASSUME NEW k \in MsgIds, k > i, msgs[k].place \in Live, msgs[k].job = j
        PROVE  Covered(j, i)'
    <2>1. CASE k # work[c].id
      BY <1>1, <1>3, <2>1 DEF Covered
    <2>2. CASE k = work[c].id
      <3>1. Covered(j, k)
        BY <1>1, <1>3, <2>2 DEF Forwarded, Past, Covers, JobOf
      <3>2. CASE j \in done \/ Deleted(j)
        BY <1>1, <3>2 DEF StoresKept, Covered
      <3>3. ASSUME NEW m \in MsgIds, m > k, msgs[m].place \in Live, msgs[m].job = j
            PROVE  Covered(j, i)'
        <4>1. msgs'[m] = msgs[m] /\ m > i
          BY <1>1, <1>3, <2>2, <3>3 DEF MsgIds
        <4> QED BY <3>3, <4>1 DEF Covered
      <3> QED BY <3>1, <3>2, <3>3 DEF Covered
    <2> QED BY <2>1, <2>2
  <1> QED BY <1>2, <1>3 DEF Covered

LEMMA AckKeeps ==
  ASSUME AccountedInv, NEW c \in Consumers, Ack(c), TypeInv'
  PROVE  AccountedInv'
  <1>1. /\ TypeInv /\ Forwarded /\ CompleteRow /\ Accounted
        /\ Grows /\ Moves(c) /\ StoresKept
        /\ work[c].pc = "ack" /\ work'[c].pc = "idle"
        /\ work[c].id \in MsgIds /\ work[c].id < next
        /\ \A k \in MsgIds : k # work[c].id => msgs'[k] = msgs[k]
    BY AckStep DEF AccountedInv
  <1>2. ASSUME NEW d \in Consumers, work[d].pc # "idle", d # c
        PROVE  /\ JobOf(d)' = JobOf(d) /\ JobOf(d) \in Jobs
               /\ work'[d] = work[d] /\ work[d].id \in MsgIds
    <2>1. work[d].id \in MsgIds /\ work[d].id < next /\ JobOf(d) \in Jobs
      BY <1>1, <1>2, HandlerFacts DEF TypeInv
    <2>2. work'[d] = work[d]
      BY <1>1, <1>2 DEF Moves
    <2> QED BY <1>1, <2>1, <2>2 DEF Grows, JobOf
  <1>3. Forwarded'
    <2> SUFFICES ASSUME NEW d \in Consumers, work'[d].pc \in Past PROVE Covers(d)'
      BY DEF Forwarded
    <2>1. d # c /\ work[d].pc \in Past /\ work[d].pc # "idle"
      BY <1>1 DEF Moves, Past
    <2>2. PICK j \in Jobs, i \in MsgIds : j = JobOf(d) /\ i = work[d].id
      BY <1>2, <2>1
    <2>3. Covered(j, i)
      BY <1>1, <2>1, <2>2 DEF Forwarded, Covers
    <2>4. Covered(j, i)'
      BY <2>3, AckCovers DEF MsgIds
    <2> QED BY <1>2, <2>1, <2>2, <2>4 DEF Covers
  <1>4. CompleteRow'
    <2> SUFFICES ASSUME NEW d \in Consumers, work'[d].pc = "complete"
                 PROVE  Exists(JobOf(d))' \/ Deleted(JobOf(d))'
      BY DEF CompleteRow
    <2>1. d # c /\ work[d].pc = "complete"
      BY <1>1 DEF Moves
    <2>2. PICK j \in Jobs : j = JobOf(d)
      BY <1>2, <2>1
    <2>3. Exists(j)' \/ Deleted(j)'
      BY <1>1, <2>1, <2>2 DEF CompleteRow, StoresKept
    <2> QED BY <1>2, <2>1, <2>2, <2>3
  <1>5. Accounted'
    <2>1. ASSUME NEW j \in Jobs, create'[j] = "ok" PROVE Covered(j, 0)'
      BY <1>1, <2>1, AckCovers DEF Accounted, StoresKept
    <2>2. ASSUME NEW i \in MsgIds, msgs'[i].place = "acked" PROVE Covered(msgs[i].job, i)'
      <3>1. i < next
        BY <1>1, <2>2 DEF TypeInv, BrokerOK, MsgIds
      <3>2. PICK j \in Jobs : j = msgs[i].job
        BY <1>1, <3>1, SentIsMsg DEF TypeInv, Msg
      <3>3. Covered(j, i)
        BY <1>1, <2>2, <3>2 DEF Accounted, Forwarded, Past, Covers, JobOf
      <3>4. Covered(j, i)'
        BY <3>3, AckCovers DEF MsgIds
      <3>5. j = msgs'[i].job
        BY <1>1, <3>1, <3>2 DEF Grows
      <3> QED BY <3>4, <3>5
    <2> QED BY <2>1, <2>2 DEF Accounted
  <1> QED BY <1>3, <1>4, <1>5 DEF AccountedInv

LEMMA AccountedInvStep == AccountedInv /\ [Next]_vars => AccountedInv'
  <1> SUFFICES ASSUME AccountedInv, [Next]_vars PROVE AccountedInv'
    OBVIOUS
  <1>1. TypeInv /\ TypeInv'
    BY TypeInvStep DEF AccountedInv
  <1>2. CASE UNCHANGED vars
    BY <1>1, <1>2, StutterStep, QuietKeeps
  <1>3. CASE \E j \in Jobs : Client(j)
    BY <1>1, <1>3, ClientStep, QuietKeeps
  <1>4. CASE \E i \in MsgIds : Age(i) \/ Expire(i)
    BY <1>1, <1>4, AgeStep, ExpireStep, QuietKeeps
  <1>5. ASSUME NEW c \in Consumers, Deliver(c) \/ Handler(c) \/ Failure(c)
        PROVE  AccountedInv'
    <2>1. CASE Deliver(c)
      BY <1>1, <2>1, DeliverKeeps
    <2>2. CASE Ack(c)
      BY <1>1, <2>2, AckKeeps
    <2>3. CASE Complete(c)
      BY <1>1, <2>3, CompleteKeeps
    <2>4. CASE Ordinary(c)
      BY <1>1, <2>4, OrdinaryStep, ConsumerKeeps
    <2> QED BY <1>5, <2>1, <2>2, <2>3, <2>4 DEF Handler, Ordinary
  <1> QED BY <1>2, <1>3, <1>4, <1>5 DEF Next

\* Nothing is silently lost: an accepted job, and the job of every acknowledged
\* message, is completed or deleted or has a later message in a queue or in a
\* dead-letter queue, whatever crashes, disconnections, failed calls and
\* redeliveries the workers go through.
THEOREM NothingLost == Spec => []Accounted
  <1>1. Init => AccountedInv
    BY InitTypeInv DEF Init, AccountedInv, Forwarded, CompleteRow, Accounted, Past, Idle, Unsent
  <1>2. AccountedInv /\ [Next]_vars => AccountedInv'
    BY AccountedInvStep
  <1>3. AccountedInv => Accounted
    BY DEF AccountedInv
  <1> QED BY <1>1, <1>2, <1>3, PTL DEF Spec

-----------------------------------------------------------------------------
(* The audio of the segment rows.  A row is updated in a step of its own   *)
(* after the upload, so the invariant says that a handler about to update  *)
(* a row has stored the object it will name.                               *)

Uploaded ==
  \A c \in Consumers : work[c].pc = "record" => SegAudio(JobOf(c), Current(c)) \in store

AudioInv == TypeInv /\ Uploaded /\ AudioPathBacked

\* No handler comes to the update of a row but those that were there before.
RecordsKept ==
  \A c \in Consumers :
    work'[c].pc = "record" =>
      work[c].pc = "record" /\ work'[c].todo = work[c].todo /\ work'[c].id = work[c].id

\* Segment rows and audio objects do not go.
AudioKept ==
  /\ \A j \in Jobs : segRows[j] \subseteq segRows'[j]
  /\ \A j \in Jobs, i \in Segs : SegAudio(j, i) \in store => SegAudio(j, i) \in store'

\* Every step leaves the published messages to their queue and job.
LEMMA StepGrows == TypeInv /\ [Next]_vars => Grows
<1> SUFFICES ASSUME TypeInv, [Next]_vars PROVE Grows
  OBVIOUS
<1>1. CASE UNCHANGED vars
  BY <1>1, StutterStep DEF QuietOK, MsgsKept
<1>2. CASE \E j \in Jobs : Client(j)
  BY <1>2, ClientStep DEF QuietOK, MsgsKept
<1>3. CASE \E i \in MsgIds : Age(i) \/ Expire(i)
  BY <1>3, AgeStep, ExpireStep DEF QuietOK, MsgsKept
<1>4. ASSUME NEW c \in Consumers, Deliver(c) \/ Handler(c) \/ Failure(c) PROVE Grows
  BY <1>4, DeliverStep, AckStep, CompleteStep, OrdinaryStep
  DEF MsgsKept, StepOK, Handler, Ordinary
<1>5. QED
  BY <1>1, <1>2, <1>3, <1>4 DEF Next

\* The object a handler is about to name stays the same one.
LEMMA SameObject ==
  ASSUME TypeInv, Grows, NEW c \in Consumers, work[c].pc = "record",
         work'[c].todo = work[c].todo, work'[c].id = work[c].id
  PROVE  /\ JobOf(c)' = JobOf(c) /\ Current(c)' = Current(c)
         /\ JobOf(c) \in Jobs /\ Current(c) \in Segs /\ Current(c) \in work[c].todo
<1>1. /\ work[c].id \in MsgIds /\ work[c].id < next
      /\ JobOf(c) \in Jobs
  BY HandlerFacts DEF TypeInv
<1>2. JobOf(c)' = JobOf(c)
  BY <1>1 DEF Grows, JobOf
<1>3. Current(c)' = Current(c)
  BY DEF Current
<1>4. work[c].todo # {} /\ work[c].todo \subseteq Segs
  BY DEF TypeInv, HandlersOK, HandlerOK, Work
<1>5. Current(c) \in work[c].todo
  BY <1>4 DEF Current
<1>6. QED
  BY <1>1, <1>2, <1>3, <1>4, <1>5

LEMMA UploadedKept ==
  ASSUME TypeInv, Uploaded, Grows, RecordsKept,
         \A j \in Jobs, i \in Segs : SegAudio(j, i) \in store => SegAudio(j, i) \in store'
  PROVE  Uploaded'
<1> SUFFICES ASSUME NEW c \in Consumers, work'[c].pc = "record"
             PROVE  SegAudio(JobOf(c), Current(c))' \in store'
  BY DEF Uploaded
<1>1. work[c].pc = "record" /\ work'[c].todo = work[c].todo /\ work'[c].id = work[c].id
  BY DEF RecordsKept
<1>2. /\ JobOf(c)' = JobOf(c) /\ Current(c)' = Current(c)
      /\ JobOf(c) \in Jobs /\ Current(c) \in Segs
  BY <1>1, SameObject
<1>3. SegAudio(JobOf(c), Current(c)) \in store'
  BY <1>1, <1>2 DEF Uploaded
<1>4. QED
  BY <1>2, <1>3 DEF SegAudio

LEMMA BackedKept ==
  ASSUME TypeInv, AudioPathBacked, AudioKept, voiced' = voiced
  PROVE  AudioPathBacked'
<1>1. \A j \in Jobs : voiced[j] \subseteq Segs
  BY DEF TypeInv, StoresOK
<1>2. QED
  BY <1>1 DEF AudioPathBacked, AudioKept, SegAudio

\* A handler that ends, or goes anywhere but to the update, is not about to
\* update a row.
LEMMA ElsewhereKeeps ==
  ASSUME HandlersOK, NEW c \in Consumers,
         \/ Release(c)
         \/ \E p \in Pcs \ {"record"} : Goto(c, p)
  PROVE  RecordsKept
<1>1. work \in [Consumers -> Work]
  BY DEF HandlersOK
<1>2. CASE Release(c)
  BY <1>1, <1>2 DEF Release, Idle, RecordsKept
<1>3. ASSUME NEW p \in Pcs \ {"record"}, Goto(c, p) PROVE RecordsKept
  <2>1. work'[c].pc = p /\ \A d \in Consumers \ {c} : work'[d] = work[d]
    BY <1>1, <1>3 DEF Goto, Work
  <2>2. QED
    BY <2>1 DEF RecordsKept
<1>4. QED
  BY <1>2, <1>3

LEMMA AudioSame ==
  ASSUME UNCHANGED <<segRows, store>> \/ (UNCHANGED segRows /\ store \subseteq store')
  PROVE  AudioKept
  BY DEF AudioKept

\* The steps that touch neither a row's audio nor the objects, or only add to
\* them, and end elsewhere.
Plain == RecordsKept /\ AudioKept /\ voiced' = voiced

LEMMA GoWorkerPlain ==
  ASSUME HandlersOK, NEW c \in Consumers,
         \/ MuxStart(c) \/ MuxDownload(c) \/ MuxUpload(c) \/ MuxStage(c) \/ PublishDelivery(c)
         \/ DeliveryStart(c) \/ Presign(c) \/ Complete(c) \/ SendWebhooks(c)
  PROVE  Plain
<1> USE DEF Plain, db, Pcs, Requeue
<1>1. CASE MuxStart(c)
  BY <1>1, ElsewhereKeeps, AudioSame DEF MuxStart
<1>2. CASE MuxDownload(c)
  BY <1>2, ElsewhereKeeps, AudioSame DEF MuxDownload
<1>3. CASE MuxUpload(c)
  BY <1>3, ElsewhereKeeps, AudioSame DEF MuxUpload
<1>4. CASE MuxStage(c)
  BY <1>4, ElsewhereKeeps, AudioSame DEF MuxStage
<1>5. CASE PublishDelivery(c)
  BY <1>5, ElsewhereKeeps, AudioSame DEF PublishDelivery
<1>6. CASE DeliveryStart(c)
  BY <1>6, ElsewhereKeeps, AudioSame DEF DeliveryStart
<1>7. CASE Presign(c)
  BY <1>7, ElsewhereKeeps, AudioSame DEF Presign
<1>8. CASE Complete(c)
  BY <1>8, ElsewhereKeeps, AudioSame DEF Complete
<1>9. CASE SendWebhooks(c)
  BY <1>9, ElsewhereKeeps, AudioSame DEF SendWebhooks
<1>10. QED
  BY <1>1, <1>2, <1>3, <1>4, <1>5, <1>6, <1>7, <1>8, <1>9

LEMMA PythonWorkerPlain ==
  ASSUME TypeInv, NEW c \in Consumers,
         \/ SessionBroken(c) \/ AnalyzerStart(c) \/ Analyze(c) \/ StoreSegments(c)
         \/ UpdateJobStage(c) \/ PublishTranscript(c)
         \/ SelectSegments(c) \/ MarkSynthesized(c) \/ PublishAudio(c) \/ SynthesizedEvent(c)
  PROVE  Plain
<1> USE DEF Plain, db, Pcs, Reject
<1>1. HandlersOK /\ work \in [Consumers -> Work] /\ segRows \in [Jobs -> SUBSET Segs]
  BY DEF TypeInv, HandlersOK, StoresOK
<1>2. CASE SessionBroken(c)
  BY <1>1, <1>2, ElsewhereKeeps, AudioSame DEF SessionBroken
<1>3. CASE AnalyzerStart(c)
  BY <1>1, <1>3, ElsewhereKeeps, AudioSame DEF AnalyzerStart
<1>4. CASE Analyze(c)
  <2>1. RecordsKept
    BY <1>1, <1>4 DEF Analyze, RecordsKept, Work
  <2>2. QED
    BY <1>4, <2>1, AudioSame DEF Analyze
<1>5. CASE StoreSegments(c)
  <2>1. RecordsKept
    BY <1>1, <1>5, ElsewhereKeeps DEF StoreSegments
  <2>2. \A j \in Jobs : segRows[j] \subseteq segRows'[j]
    BY <1>1, <1>5 DEF StoreSegments
  <2>3. QED
    BY <1>5, <2>1, <2>2 DEF StoreSegments, AudioKept
<1>6. CASE UpdateJobStage(c)
  BY <1>1, <1>6, ElsewhereKeeps, AudioSame DEF UpdateJobStage
<1>7. CASE PublishTranscript(c)
  BY <1>1, <1>7, ElsewhereKeeps, AudioSame DEF PublishTranscript
<1>8. CASE SelectSegments(c)
  <2>1. RecordsKept
    <3>1. CASE Release(c)
      BY <1>1, <3>1, ElsewhereKeeps
    <3>2. CASE /\ work'[c].pc = "synth"
               /\ \A d \in Consumers : d # c => work'[d] = work[d]
      BY <3>2 DEF RecordsKept
    <3>3. \/ Release(c)
          \/ /\ work'[c].pc = "synth"
             /\ \A d \in Consumers : d # c => work'[d] = work[d]
      BY <1>1, <1>8 DEF SelectSegments, Work
    <3>4. QED
      BY <3>1, <3>2, <3>3
  <2>2. QED
    BY <1>8, <2>1, AudioSame DEF SelectSegments
<1>9. CASE MarkSynthesized(c)
  BY <1>1, <1>9, ElsewhereKeeps, AudioSame DEF MarkSynthesized
<1>10. CASE PublishAudio(c)
  BY <1>1, <1>10, ElsewhereKeeps, AudioSame DEF PublishAudio
<1>11. CASE SynthesizedEvent(c)
  BY <1>1, <1>11, ElsewhereKeeps, AudioSame DEF SynthesizedEvent
<1>12. QED
  BY <1>2, <1>3, <1>4, <1>5, <1>6, <1>7, <1>8, <1>9, <1>10, <1>11

LEMMA DeliveryPlain ==
  ASSUME TypeInv, NEW c \in Consumers, Deliver(c) \/ Ack(c) \/ LostChannel(c) \/ Failure(c)
  PROVE  Plain
<1> USE DEF Plain, db, Reject, Requeue
<1>1. HandlersOK /\ work \in [Consumers -> Work]
  BY DEF TypeInv, HandlersOK
<1>2. CASE Deliver(c)
  <2>1. work'[c].pc = "start" /\ \A d \in Consumers : d # c => work'[d] = work[d]
    BY <1>2, DeliverStep
  <2>2. QED
    BY <1>2, <2>1, AudioSame DEF Deliver, RecordsKept
<1>3. CASE Ack(c)
  BY <1>1, <1>3, ElsewhereKeeps, AudioSame DEF Ack
<1>4. CASE LostChannel(c)
  BY <1>1, <1>4, ElsewhereKeeps, AudioSame DEF LostChannel
<1>5. CASE Disconnect(c)
  <2>1. RecordsKept
    BY <1>1, <1>5 DEF Disconnect, RecordsKept, Work
  <2>2. QED
    BY <1>5, <2>1, AudioSame DEF Disconnect
<1>6. CASE Crash(c)
  BY <1>1, <1>6, ElsewhereKeeps, AudioSame DEF Crash
<1>7. CASE CallFails(c)
  BY <1>1, <1>7, ElsewhereKeeps, AudioSame DEF CallFails
<1>8. CASE StatementFails(c)
  BY <1>1, <1>8, ElsewhereKeeps, AudioSame DEF StatementFails
<1>9. CASE ConfirmTimeout(c)
  BY <1>1, <1>9, ElsewhereKeeps, AudioSame DEF ConfirmTimeout
<1>10. QED
  BY <1>2, <1>3, <1>4, <1>5, <1>6, <1>7, <1>8, <1>9 DEF Failure

\* A DELETE takes the video and its output, never the audio of a segment.
LEMMA VideoIsNoSegment ==
  ASSUME NEW j, NEW k, NEW i
  PROVE  SegAudio(j, i) \notin s3KeysForJob(k)
<1>1. SegAudio(j, i) # Raw(k) /\ SegAudio(j, i) # Out(k)
  <2>1. SegAudio(j, i)[1] = "seg" /\ Raw(k)[1] = "raw" /\ Out(k)[1] = "out"
    BY DEF SegAudio, Raw, Out
  <2>2. QED
    BY <2>1
<1>2. QED
  BY <1>1 DEF s3KeysForJob

LEMMA ClientPlain ==
  ASSUME TypeInv, NEW j \in Jobs, Client(j), ~DeleteSegments(j), ~DeleteRow(j)
  PROVE  Plain
<1> USE DEF Plain, db
<1>1. RecordsKept
  BY ClientStep DEF QuietOK, RecordsKept
<1>2. CASE StoreVideo(j) \/ InsertJob(j) \/ PublishIngestion(j) \/ CreateFails(j) \/ CompleteUpload(j)
  BY <1>1, <1>2, AudioSame DEF StoreVideo, InsertJob, PublishIngestion, CreateFails, CompleteUpload
<1>3. CASE UpdateTranscript(j) \/ PublishEdit(j) \/ RegenerateSegment(j) \/ DocumentedMessage(j)
  BY <1>1, <1>3, AudioSame DEF UpdateTranscript, PublishEdit, RegenerateSegment, DocumentedMessage
<1>4. CASE ReadJobToDelete(j) \/ DeleteFails(j)
  BY <1>1, <1>4, AudioSame DEF ReadJobToDelete, DeleteFails
<1>5. CASE DeleteObjects(j)
  <2>1. \A o \in store : o \notin s3KeysForJob(j) => o \in store'
    BY <1>5 DEF DeleteObjects
  <2>2. AudioKept
    BY <1>5, <2>1, VideoIsNoSegment DEF DeleteObjects, AudioKept
  <2>3. QED
    BY <1>1, <1>5, <2>2 DEF DeleteObjects
<1>6. QED
  BY <1>2, <1>3, <1>4, <1>5 DEF Client

LEMMA PlainKeeps ==
  ASSUME AudioInv, Grows, TypeInv', Plain
  PROVE  AudioInv'
  BY UploadedKept, BackedKept DEF AudioInv, Plain, AudioKept

-----------------------------------------------------------------------------
(* The four steps that are not plain.                                      *)

LEMMA SynthesizeKeepsAudio ==
  ASSUME AudioInv, Grows, TypeInv', NEW c \in Consumers, SynthesizeSegment(c)
  PROVE  AudioInv'
<1>1. /\ work[c].pc = "synth" /\ TypeInv
      /\ store' = store \cup {SegAudio(JobOf(c), Current(c))}
      /\ UNCHANGED <<segRows, voiced, msgs>>
  BY DEF SynthesizeSegment, AtStep, AudioInv, db, broker
<1>2. work'[c] = [work[c] EXCEPT !.pc = "record"]
      /\ \A d \in Consumers : d # c => work'[d] = work[d]
  BY DEF SynthesizeSegment, Goto, AudioInv, TypeInv, HandlersOK
<1>3. JobOf(c)' = JobOf(c) /\ Current(c)' = Current(c)
  BY <1>1, <1>2 DEF JobOf, Current, AudioInv, TypeInv, HandlersOK, Work
<1>4. AudioPathBacked'
  BY <1>1, BackedKept, AudioSame DEF AudioInv
<1>5. ASSUME NEW d \in Consumers, work'[d].pc = "record"
      PROVE  SegAudio(JobOf(d), Current(d))' \in store'
  <2>1. CASE d = c
    BY <1>1, <1>3, <2>1 DEF SegAudio
  <2>2. CASE d # c
    <3>1. work'[d] = work[d]
      BY <1>2, <2>2
    <3>2. JobOf(d)' = JobOf(d) /\ Current(d)' = Current(d)
      BY <1>1, <3>1 DEF JobOf, Current
    <3>3. SegAudio(JobOf(d), Current(d)) \in store
      BY <1>5, <3>1 DEF AudioInv, Uploaded
    <3>4. QED
      BY <1>1, <3>2, <3>3 DEF SegAudio
  <2>3. QED
    BY <2>1, <2>2
<1>6. QED
  BY <1>4, <1>5 DEF AudioInv, Uploaded

\* The row is given the object the handler has stored, and only if it is there.
LEMMA RecordKeepsAudio ==
  ASSUME AudioInv, Grows, TypeInv', NEW c \in Consumers, UpdateSegmentRecord(c)
  PROVE  AudioInv'
<1>1. /\ TypeInv /\ Uploaded /\ AudioPathBacked /\ work[c].pc = "record"
      /\ UNCHANGED <<segRows, store>>
  BY DEF UpdateSegmentRecord, AtStep, AudioInv
<1>2. /\ JobOf(c) \in Jobs /\ Current(c) \in Segs
      /\ SegAudio(JobOf(c), Current(c)) \in store
  <2>1. JobOf(c) \in Jobs
    BY <1>1, HandlerFacts DEF TypeInv
  <2>2. work[c].todo # {} /\ work[c].todo \subseteq Segs
    BY <1>1 DEF TypeInv, HandlersOK, HandlerOK, Work
  <2>3. Current(c) \in Segs
    BY <2>2 DEF Current
  <2>4. QED
    BY <1>1, <2>1, <2>3 DEF Uploaded
<1>3. RecordsKept
  <2>1. work \in [Consumers -> Work]
    BY <1>1 DEF TypeInv, HandlersOK
  <2>2. work'[c].pc # "record" /\ \A d \in Consumers : d # c => work'[d] = work[d]
    BY <2>1 DEF UpdateSegmentRecord, Work
  <2>3. QED
    BY <2>2 DEF RecordsKept
<1>4. Uploaded'
  BY <1>1, <1>3, UploadedKept
<1>5. AudioPathBacked'
  <2>1. CASE voiced' = voiced
    BY <1>1, <2>1, BackedKept, AudioSame
  <2>2. CASE /\ Current(c) \in segRows[JobOf(c)]
             /\ voiced' = [voiced EXCEPT ![JobOf(c)] = @ \cup {Current(c)}]
    <3>1. voiced \in [Jobs -> SUBSET Segs]
      BY <1>1 DEF TypeInv, StoresOK
    <3>2. \A j \in Jobs : \A i \in voiced'[j] :
            i \in voiced[j] \/ (j = JobOf(c) /\ i = Current(c))
      BY <1>2, <2>2, <3>1
    <3>3. QED
      BY <1>1, <1>2, <2>2, <3>2 DEF AudioPathBacked, SegAudio
  <2>3. QED
    BY <2>1, <2>2 DEF UpdateSegmentRecord
<1>6. QED
  BY <1>4, <1>5 DEF AudioInv

LEMMA DeleteKeepsAudio ==
  ASSUME AudioInv, Grows, TypeInv', NEW j \in Jobs, DeleteSegments(j) \/ DeleteRow(j)
  PROVE  AudioInv'
<1>1. /\ TypeInv /\ Uploaded /\ AudioPathBacked /\ UNCHANGED <<work, store>>
      /\ segRows' = [segRows EXCEPT ![j] = {}]
      /\ voiced' = [voiced EXCEPT ![j] = {}]
  BY DEF DeleteSegments, DeleteRow, AudioInv
<1>2. segRows \in [Jobs -> SUBSET Segs] /\ voiced \in [Jobs -> SUBSET Segs]
  BY <1>1 DEF TypeInv, StoresOK
<1>3. Uploaded'
  BY <1>1, UploadedKept DEF RecordsKept
<1>4. AudioPathBacked'
  <2>1. ASSUME NEW k \in Jobs, NEW i \in voiced'[k]
        PROVE  k # j /\ i \in voiced[k] /\ segRows'[k] = segRows[k]
    BY <1>1, <1>2, <2>1
  <2>2. QED
    BY <1>1, <2>1 DEF AudioPathBacked, SegAudio
<1>5. QED
  BY <1>3, <1>4 DEF AudioInv

LEMMA AudioStep == AudioInv /\ [Next]_vars => AudioInv'
<1> SUFFICES ASSUME AudioInv, [Next]_vars PROVE AudioInv'
  OBVIOUS
<1>1. TypeInv /\ TypeInv' /\ Grows /\ HandlersOK
  BY TypeInvStep, StepGrows DEF AudioInv, TypeInv
<1>2. CASE UNCHANGED vars \/ \E i \in MsgIds : Age(i) \/ Expire(i)
  <2>1. UNCHANGED <<db, store, work>>
    BY <1>2 DEF vars, db, Age, Expire
  <2>2. Plain
    BY <2>1, AudioSame DEF Plain, RecordsKept, db
  <2>3. QED
    BY <1>1, <2>2, PlainKeeps
<1>3. ASSUME NEW j \in Jobs, Client(j) PROVE AudioInv'
  BY <1>1, <1>3, ClientPlain, PlainKeeps, DeleteKeepsAudio
<1>4. ASSUME NEW c \in Consumers, Deliver(c) \/ Handler(c) \/ Failure(c) PROVE AudioInv'
  <2>1. CASE SynthesizeSegment(c) \/ UpdateSegmentRecord(c)
    BY <1>1, <2>1, SynthesizeKeepsAudio, RecordKeepsAudio
  <2>2. CASE ~SynthesizeSegment(c) /\ ~UpdateSegmentRecord(c)
    <3>1. Plain
      BY <1>1, <1>4, <2>2, DeliveryPlain, GoWorkerPlain, PythonWorkerPlain DEF Handler
    <3>2. QED
      BY <1>1, <3>1, PlainKeeps
  <2>3. QED
    BY <2>1, <2>2
<1>5. QED
  BY <1>2, <1>3, <1>4 DEF Next

\* However many tts-services voice a segment at once, and wherever they die, a
\* segment row only names an audio object that is in the bucket.
THEOREM AudioStaysBacked == Spec => []AudioPathBacked
<1>1. Init => AudioInv
  BY InitTypeInv DEF Init, Idle, AudioInv, Uploaded, AudioPathBacked
<1>2. AudioInv => AudioPathBacked
  BY DEF AudioInv
<1>3. QED
  BY <1>1, <1>2, AudioStep, PTL DEF Spec

-----------------------------------------------------------------------------
(* The audio of an announced part.  Its rows are voiced one by one, so the *)
(* invariant follows them from the message that names them: they are rows  *)
(* of the table when it is published, and while a handler voices them      *)
(* those it has done are voiced.                                           *)

Whole(j, s) == s \subseteq segRows[j] \/ Deleting(j)
Heard(j, s) == s \subseteq voiced[j] \/ Deleting(j)

TextOK(i) ==
  /\ msgs[i].queue = "transcript" =>
       IF "segment_ids" \in msgs[i].fields THEN "segments" \notin msgs[i].fields
                                           ELSE Whole(msgs[i].job, msgs[i].segs)
  /\ Announces(i) => Heard(msgs[i].job, msgs[i].segs)

\* Where the handlers of a queue have segments that their rows are owed to.
Voicing(q) ==
  CASE q = "ingestion" -> {"stage", "publish"}
    [] q = "transcript" -> {"synth", "record", "stage", "publish", "event", "ack"}
    [] OTHER -> {}

VoicerOK(c) ==
  work[c].pc \in Voicing(Serves[c]) =>
    /\ Whole(JobOf(c), work[c].segs)
    /\ Serves[c] = "transcript" =>
         /\ Heard(JobOf(c), work[c].segs \ work[c].todo)
         /\ Regenerates(c) \/ work[c].segs = msgs[work[c].id].segs
         /\ work[c].pc \in {"synth", "record"} \/ work[c].todo = {}

VoicedInv ==
  /\ \A j \in Jobs : Whole(j, edit[j])
  /\ \A i \in MsgIds : i < next => TextOK(i)
  /\ \A c \in Consumers : VoicerOK(c)

\* What steps do to the rows, to the messages there were, to the message they publish, to the
\* handlers that voice and to the requests.
VoicesKept ==
  \A j \in Jobs : /\ Deleting(j) => Deleting(j)'
                  /\ Deleting(j)' \/ (segRows[j] \subseteq segRows'[j] /\ voiced[j] \subseteq voiced'[j])
TextKept == \A i \in MsgIds : i < next => UNCHANGED <<msgs[i].fields, msgs[i].segs>>
NewTextOK == \A i \in MsgIds : next <= i /\ i < next' => TextOK(i)'
GoesOnVoicing(c) ==
  /\ work[c].pc \in Voicing(Serves[c])
  /\ UNCHANGED <<work[c].id, work[c].segs, work[c].todo>>
  /\ work'[c].pc \in {"synth", "record"} \/ work[c].pc \notin {"synth", "record"}
VoicersKept ==
  \A c \in Consumers : work'[c].pc \in Voicing(Serves[c]) => GoesOnVoicing(c) \/ VoicerOK(c)'
EditsKept == \A j \in Jobs : edit'[j] = edit[j] \/ edit'[j] \subseteq segRows[j]
AcksKept ==
  \A i \in MsgIds : i < next /\ msgs'[i].place = "acked" /\ Announces(i)' =>
    Announces(i) \/ Heard(msgs[i].job, msgs[i].segs)

VoiceFlow == VoicesKept /\ TextKept /\ NewTextOK /\ VoicersKept /\ EditsKept /\ AcksKept

LEMMA VoiceKept ==
  ASSUME VoicesKept, NEW j \in Jobs, NEW s
  PROVE  (Whole(j, s) => Whole(j, s)') /\ (Heard(j, s) => Heard(j, s)')
  BY DEF VoicesKept, Whole, Heard, Deleting

LEMMA VoiceFlowKeeps ==
  ASSUME TypeInv, VoicedInv, Grows, VoiceFlow
  PROVE  VoicedInv'
<1>1. VoicesKept /\ TextKept /\ NewTextOK /\ VoicersKept /\ EditsKept /\ AcksKept
  BY DEF VoiceFlow
<1>2. ASSUME NEW j \in Jobs PROVE Whole(j, edit[j])'
  <2>1. Whole(j, edit[j]) \/ edit'[j] \subseteq segRows[j]
    BY DEF VoicedInv
  <2>2. Deleting(j)' \/ edit'[j] \subseteq segRows'[j]
    BY <1>1, <2>1 DEF EditsKept, VoicesKept, Whole
  <2> QED BY <2>2 DEF Whole
<1>3. ASSUME NEW i \in MsgIds, i < next' PROVE TextOK(i)'
  <2>1. CASE i < next
    <3>1. /\ UNCHANGED <<msgs[i].fields, msgs[i].segs, msgs[i].queue, msgs[i].job>>
          /\ msgs[i].job \in Jobs /\ TextOK(i)
      BY <1>1, <2>1, SentIsMsg DEF TextKept, Grows, VoicedInv, TypeInv, Msg
    <3>2. Announces(i)' => Announces(i) \/ Heard(msgs[i].job, msgs[i].segs)
      BY <1>1, <2>1, <3>1 DEF AcksKept, Announces
    <3>3. (Heard(msgs[i].job, msgs[i].segs) => Heard(msgs[i].job, msgs[i].segs)')
          /\ (Whole(msgs[i].job, msgs[i].segs) => Whole(msgs[i].job, msgs[i].segs)')
      BY <1>1, <3>1 DEF VoicesKept, Whole, Heard, Deleting
    <3> QED BY <3>1, <3>2, <3>3 DEF TextOK
  <2>2. CASE ~(i < next)
    BY <1>1, <1>3, <2>2 DEF NewTextOK, MsgIds, TypeInv, BrokerOK
  <2> QED BY <2>1, <2>2
<1>4. ASSUME NEW c \in Consumers PROVE VoicerOK(c)'
  <2>1. CASE GoesOnVoicing(c) /\ work'[c].pc \in Voicing(Serves[c])
    <3>1. work[c].pc # "idle"
      BY <2>1 DEF GoesOnVoicing, Voicing
    <3>2. JobOf(c) \in Jobs /\ work[c].id \in MsgIds /\ work[c].id < next
      BY <3>1, HandlerFacts DEF TypeInv
    <3>3. /\ UNCHANGED <<work[c].id, work[c].segs, work[c].todo>>
          /\ UNCHANGED <<msgs[work[c].id].fields, msgs[work[c].id].segs>>
          /\ JobOf(c)' = JobOf(c)
      BY <1>1, <2>1, <3>2 DEF GoesOnVoicing, TextKept, Grows, JobOf
    <3>4. VoicerOK(c)
      BY DEF VoicedInv
    <3>5. /\ Whole(JobOf(c), work[c].segs) => Whole(JobOf(c), work[c].segs)'
          /\ Heard(JobOf(c), work[c].segs \ work[c].todo) =>
               Heard(JobOf(c), work[c].segs \ work[c].todo)'
      BY <1>1, <3>2, <3>3 DEF VoicesKept, Whole, Heard, Deleting
    <3>6. Regenerates(c)' <=> Regenerates(c)
      BY <3>3 DEF Regenerates, FieldsOf
    <3> QED BY <2>1, <3>3, <3>4, <3>5, <3>6 DEF VoicerOK, GoesOnVoicing
  <2>2. CASE ~(GoesOnVoicing(c) /\ work'[c].pc \in Voicing(Serves[c]))
    BY <1>1, <2>2 DEF VoicersKept, VoicerOK
  <2> QED BY <2>1, <2>2
<1> QED BY <1>2, <1>3, <1>4 DEF VoicedInv

\* The parts a step usually has.
LEMMA SameVoices ==
  ASSUME UNCHANGED <<segRows, voiced, del>>
  PROVE  VoicesKept
  BY DEF VoicesKept, Deleting

LEMMA AtText ==
  ASSUME BrokerOK, NEW i \in MsgIds, i < next, NEW p \in Places
  PROVE  \A k \in MsgIds : k < next => At(i, p)[k].fields = msgs[k].fields /\ At(i, p)[k].segs = msgs[k].segs
<1>1. msgs[i] \in Msg /\ At(i, p)[i] = [msgs[i] EXCEPT !.place = p]
  BY SentIsMsg DEF At, BrokerOK
<1>2. At(i, p)[i].fields = msgs[i].fields /\ At(i, p)[i].segs = msgs[i].segs
  BY <1>1 DEF Msg
<1> QED BY <1>2, AtFacts

\* A handler ends, or goes where nothing is owed, or goes on.
LEMMA VoicersMoved ==
  ASSUME NEW c \in Consumers, Moves(c),
         work'[c].pc \in Voicing(Serves[c]) => GoesOnVoicing(c) \/ VoicerOK(c)'
  PROVE  VoicersKept
  <1>1. ASSUME NEW d \in Consumers, d # c, work'[d].pc \in Voicing(Serves[d]) PROVE GoesOnVoicing(d)
    BY <1>1 DEF Moves, GoesOnVoicing
  <1> QED BY <1>1 DEF VoicersKept

LEMMA GotoVoices ==
  ASSUME HandlersOK, NEW c \in Consumers, work[c].pc # "idle", NEW p \in Pcs \ {"idle"}, Goto(c, p),
         p \in {"synth", "record"} => work[c].todo # {},
         \/ p \notin Voicing(Serves[c])
         \/ /\ work[c].pc \in Voicing(Serves[c])
            /\ p \in {"synth", "record"} \/ work[c].pc \notin {"synth", "record"}
  PROVE  VoicersKept
<1>1. work'[c] = [work[c] EXCEPT !.pc = p] /\ \A d \in Consumers : d # c => work'[d] = work[d]
  BY DEF HandlersOK, Goto
<1>2. work'[c].pc = p /\ UNCHANGED <<work[c].id, work[c].segs, work[c].todo>>
  BY <1>1 DEF HandlersOK, Work
<1>3. ASSUME NEW d \in Consumers, work'[d].pc \in Voicing(Serves[d]) PROVE GoesOnVoicing(d)
  BY <1>1, <1>2, <1>3 DEF GoesOnVoicing
<1> QED BY <1>3 DEF VoicersKept

LEMMA ReleaseVoices ==
  ASSUME HandlersOK, NEW c \in Consumers, Release(c)
  PROVE  VoicersKept
<1>1. Moves(c) /\ work'[c].pc = "idle"
  BY ReleaseMoves
<1> QED BY <1>1, VoicersMoved DEF Voicing

\* Every step but an acknowledgement; most of them publish nothing and leave the rows alone.
LEMMA UnackedVoices ==
  ASSUME TypeInv, VoicesKept, TextKept, NewTextOK, VoicersKept, EditsKept, Grows, NoNewAck
  PROVE  VoiceFlow
<1>1. AcksKept
  <2> SUFFICES ASSUME NEW i \in MsgIds, i < next, msgs'[i].place = "acked", Announces(i)'
               PROVE  Announces(i)
    BY DEF AcksKept
  <2>1. msgs[i].place = "acked" /\ msgs'[i].queue = msgs[i].queue /\ msgs'[i].fields = msgs[i].fields
    BY DEF NoNewAck, Grows, TextKept
  <2> QED BY <2>1 DEF Announces
<1> QED BY <1>1 DEF VoiceFlow

LEMMA QuietVoices ==
  ASSUME TypeInv, UNCHANGED <<segRows, voiced, del, edit, next>>, TextKept, VoicersKept,
         Grows, NoNewAck
  PROVE  VoiceFlow
<1>1. NewTextOK
  BY DEF NewTextOK, TypeInv, BrokerOK, MsgIds
<1> QED BY <1>1, SameVoices, UnackedVoices DEF EditsKept

LEMMA GivesUpText ==
  ASSUME TypeInv, NEW c \in Consumers, work[c].pc # "idle",
         \/ msgs' = msgs \/ Reject(c) \/ Requeue(c)
         \/ \E p \in Places : msgs' = At(work[c].id, p)
  PROVE  TextKept
<1>1. work[c].id \in MsgIds /\ work[c].id < next /\ BrokerOK
  BY HandlerFacts DEF TypeInv
<1>2. ASSUME NEW p \in Places, msgs' = At(work[c].id, p) PROVE TextKept
  BY <1>1, <1>2, AtText DEF TextKept
<1>3. CASE Requeue(c) /\ work[c].held
  BY <1>2, <1>3, ReturnedIsAt DEF Requeue, Places
<1> QED BY <1>2, <1>3 DEF TextKept, Reject, Requeue, Places

\* The steps of the Go workers but for their publishes, and the failures.
LEMMA GoVoices ==
  ASSUME TypeInv, Grows, NEW c \in Consumers,
         \/ LostChannel(c)
         \/ MuxStart(c) \/ MuxDownload(c) \/ MuxUpload(c) \/ MuxStage(c)
         \/ DeliveryStart(c) \/ Presign(c) \/ Complete(c) \/ SendWebhooks(c)
         \/ Disconnect(c) \/ Crash(c) \/ CallFails(c) \/ StatementFails(c)
  PROVE  VoiceFlow
<1>1. HandlersOK /\ work \in [Consumers -> Work]
  BY DEF TypeInv, HandlersOK
<1>2. UNCHANGED <<segRows, voiced, del, edit, next>>
  BY DEF LostChannel, MuxStart, MuxDownload, MuxUpload, MuxStage, DeliveryStart, Presign, Complete,
         SendWebhooks, Disconnect, Crash, CallFails, StatementFails, db, broker, requests
<1>3. NoNewAck
  BY OrdinaryStep, CompleteStep DEF Ordinary, Failure, StepOK, MsgsKept
<1>4. TextKept
  <2>1. CASE work[c].pc = "idle"
    BY <1>1, <2>1 DEF LostChannel, MuxStart, MuxDownload, MuxUpload, MuxStage, DeliveryStart, Presign,
           Complete, SendWebhooks, AtStep, Disconnect, Crash, CallFails, StatementFails, CallPcs, Queries,
           TypeInv, HandlersOK, HandlerOK, TextKept
  <2>2. CASE work[c].pc # "idle"
    <3>1. \/ msgs' = msgs \/ Reject(c) \/ Requeue(c) \/ msgs' = Returned(work[c].id)
      BY DEF LostChannel, MuxStart, MuxDownload, MuxUpload, MuxStage, DeliveryStart, Presign,
           Complete, SendWebhooks, Disconnect, Crash, CallFails, StatementFails, broker
    <3>2. \/ msgs' = msgs \/ Reject(c) \/ Requeue(c)
          \/ \E p \in Places : msgs' = At(work[c].id, p)
      BY <3>1, ReturnedIsAt DEF Places
    <3> QED BY <2>2, <3>2, GivesUpText
  <2> QED BY <2>1, <2>2
<1>5. VoicersKept
  <2>1. CASE Disconnect(c)
    <3>1. /\ \A d \in Consumers : d # c => work'[d] = work[d]
          /\ UNCHANGED <<work[c].pc, work[c].id, work[c].segs, work[c].todo>>
      BY <1>1, <2>1 DEF Disconnect, Work
    <3> QED BY <3>1 DEF VoicersKept, GoesOnVoicing
  <2>2. CASE ~Disconnect(c)
    <3>1. \/ Release(c)
          \/ /\ \E p \in Pcs \ {"idle", "synth", "record"} : Goto(c, p)
             /\ Serves[c] \in {"audio", "delivery"} /\ work[c].pc # "idle"
      BY <2>2 DEF LostChannel, MuxStart, MuxDownload, MuxUpload, MuxStage, DeliveryStart, Presign,
           Complete, SendWebhooks, AtStep, Crash, CallFails, StatementFails, Reject, Requeue, Pcs
    <3> QED BY <1>1, <3>1, ReleaseVoices, GotoVoices DEF Voicing
  <2> QED BY <2>1, <2>2
<1> QED BY <1>2, <1>3, <1>4, <1>5, QuietVoices

\* The Python steps that publish nothing and leave the rows alone.
LEMMA PythonVoices ==
  ASSUME TypeInv, Grows, NEW c \in Consumers,
         \/ SessionBroken(c) \/ AnalyzerStart(c) \/ Analyze(c) \/ UpdateJobStage(c)
         \/ SynthesizeSegment(c) \/ MarkSynthesized(c) \/ SynthesizedEvent(c)
  PROVE  VoiceFlow
<1>1. HandlersOK /\ work \in [Consumers -> Work] /\ work[c].pc # "idle"
  BY DEF TypeInv, HandlersOK, SessionBroken, Queries, AnalyzerStart, Analyze, UpdateJobStage,
         SynthesizeSegment, MarkSynthesized, SynthesizedEvent, AtStep
<1>2. UNCHANGED <<segRows, voiced, del, edit, next>>
  BY DEF SessionBroken, AnalyzerStart, Analyze, UpdateJobStage, SynthesizeSegment, MarkSynthesized,
         SynthesizedEvent, db, broker, requests
<1>3. NoNewAck /\ Moves(c)
  BY OrdinaryStep DEF Ordinary, StepOK, MsgsKept
<1>4. TextKept
  <2>1. msgs' = msgs \/ Reject(c)
    BY DEF SessionBroken, AnalyzerStart, Analyze, UpdateJobStage, SynthesizeSegment, MarkSynthesized,
           SynthesizedEvent, broker
  <2> QED BY <1>1, <2>1, GivesUpText
<1>5. VoicersKept
  <2>1. CASE SessionBroken(c)
    BY <1>1, <2>1, ReleaseVoices DEF SessionBroken, Reject
  <2>2. CASE AnalyzerStart(c)
    BY <1>1, <2>2, ReleaseVoices, GotoVoices DEF AnalyzerStart, AtStep, Reject, Pcs, Voicing
  <2>3. CASE Analyze(c)
    <3>1. work'[c].pc = "store" /\ Serves[c] = "ingestion"
      BY <1>1, <2>3 DEF Analyze, AtStep, Work
    <3> QED BY <1>3, <3>1, VoicersMoved DEF Voicing
  <2>4. CASE UpdateJobStage(c)
    BY <1>1, <2>4, GotoVoices DEF UpdateJobStage, AtStep, Pcs, Voicing
  <2>5. CASE SynthesizeSegment(c)
    <3>1. work[c].todo # {}
      BY <1>1, <2>5 DEF HandlersOK, HandlerOK, SynthesizeSegment, AtStep
    <3> QED BY <1>1, <2>5, <3>1, GotoVoices DEF SynthesizeSegment, AtStep, Pcs, Voicing
  <2>6. CASE MarkSynthesized(c)
    BY <1>1, <2>6, GotoVoices DEF MarkSynthesized, AtStep, Pcs, Voicing
  <2>7. CASE SynthesizedEvent(c)
    BY <1>1, <2>7, GotoVoices DEF SynthesizedEvent, AtStep, Pcs, Voicing
  <2> QED BY <2>1, <2>2, <2>3, <2>4, <2>5, <2>6, <2>7
<1> QED BY <1>2, <1>3, <1>4, <1>5, QuietVoices

\* What a handler is owed is in the table once the analyzer has stored it.
LEMMA StoreVoices ==
  ASSUME TypeInv, Grows, NEW c \in Consumers, StoreSegments(c)
  PROVE  VoiceFlow
<1>1. /\ HandlersOK /\ work \in [Consumers -> Work] /\ work[c].pc = "store" /\ Serves[c] = "ingestion"
      /\ segRows \in [Jobs -> SUBSET Segs] /\ BrokerOK
  BY DEF TypeInv, HandlersOK, StoresOK, StoreSegments, AtStep
<1>2. NoNewAck /\ Moves(c) /\ JobOf(c) \in Jobs
  BY <1>1, OrdinaryStep, HandlerFacts DEF Ordinary, StepOK, MsgsKept
<1>3. VoicesKept /\ EditsKept /\ NewTextOK
  BY <1>1 DEF StoreSegments, VoicesKept, Deleting, EditsKept, requests, NewTextOK, BrokerOK, MsgIds
<1>4. TextKept
  BY <1>1, GivesUpText DEF StoreSegments
<1>5. VoicersKept
  <2>1. CASE Release(c)
    BY <1>1, <2>1, ReleaseVoices
  <2>2. CASE ~Release(c)
    <3>1. /\ segRows' = [segRows EXCEPT ![JobOf(c)] = @ \cup work[c].segs]
          /\ Goto(c, "stage") /\ UNCHANGED msgs
      BY <2>2 DEF StoreSegments, Reject
    <3>2. work'[c].segs = work[c].segs /\ work'[c].id = work[c].id
      BY <1>1, <3>1 DEF Goto, Work
    <3>3. JobOf(c)' = JobOf(c)
      BY <3>1, <3>2 DEF JobOf
    <3>4. VoicerOK(c)'
      BY <1>1, <1>2, <3>1, <3>2, <3>3 DEF VoicerOK, Whole
    <3> QED BY <1>2, <3>4, VoicersMoved
  <2> QED BY <2>1, <2>2
<1> QED BY <1>2, <1>3, <1>4, <1>5, UnackedVoices

LEMMA SelectVoices ==
  ASSUME TypeInv, VoicedInv, Grows, NEW c \in Consumers, SelectSegments(c)
  PROVE  VoiceFlow
<1>1. HandlersOK /\ work \in [Consumers -> Work] /\ work[c].pc = "start" /\ Serves[c] = "transcript"
  BY DEF TypeInv, HandlersOK, SelectSegments, AtStep
<1>2. /\ NoNewAck /\ Moves(c) /\ work[c].id \in MsgIds /\ work[c].id < next
      /\ msgs[work[c].id].queue = "transcript"
  BY <1>1, OrdinaryStep, HandlerFacts DEF Ordinary, StepOK, MsgsKept, TypeInv, HandlersOK, HandlerOK
<1>3. UNCHANGED <<segRows, voiced, del, edit, next>>
  BY DEF SelectSegments, db, requests
<1>4. TextKept
  BY <1>1, GivesUpText DEF SelectSegments
<1> DEFINE i == work[c].id
           chosen == IF Regenerates(c) THEN msgs[i].segs \cap segRows[JobOf(c)] ELSE msgs[i].segs
<1>5. CASE chosen # {}
  <2>1. /\ UNCHANGED msgs
        /\ work' = [work EXCEPT ![c].pc = "synth", ![c].todo = chosen, ![c].segs = chosen]
    BY <1>5 DEF SelectSegments
  <2> HIDE DEF chosen
  <2>2. /\ work'[c].pc = "synth" /\ work'[c].todo = chosen /\ work'[c].segs = chosen
        /\ work'[c].id = i
    BY <1>1, <2>1 DEF Work
  <2>3. JobOf(c)' = JobOf(c) /\ (Regenerates(c)' <=> Regenerates(c)) /\ msgs' = msgs
    BY <2>1, <2>2 DEF JobOf, Regenerates, FieldsOf
  <2>4. Whole(JobOf(c), chosen) /\ (Regenerates(c) \/ chosen = msgs[i].segs)
    <3>1. CASE Regenerates(c)
      BY <3>1 DEF chosen, Whole
    <3>2. CASE ~Regenerates(c)
      BY <1>2, <3>2 DEF chosen, VoicedInv, TextOK, Regenerates, FieldsOf, JobOf
    <3> QED BY <3>1, <3>2
  <2>5. VoicerOK(c)'
    BY <1>3, <2>2, <2>3, <2>4 DEF VoicerOK, Whole, Heard, Deleting
  <2>6. VoicersKept
    BY <1>2, <2>5, VoicersMoved
  <2> QED BY <1>2, <1>3, <1>4, <2>6, QuietVoices
<1>6. CASE chosen = {}
  BY <1>1, <1>2, <1>3, <1>4, <1>6, ReleaseVoices, QuietVoices DEF SelectSegments, Reject
<1> QED BY <1>5, <1>6

\* A segment is voiced in its own row, which is there unless a DELETE is at work.
LEMMA RecordVoices ==
  ASSUME TypeInv, VoicedInv, Grows, NEW c \in Consumers, UpdateSegmentRecord(c)
  PROVE  VoiceFlow
<1>1. /\ HandlersOK /\ work \in [Consumers -> Work] /\ work[c].pc = "record"
      /\ Serves[c] = "transcript" /\ voiced \in [Jobs -> SUBSET Segs] /\ BrokerOK
  BY DEF TypeInv, HandlersOK, UpdateSegmentRecord, AtStep, StoresOK
<1>2. NoNewAck /\ Moves(c) /\ JobOf(c) \in Jobs /\ VoicerOK(c)
  BY <1>1, OrdinaryStep, HandlerFacts DEF Ordinary, StepOK, MsgsKept, VoicedInv
<1> DEFINE i == Current(c)
           left == work[c].todo \ {i}
           pc == IF left # {} THEN "synth" ELSE IF Regenerates(c) THEN "publish" ELSE "stage"
<1>3. /\ voiced' = IF i \in segRows[JobOf(c)] THEN [voiced EXCEPT ![JobOf(c)] = @ \cup {i}] ELSE voiced
      /\ work' = [work EXCEPT ![c].todo = left, ![c].pc = pc]
      /\ UNCHANGED <<segRows, del, edit, msgs, next>>
  BY DEF UpdateSegmentRecord, broker, requests
<1>4. VoicesKept
  BY <1>1, <1>2, <1>3 DEF VoicesKept, Deleting
<1> HIDE DEF left, pc
<1>5. /\ work'[c].todo = left /\ work'[c].pc = pc
      /\ work'[c].segs = work[c].segs /\ work'[c].id = work[c].id
  BY <1>1, <1>3 DEF Work
<1>6. /\ JobOf(c)' = JobOf(c) /\ (Regenerates(c)' <=> Regenerates(c)) /\ Deleting(JobOf(c))' = Deleting(JobOf(c))
  BY <1>3, <1>5 DEF JobOf, Regenerates, FieldsOf, Deleting
<1>7. Heard(JobOf(c), work[c].segs \ work[c].todo)'
  <2>1. CASE Deleting(JobOf(c))
    BY <1>6, <2>1 DEF Heard
  <2>2. CASE ~Deleting(JobOf(c))
    <3>1. /\ work[c].segs \subseteq segRows[JobOf(c)]
          /\ work[c].segs \ work[c].todo \subseteq voiced[JobOf(c)]
      BY <1>1, <1>2, <2>2 DEF VoicerOK, Voicing, Whole, Heard
    <3>2. work[c].segs \ left \subseteq voiced'[JobOf(c)]
      <4>1. CASE i \in segRows[JobOf(c)]
        BY <1>1, <1>2, <1>3, <3>1, <4>1 DEF left
      <4>2. CASE i \notin segRows[JobOf(c)]
        BY <1>3, <3>1, <4>2 DEF left
      <4> QED BY <4>1, <4>2
    <3> QED BY <1>3, <1>5, <1>6, <3>2 DEF Heard
  <2> QED BY <2>1, <2>2
<1>8. VoicerOK(c)'
  <2>1. Whole(JobOf(c), work[c].segs)'
    BY <1>1, <1>2, <1>3, <1>5, <1>6 DEF VoicerOK, Voicing, Whole, Deleting
  <2>2. Regenerates(c)' \/ work'[c].segs = msgs'[work'[c].id].segs
    BY <1>1, <1>2, <1>3, <1>5, <1>6 DEF VoicerOK, Voicing
  <2>3. work'[c].pc \in {"synth", "record"} \/ work'[c].todo = {}
    BY <1>5 DEF pc
  <2> QED BY <1>7, <2>1, <2>2, <2>3 DEF VoicerOK
<1>9. TextKept /\ NewTextOK /\ EditsKept
  BY <1>1, <1>3 DEF TextKept, NewTextOK, EditsKept, BrokerOK, MsgIds
<1> QED BY <1>2, <1>4, <1>8, <1>9, VoicersMoved, UnackedVoices

\* The message a publish adds is the only new one.
LEMMA EnqueueText ==
  ASSUME BrokerOK, NEW ms \in [MsgIds -> Msg \cup {Unsent}],
         \A k \in MsgIds : k < next => ms[k].fields = msgs[k].fields /\ ms[k].segs = msgs[k].segs,
         NEW q \in Queues, NEW j \in Jobs,
         NEW fields \in SUBSET Fields, NEW segs \in SUBSET Segs,
         Enqueue(ms, q, j, fields, segs),
         q = "transcript" /\ "segment_ids" \notin fields => Whole(j, segs)',
         "segments" \in fields => "segment_ids" \notin fields,
         q = "audio" /\ "segments_count" \in fields => Heard(j, segs)'
  PROVE  TextKept /\ NewTextOK
<1>1. /\ next' = next + 1 /\ next \in Nat
      /\ msgs'[next] = NewMsg(q, j, fields, segs)
      /\ \A k \in MsgIds : k # next => msgs'[k] = ms[k]
  BY DEF Enqueue, BrokerOK
<1>2. TextKept
  BY <1>1 DEF TextKept, MsgIds
<1>3. ASSUME NEW k \in MsgIds, next <= k, k < next' PROVE TextOK(k)'
  <2>1. k = next
    BY <1>1, <1>3 DEF MsgIds
  <2>2. /\ msgs'[k].queue = q /\ msgs'[k].job = j /\ msgs'[k].fields = fields
        /\ msgs'[k].segs = segs /\ msgs'[k].place = "ready"
    BY <1>1, <2>1 DEF NewMsg
  <2>3. Announces(k)' => q = "audio" /\ "segments_count" \in fields
    BY <2>2 DEF Announces
  <2>4. Announces(k)' => Heard(msgs[k].job, msgs[k].segs)'
    BY <2>2, <2>3
  <2>5. (msgs[k].queue = "transcript" =>
           IF "segment_ids" \in msgs[k].fields THEN "segments" \notin msgs[k].fields
                                               ELSE Whole(msgs[k].job, msgs[k].segs))'
    BY <2>2
  <2> QED BY <2>4, <2>5 DEF TextOK
<1> QED BY <1>2, <1>3 DEF NewTextOK

LEMMA PublishText ==
  ASSUME BrokerOK, NEW q \in Queues, NEW j \in Jobs,
         NEW fields \in SUBSET Fields, NEW segs \in SUBSET Segs,
         Enqueue(msgs, q, j, fields, segs),
         q = "transcript" /\ "segment_ids" \notin fields => Whole(j, segs)',
         "segments" \in fields => "segment_ids" \notin fields,
         q = "audio" /\ "segments_count" \in fields => Heard(j, segs)'
  PROVE  TextKept /\ NewTextOK
<1>1. msgs \in [MsgIds -> Msg \cup {Unsent}]
  BY DEF BrokerOK
<1> QED BY <1>1, EnqueueText

LEMMA PlainText ==
  ASSUME BrokerOK, NEW q \in Queues \ {"transcript"}, NEW j \in Jobs, NEW fields \in SUBSET Fields,
         {"segments", "segments_count"} \cap fields = {}, Enqueue(msgs, q, j, fields, {})
  PROVE  TextKept /\ NewTextOK
  BY PublishText

LEMMA PublishVoices ==
  ASSUME TypeInv, VoicedInv, Grows, NEW c \in Consumers, PublishTranscript(c) \/ PublishAudio(c)
  PROVE  VoiceFlow
<1>1. /\ HandlersOK /\ work \in [Consumers -> Work] /\ BrokerOK /\ work[c].pc = "publish"
      /\ UNCHANGED <<segRows, voiced, del, edit>>
  BY DEF TypeInv, HandlersOK, PublishTranscript, PublishAudio, AtStep, db, requests
<1>2. /\ NoNewAck /\ VoicerOK(c) /\ JobOf(c) \in Jobs /\ work[c].segs \in SUBSET Segs
  BY <1>1, OrdinaryStep, HandlerFacts DEF Ordinary, StepOK, MsgsKept, VoicedInv
<1> DEFINE j == JobOf(c)
           s == work[c].segs
<1>3. CASE PublishTranscript(c)
  <2>1. /\ Serves[c] = "ingestion" /\ Enqueue(msgs, "transcript", j, {"segments"}, s) /\ Goto(c, "ack")
    BY <1>3 DEF PublishTranscript, AtStep
  <2>2. Whole(j, s)
    BY <1>1, <1>2, <2>1 DEF VoicerOK, Voicing
  <2>3. PICK k \in Jobs, r \in SUBSET Segs : k = j /\ r = s
    BY <1>2
  <2>4. Whole(k, r)'
    BY <1>1, <2>2, <2>3 DEF Whole, Deleting
  <2>5. TextKept /\ NewTextOK
    BY <1>1, <2>1, <2>3, <2>4, PublishText DEF Queues, Fields
  <2>6. VoicersKept
    BY <1>1, <2>1, GotoVoices DEF Pcs, Voicing
  <2> QED BY <1>1, <1>2, <2>5, <2>6, SameVoices, UnackedVoices DEF EditsKept
<1>4. CASE PublishAudio(c)
  <2>1. /\ Serves[c] = "transcript" /\ Enqueue(msgs, "audio", j, {"segments_count"}, s)
        /\ \E p \in {"ack", "event"} : Goto(c, p)
    BY <1>4 DEF PublishAudio, AtStep
  <2>2. Heard(j, s)
    BY <1>1, <1>2, <2>1 DEF VoicerOK, Voicing, Heard
  <2>3. PICK k \in Jobs, r \in SUBSET Segs : k = j /\ r = s
    BY <1>2
  <2>4. Heard(k, r)'
    BY <1>1, <2>2, <2>3 DEF Heard, Deleting
  <2>5. TextKept /\ NewTextOK
    BY <1>1, <2>1, <2>3, <2>4, PublishText DEF Queues, Fields
  <2>6. VoicersKept
    BY <1>1, <2>1, GotoVoices DEF Pcs, Voicing
  <2> QED BY <1>1, <1>2, <2>5, <2>6, SameVoices, UnackedVoices DEF EditsKept
<1> QED BY <1>3, <1>4

\* A delivery message names no segment.
LEMMA DeliverableVoices ==
  ASSUME TypeInv, Grows, NEW c \in Consumers, PublishDelivery(c) \/ ConfirmTimeout(c)
  PROVE  VoiceFlow
<1>1. /\ HandlersOK /\ work[c].pc = "publish" /\ Serves[c] = "audio" /\ BrokerOK
      /\ UNCHANGED <<segRows, voiced, del, edit>>
  BY DEF TypeInv, PublishDelivery, ConfirmTimeout, AtStep, db, requests
<1>2. NoNewAck /\ Moves(c) /\ JobOf(c) \in Jobs /\ work[c].id \in MsgIds /\ work[c].id < next
  BY <1>1, OrdinaryStep, HandlerFacts DEF Ordinary, Failure, StepOK, MsgsKept
<1>3. VoicersKept
  BY <1>1, <1>2, VoicersMoved DEF Voicing
<1>4. TextKept /\ NewTextOK
  <2>1. PICK k \in Jobs : k = JobOf(c)
    BY <1>2
  <2>f. PICK f \in SUBSET Fields, q \in Queues, s \in SUBSET Segs :
          f = {"output_file"} /\ q = "delivery" /\ s = {}
    BY DEF Fields, Queues
  <2>n. "segments" \notin f /\ q # "transcript" /\ q # "audio"
    BY <2>f
  <2>2. CASE Enqueue(msgs, "delivery", JobOf(c), {"output_file"}, {})
    <3>1. Enqueue(msgs, q, k, f, s)
      BY <2>1, <2>2, <2>f
    <3> QED BY <1>1, <2>n, <3>1, PublishText
  <2>3. CASE Enqueue(Returned(work[c].id), "delivery", JobOf(c), {"output_file"}, {})
    <3>1. PICK p \in {"ready", "dead"} : Returned(work[c].id) = At(work[c].id, p)
      BY ReturnedIsAt
    <3>2. At(work[c].id, p) \in [MsgIds -> Msg \cup {Unsent}]
      BY <1>1, <1>2, AtFacts DEF Places
    <3>3. \A m \in MsgIds : m < next =>
            At(work[c].id, p)[m].fields = msgs[m].fields /\ At(work[c].id, p)[m].segs = msgs[m].segs
      BY <1>1, <1>2, AtText DEF Places
    <3>4. Enqueue(At(work[c].id, p), q, k, f, s)
      BY <2>1, <2>3, <2>f, <3>1
    <3> QED BY <1>1, <2>n, <3>2, <3>3, <3>4, EnqueueText
  <2>4. CASE Requeue(c) /\ next' = next
    BY <1>1, <2>4, GivesUpText DEF NewTextOK, BrokerOK, MsgIds
  <2> QED BY <2>2, <2>3, <2>4 DEF PublishDelivery, ConfirmTimeout
<1> QED BY <1>1, <1>2, <1>3, <1>4, SameVoices, UnackedVoices DEF EditsKept

\* A message is acknowledged when its handler has voiced what it names.
LEMMA AckVoices ==
  ASSUME TypeInv, VoicedInv, Grows, NEW c \in Consumers, Ack(c)
  PROVE  VoiceFlow
<1>1. /\ HandlersOK /\ BrokerOK /\ work[c].pc = "ack" /\ work[c].id \in MsgIds /\ work[c].id < next
      /\ UNCHANGED <<segRows, voiced, del, edit, next>> /\ Release(c)
      /\ \A i \in MsgIds : i # work[c].id => msgs'[i] = msgs[i]
  BY AckStep DEF TypeInv, Ack, db, requests
<1>2. TextKept
  BY <1>1, GivesUpText DEF Ack, Places
<1>3. AcksKept
  <2> SUFFICES ASSUME NEW i \in MsgIds, i < next, msgs'[i].place = "acked", Announces(i)', ~Announces(i)
               PROVE  Heard(msgs[i].job, msgs[i].segs)
    BY DEF AcksKept
  <2>1. msgs'[i].queue = msgs[i].queue /\ msgs'[i].fields = msgs[i].fields
    BY <1>2 DEF TextKept, Grows
  <2>2. i = work[c].id
    BY <1>1 DEF Announces
  <2>3. msgs[i].queue = "transcript" /\ "segments" \in msgs[i].fields
    BY <2>1 DEF Announces
  <2>4. Serves[c] = "transcript" /\ ~Regenerates(c)
    BY <1>1, <2>2, <2>3 DEF HandlersOK, HandlerOK, VoicedInv, TextOK, Regenerates, FieldsOf
  <2>5. VoicerOK(c)
    BY DEF VoicedInv
  <2> QED BY <1>1, <2>2, <2>4, <2>5 DEF VoicerOK, Voicing, JobOf, Heard
<1>4. NewTextOK
  BY <1>1 DEF NewTextOK, BrokerOK, MsgIds
<1> QED BY <1>1, <1>2, <1>3, <1>4, ReleaseVoices, SameVoices DEF VoiceFlow, EditsKept

\* A delivery starts a handler from scratch; ageing and expiry touch no text.
LEMMA DeliverVoices ==
  ASSUME TypeInv, Grows, NEW c \in Consumers, Deliver(c)
  PROVE  VoiceFlow
<1>1. /\ NoNewAck /\ work'[c].pc = "start" /\ \A d \in Consumers : d # c => work'[d] = work[d]
      /\ UNCHANGED <<segRows, voiced, del, edit, next>>
  BY DeliverStep DEF MsgsKept, Deliver, db, requests
<1>2. VoicersKept
  BY <1>1 DEF VoicersKept, GoesOnVoicing, Voicing
<1>3. TextKept
  BY DEF Deliver, TextKept, Ready, TypeInv, BrokerOK, MsgIds, Msg, Unsent
<1> QED BY <1>1, <1>2, <1>3, QuietVoices

LEMMA TimeVoices ==
  ASSUME TypeInv, Grows, NEW i \in MsgIds, Age(i) \/ Expire(i)
  PROVE  VoiceFlow
<1>1. NoNewAck /\ work' = work /\ UNCHANGED <<segRows, voiced, del, edit, next>>
  BY AgeStep, ExpireStep DEF QuietOK, MsgsKept, Age, Expire, db, requests
<1>2. VoicersKept
  BY <1>1 DEF VoicersKept, GoesOnVoicing
<1>3. BrokerOK /\ i < next
  BY DEF Age, Expire, TypeInv, BrokerOK, MsgIds
<1>4. CASE Expire(i)
  BY <1>1, <1>2, <1>3, <1>4, AtText, QuietVoices DEF Expire, TextKept, Places
<1>5. CASE Age(i)
  <2>1. TextKept
    BY <1>3, <1>5, SentIsMsg DEF Age, TextKept, BrokerOK, Msg
  <2> QED BY <1>1, <1>2, <2>1, QuietVoices
<1> QED BY <1>4, <1>5

\* A request sends the rows it has read; a DELETE takes the rows when it is at work on the job.
LEMMA ClientVoices ==
  ASSUME TypeInv, VoicedInv, Grows, NEW j \in Jobs, Client(j)
  PROVE  VoiceFlow
<1>1. /\ BrokerOK /\ StoresOK /\ NoNewAck /\ work' = work
  BY ClientStep DEF TypeInv, QuietOK, MsgsKept
<1>2. VoicersKept
  BY <1>1 DEF VoicersKept, GoesOnVoicing
<1>3. VoicesKept
  <2>1. CASE ReadJobToDelete(j) \/ DeleteSegments(j) \/ DeleteRow(j) \/ DeleteObjects(j) \/ DeleteFails(j)
    <3>1. /\ \A k \in Jobs : k # j => UNCHANGED <<del[k], segRows[k], voiced[k]>>
          /\ del'[j].pc # "none"
      BY <1>1, <2>1 DEF ReadJobToDelete, DeleteSegments, DeleteRow, DeleteObjects, DeleteFails,
                        StoresOK, db
    <3> QED BY <3>1 DEF VoicesKept, Deleting
  <2>2. CASE \/ StoreVideo(j) \/ InsertJob(j) \/ PublishIngestion(j) \/ CreateFails(j) \/ CompleteUpload(j)
             \/ UpdateTranscript(j) \/ PublishEdit(j) \/ RegenerateSegment(j) \/ DocumentedMessage(j)
    BY <2>2, SameVoices DEF StoreVideo, InsertJob, PublishIngestion, CreateFails, CompleteUpload,
       UpdateTranscript, PublishEdit, RegenerateSegment, DocumentedMessage, db, requests
  <2> QED BY <2>1, <2>2 DEF Client
<1>4. EditsKept
  <2>1. CASE UpdateTranscript(j) \/ RegenerateSegment(j)
    BY <1>1, <2>1 DEF UpdateTranscript, RegenerateSegment, EditsKept, StoresOK
  <2>2. CASE PublishEdit(j)
    BY <1>1, <2>2 DEF PublishEdit, EditsKept, StoresOK
  <2>3. CASE ~(UpdateTranscript(j) \/ RegenerateSegment(j) \/ PublishEdit(j))
    BY <2>3 DEF Client, StoreVideo, InsertJob, PublishIngestion, CreateFails, CompleteUpload,
       DocumentedMessage, ReadJobToDelete, DeleteObjects, DeleteSegments, DeleteRow, DeleteFails,
       requests, EditsKept
  <2> QED BY <2>1, <2>2, <2>3
<1>5. TextKept /\ NewTextOK
  <2>1. CASE UNCHANGED <<msgs, next>>
    BY <1>1, <2>1 DEF TextKept, NewTextOK, BrokerOK, MsgIds
  <2>2. CASE Enqueue(msgs, "ingestion", j, {"original_file"}, {})
    BY <1>1, <2>2, PlainText DEF Queues, Fields
  <2>3. CASE DocumentedMessage(j)
    <3>1. CASE Enqueue(msgs, "ingestion", j, {"object_key"}, {})
      BY <1>1, <3>1, PlainText DEF Queues, Fields
    <3>2. CASE Enqueue(msgs, "audio", j, {"original_file", "audio_file"}, {})
      BY <1>1, <3>2, PlainText DEF Queues, Fields
    <3>3. ASSUME NEW ids \in SUBSET Segs, Enqueue(msgs, "transcript", j, {"segment_ids"}, ids)
          PROVE  TextKept /\ NewTextOK
      BY <1>1, <3>3, PublishText DEF Queues, Fields
    <3> QED BY <2>3, <3>1, <3>2, <3>3 DEF DocumentedMessage
  <2>4. CASE PublishEdit(j)
    <3>1. PICK s \in SUBSET Segs : s = edit[j] /\ Whole(j, s)
      BY <1>1 DEF StoresOK, VoicedInv
    <3>2. Whole(j, s)'
      BY <1>3, <3>1 DEF VoicesKept, Whole, Deleting
    <3>3. CASE Enqueue(msgs, "transcript", j, {"segments"}, edit[j])
      BY <1>1, <3>1, <3>2, <3>3, PublishText DEF Queues, Fields
    <3> QED BY <2>1, <2>4, <3>3 DEF PublishEdit, broker
  <2>5. CASE ~DocumentedMessage(j) /\ ~PublishEdit(j)
    BY <2>1, <2>2, <2>5 DEF Client, StoreVideo, InsertJob, PublishIngestion, CreateFails,
       CompleteUpload, UpdateTranscript, RegenerateSegment, ReadJobToDelete, DeleteObjects,
       DeleteSegments, DeleteRow, DeleteFails, broker
  <2> QED BY <2>3, <2>4, <2>5
<1> QED BY <1>1, <1>2, <1>3, <1>4, <1>5, UnackedVoices

LEMMA VoicedStep == TypeInv /\ VoicedInv /\ [Next]_vars => VoicedInv'
<1> SUFFICES ASSUME TypeInv, VoicedInv, [Next]_vars PROVE VoicedInv'
  OBVIOUS
<1>1. Grows
  BY StepGrows
<1>2. CASE UNCHANGED vars
  <2>1. VoiceFlow
    BY <1>1, <1>2, QuietVoices
    DEF vars, db, broker, requests, TextKept, NoNewAck, VoicersKept, GoesOnVoicing
  <2> QED BY <1>1, <2>1, VoiceFlowKeeps
<1>3. CASE Next
  <2>1. VoiceFlow
    <3>1. ASSUME NEW c \in Consumers, Deliver(c) \/ Handler(c) \/ Failure(c) PROVE VoiceFlow
      BY <1>1, <3>1, DeliverVoices, AckVoices, GoVoices, PythonVoices, StoreVoices, SelectVoices,
         RecordVoices, PublishVoices, DeliverableVoices
      DEF Handler, Failure
    <3> QED BY <1>1, <1>3, <3>1, ClientVoices, TimeVoices DEF Next
  <2> QED BY <1>1, <2>1, VoiceFlowKeeps
<1> QED BY <1>2, <1>3

\* Wherever the tts-service fails, dies or runs beside a second replica, it announces to the
\* mux-service and acknowledges only parts whose every segment row has audio, unless somebody
\* began to delete the job.
THEOREM AnnouncedIsVoicedHolds == Spec => []AnnouncedIsVoiced
<1>1. Init => TypeInv /\ VoicedInv
  <2>1. Init => TypeInv
    BY InitTypeInv
  <2>2. ASSUME Init PROVE VoicedInv
    <3>1. \A j \in Jobs : Whole(j, edit[j])
      BY <2>2 DEF Init, Whole
    <3>2. \A i \in MsgIds : ~(i < next)
      BY <2>2 DEF Init, MsgIds
    <3>3. \A c \in Consumers : work[c].pc = "idle"
      BY <2>2 DEF Init, Idle
    <3>4. \A c \in Consumers : VoicerOK(c)
      BY <3>3 DEF VoicerOK, Voicing
    <3> QED BY <3>1, <3>2, <3>4 DEF VoicedInv
  <2> QED BY <2>1, <2>2
<1>2. (TypeInv /\ VoicedInv) /\ [Next]_vars => (TypeInv /\ VoicedInv)'
  BY TypeInvStep, VoicedStep
<1>3. TypeInv /\ VoicedInv => AnnouncedIsVoiced
  <2> SUFFICES ASSUME TypeInv, VoicedInv, NEW i \in Sent, Announces(i)
               PROVE  msgs[i].segs \subseteq voiced[msgs[i].job] \/ Deleting(msgs[i].job)
    BY DEF AnnouncedIsVoiced
  <2>1. i \in MsgIds /\ i < next
    BY DEF Sent, TypeInv, BrokerOK, Unsent, Msg, Places, MsgIds
  <2> QED BY <2>1 DEF VoicedInv, TextOK, Heard
<1> QED BY <1>1, <1>2, <1>3, PTL DEF Spec

-----------------------------------------------------------------------------
(* The video of a finished job.                                            *)

\* A job that has a row or a message got past the first steps of its creation.
Begun(j) == create[j] \notin {"none", "stored"}

\* A mux handler has stored the object before it names it, and named it before it announces it.
MuxOK(c) ==
  Serves[c] = "audio" =>
    /\ work[c].pc = "stage" => Out(JobOf(c)) \in store \/ Deleting(JobOf(c))
    /\ work[c].pc = "publish" /\ Exists(JobOf(c)) => row[JobOf(c)].output

StartedOK ==
  /\ \A j \in Jobs : Exists(j) \/ edit[j] # {} => Begun(j)
  /\ \A i \in MsgIds : i < next => Begun(msgs[i].job)

\* The row of a job with a delivery message names the video.
NamedOK ==
  /\ \A j \in Jobs : row[j].output => Exists(j)
  /\ \A i \in MsgIds :
       i < next /\ msgs[i].queue = "delivery" /\ Exists(msgs[i].job) => row[msgs[i].job].output

VideoInv == StartedOK /\ NamedOK /\ (\A c \in Consumers : MuxOK(c)) /\ CompletedHasVideo

\* What steps do to the rows and the videos; only the INSERT does more.
RowsFlow ==
  \A j \in Jobs :
    /\ Exists(j)' => Exists(j) /\ (row[j].output => row'[j].output)
    /\ row'[j].output =>
         Exists(j)' /\ (row[j].output \/ Out(j) \in store' \/ Deleting(j)')
    /\ row'[j].stage = "completed" =>
         \/ row'[j].url /\ row'[j].output
         \/ row[j].stage = "completed" /\ (row[j].url => row'[j].url)
VideosFlow ==
  \A j \in Jobs : /\ Out(j) \in store => Out(j) \in store' \/ Deleting(j)'
                  /\ Deleting(j) => Deleting(j)'
RequestsFlow ==
  \A j \in Jobs : (Begun(j) => Begun(j)') /\ (edit'[j] # {} => edit[j] # {} \/ Exists(j))
MessagesFlow ==
  \/ next' = next
  \/ \E q \in Queues, j \in Jobs :
       /\ Published(q, j) /\ Begun(j)'
       /\ q = "delivery" /\ Exists(j)' => row'[j].output
MuxFlow ==
  \A c \in Consumers :
    Serves[c] = "audio" /\ work'[c].pc \in {"stage", "publish"} =>
      MuxOK(c)' \/ (work'[c].pc = work[c].pc /\ work'[c].id = work[c].id)

Flow == RowsFlow /\ VideosFlow /\ RequestsFlow /\ MessagesFlow /\ MuxFlow

LEMMA FlowKeeps ==
  ASSUME TypeInv, VideoInv, Grows, Flow
  PROVE  VideoInv'
<1>1. StartedOK'
  <2>1. \A j \in Jobs : Exists(j)' \/ edit'[j] # {} => Begun(j)'
    BY DEF VideoInv, StartedOK, Flow, RowsFlow, RequestsFlow
  <2>2. ASSUME NEW i \in MsgIds, i < next' PROVE Begun(msgs[i].job)'
    <3>1. CASE i < next
      <4>1. msgs'[i].job = msgs[i].job /\ Begun(msgs[i].job) /\ msgs[i].job \in Jobs
        BY <3>1, SentIsMsg DEF Grows, VideoInv, StartedOK, TypeInv, Msg
      <4> QED BY <4>1 DEF Flow, RequestsFlow, Begun
    <3>2. CASE ~(i < next)
      BY <2>2, <3>2 DEF Flow, MessagesFlow, Published, Begun, MsgIds, TypeInv, BrokerOK
    <3> QED BY <3>1, <3>2
  <2> QED BY <2>1, <2>2 DEF StartedOK
<1>2. NamedOK'
  <2>1. ASSUME NEW i \in MsgIds, i < next', msgs'[i].queue = "delivery", Exists(msgs[i].job)'
        PROVE  row'[msgs'[i].job].output
    <3>1. CASE i < next
      <4>1. /\ msgs'[i].job = msgs[i].job /\ msgs[i].job \in Jobs /\ msgs[i].queue = "delivery"
        BY <2>1, <3>1, SentIsMsg DEF Grows, TypeInv, Msg
      <4>2. Exists(msgs[i].job) /\ (row[msgs[i].job].output => row'[msgs[i].job].output)
        BY <2>1, <4>1 DEF Flow, RowsFlow, Exists
      <4> QED BY <3>1, <4>1, <4>2 DEF VideoInv, NamedOK
    <3>2. CASE ~(i < next)
      BY <2>1, <3>2 DEF Flow, MessagesFlow, Published, Exists, MsgIds, TypeInv, BrokerOK
    <3> QED BY <3>1, <3>2
  <2> QED BY <2>1 DEF NamedOK, Flow, RowsFlow
<1>3. ASSUME NEW c \in Consumers, Serves[c] = "audio", work'[c].pc \in {"stage", "publish"}
      PROVE  MuxOK(c)'
  <2>1. CASE work'[c].pc = work[c].pc /\ work'[c].id = work[c].id
    <3>1. JobOf(c) \in Jobs /\ JobOf(c)' = JobOf(c)
      BY <1>3, <2>1, HandlerFacts DEF TypeInv, Grows, JobOf
    <3>2. MuxOK(c)
      BY DEF VideoInv
    <3>3. work[c].pc = "stage" => Out(JobOf(c)) \in store' \/ Deleting(JobOf(c))'
      BY <1>3, <3>1, <3>2 DEF MuxOK, Flow, VideosFlow, Deleting
    <3>4. work[c].pc = "publish" /\ Exists(JobOf(c))' => row'[JobOf(c)].output
      BY <1>3, <3>1, <3>2 DEF MuxOK, Flow, RowsFlow, Exists
    <3> QED BY <2>1, <3>1, <3>3, <3>4 DEF MuxOK, Out, Deleting, Exists
  <2> QED BY <1>3, <2>1 DEF Flow, MuxFlow
<1>4. CompletedHasVideo'
  <2> SUFFICES ASSUME NEW j \in Jobs
               PROVE  /\ row'[j].stage = "completed" => row'[j].output /\ row'[j].url
                      /\ row'[j].output => Out(j) \in store' \/ Deleting(j)'
    BY DEF CompletedHasVideo, Out, Deleting
  <2>1. /\ row[j].stage = "completed" => row[j].output /\ row[j].url
        /\ row[j].output => Out(j) \in store \/ Deleting(j)
    BY DEF VideoInv, CompletedHasVideo
  <2>2. row'[j].output => Out(j) \in store' \/ Deleting(j)'
    BY <2>1 DEF Flow, RowsFlow, VideosFlow
  <2>3. row'[j].stage = "completed" => row'[j].output /\ row'[j].url
    <3>1. row'[j].stage = "completed" => Exists(j)'
      BY DEF Exists
    <3> QED BY <2>1, <3>1 DEF Flow, RowsFlow
  <2> QED BY <2>2, <2>3
<1> QED BY <1>1, <1>2, <1>3, <1>4 DEF VideoInv, MuxOK

\* The parts a step usually has.
LEMMA SameRows ==
  ASSUME NamedOK, row' = row
  PROVE  RowsFlow
  BY DEF RowsFlow, Exists, NamedOK

LEMMA StageRows ==
  ASSUME TypeInv, NamedOK, NEW j \in Jobs, NEW s \in Stages \ {"absent", "completed"}, SetStage(j, s)
  PROVE  RowsFlow
<1>1. row \in [Jobs -> RowType]
  BY DEF TypeInv, StoresOK
<1>2. CASE Exists(j)
  <2>1. row' = [row EXCEPT ![j].stage = s] /\ row[j] \in RowType
    BY <1>1, <1>2 DEF SetStage
  <2>2. /\ row'[j].stage = s /\ row'[j].output = row[j].output /\ row'[j].url = row[j].url
        /\ \A k \in Jobs : k # j => row'[k] = row[k]
    BY <1>1, <2>1 DEF RowType
  <2> QED BY <1>2, <2>2 DEF RowsFlow, Exists, NamedOK
<1>3. CASE ~Exists(j)
  BY <1>3, SameRows DEF SetStage
<1> QED BY <1>2, <1>3

LEMMA SameVideos ==
  ASSUME store \subseteq store', del' = del
  PROVE  VideosFlow
  BY DEF VideosFlow, Deleting

LEMMA SameRequests ==
  ASSUME UNCHANGED <<create, edit>>
  PROVE  RequestsFlow
  BY DEF RequestsFlow, Begun

LEMMA EndsOrGoes ==
  ASSUME HandlersOK, NEW c \in Consumers,
         Release(c) \/ \E p \in Pcs : Goto(c, p) /\ (Serves[c] # "audio" \/ p \notin {"stage", "publish"})
  PROVE  MuxFlow
<1>1. work \in [Consumers -> Work]
  BY DEF HandlersOK
<1>2. CASE Release(c)
  BY <1>1, <1>2 DEF Release, Idle, MuxFlow
<1>3. ASSUME NEW p \in Pcs, Goto(c, p), Serves[c] # "audio" \/ p \notin {"stage", "publish"} PROVE MuxFlow
  <2>1. work'[c].pc = p /\ \A d \in Consumers \ {c} : work'[d] = work[d]
    BY <1>1, <1>3 DEF Goto, Work
  <2> QED BY <1>3, <2>1 DEF MuxFlow
<1> QED BY <1>2, <1>3

\* Handlers of other queues do not count.
LEMMA NotMux ==
  ASSUME NEW c \in Consumers, Serves[c] # "audio", \A d \in Consumers : d # c => work'[d] = work[d]
  PROVE  MuxFlow
  BY DEF MuxFlow

LEMMA HandlersJob ==
  ASSUME TypeInv, VideoInv, NEW c \in Consumers, work[c].pc # "idle"
  PROVE  JobOf(c) \in Jobs /\ Begun(JobOf(c)) /\ work[c].id \in MsgIds /\ work[c].id < next
         /\ msgs[work[c].id].queue = Serves[c]
  BY HandlerFacts DEF TypeInv, VideoInv, StartedOK, JobOf, HandlersOK, HandlerOK

\* A worker other than the mux-service publishes, or none does.
LEMMA PublishesFlow ==
  ASSUME TypeInv, VideoInv, NEW c \in Consumers, work[c].pc # "idle", create' = create,
         NEW q \in {"transcript", "audio"}, Published(q, JobOf(c))
  PROVE  MessagesFlow
<1>1. PICK j \in Jobs : j = JobOf(c) /\ Begun(j)
  BY HandlersJob
<1>2. Begun(j)' /\ q \in Queues
  BY <1>1 DEF Begun, Queues
<1> QED BY <1>1, <1>2 DEF MessagesFlow

\* What the steps of a worker other than its publishes and the mux-service's writes share.
LEMMA WorkerFlow ==
  ASSUME TypeInv, VideoInv, RowsFlow, MuxFlow, store \subseteq store', UNCHANGED <<create, edit, del>>,
         MessagesFlow
  PROVE  Flow
  BY SameVideos, SameRequests DEF Flow

LEMMA PythonFlow ==
  ASSUME TypeInv, VideoInv, NEW c \in Consumers,
         \/ SessionBroken(c) \/ AnalyzerStart(c) \/ Analyze(c) \/ StoreSegments(c)
         \/ UpdateJobStage(c) \/ PublishTranscript(c)
         \/ SelectSegments(c) \/ SynthesizeSegment(c) \/ UpdateSegmentRecord(c)
         \/ MarkSynthesized(c) \/ PublishAudio(c) \/ SynthesizedEvent(c)
  PROVE  Flow
<1>1. HandlersOK /\ work \in [Consumers -> Work] /\ NamedOK /\ BrokerOK
  BY DEF TypeInv, HandlersOK, VideoInv
<1>2. Serves[c] # "audio"
  BY DEF SessionBroken, Python, AnalyzerStart, Analyze, StoreSegments, UpdateJobStage, PublishTranscript,
         SelectSegments, SynthesizeSegment, UpdateSegmentRecord, MarkSynthesized, PublishAudio,
         SynthesizedEvent, AtStep
<1>3. \A d \in Consumers : d # c => work'[d] = work[d]
  BY <1>1 DEF SessionBroken, AnalyzerStart, Analyze, StoreSegments, UpdateJobStage, PublishTranscript,
         SelectSegments, SynthesizeSegment, UpdateSegmentRecord, MarkSynthesized, PublishAudio,
         SynthesizedEvent, Reject, Release, Goto
<1>4. MuxFlow
  BY <1>2, <1>3, NotMux
<1>5. store \subseteq store' /\ UNCHANGED <<create, edit, del>>
  BY DEF SessionBroken, AnalyzerStart, Analyze, StoreSegments, UpdateJobStage, PublishTranscript,
         SelectSegments, SynthesizeSegment, UpdateSegmentRecord, MarkSynthesized, PublishAudio,
         SynthesizedEvent, requests
<1>6. RowsFlow
  <2>1. CASE UpdateJobStage(c) \/ MarkSynthesized(c)
    <3>1. PICK j \in Jobs : j = JobOf(c)
      BY <1>1, <2>1, HandlerFacts DEF UpdateJobStage, MarkSynthesized, AtStep
    <3>2. \E s \in {"transcribed", "synthesized"} : SetStage(j, s)
      BY <2>1, <3>1 DEF UpdateJobStage, MarkSynthesized
    <3> QED BY <1>1, <3>2, StageRows DEF Stages
  <2>2. CASE ~(UpdateJobStage(c) \/ MarkSynthesized(c))
    <3>1. row' = row
      BY <2>2 DEF SessionBroken, AnalyzerStart, Analyze, StoreSegments, PublishTranscript,
         SelectSegments, SynthesizeSegment, UpdateSegmentRecord, PublishAudio, SynthesizedEvent, db
    <3> QED BY <1>1, <3>1, SameRows
  <2> QED BY <2>1, <2>2
<1>7. MessagesFlow
  <2>1. CASE PublishTranscript(c) \/ PublishAudio(c)
    <3>1. work[c].pc = "publish" /\ create' = create
      BY <2>1 DEF PublishTranscript, PublishAudio, AtStep, requests
    <3>2. JobOf(c) \in Jobs /\ work[c].segs \in SUBSET Segs
      BY <1>1, <3>1, HandlerFacts
    <3>3. \E q \in {"transcript", "audio"} : Published(q, JobOf(c))
      BY <1>1, <2>1, <3>2, EnqueueEffect DEF PublishTranscript, PublishAudio, Queues, Fields
    <3> QED BY <3>1, <3>3, PublishesFlow
  <2>2. CASE ~(PublishTranscript(c) \/ PublishAudio(c))
    <3>1. next' = next
      BY <2>2 DEF SessionBroken, AnalyzerStart, Analyze, StoreSegments, UpdateJobStage,
         SelectSegments, SynthesizeSegment, UpdateSegmentRecord, MarkSynthesized, SynthesizedEvent, broker
    <3> QED BY <3>1 DEF MessagesFlow
  <2> QED BY <2>1, <2>2
<1> QED BY <1>4, <1>5, <1>6, <1>7, WorkerFlow

\* The steps of the Go workers that leave the video alone, and the failures.
LEMMA GoFlow ==
  ASSUME TypeInv, VideoInv, NEW c \in Consumers,
         \/ Deliver(c) \/ Ack(c) \/ LostChannel(c)
         \/ MuxStart(c) \/ MuxDownload(c) \/ DeliveryStart(c) \/ Presign(c) \/ SendWebhooks(c)
         \/ Disconnect(c) \/ Crash(c) \/ CallFails(c) \/ StatementFails(c)
  PROVE  Flow
<1>1. HandlersOK /\ work \in [Consumers -> Work] /\ NamedOK
  BY DEF TypeInv, HandlersOK, VideoInv
<1>2. store' = store /\ UNCHANGED <<create, edit, del>> /\ next' = next
  BY DEF Deliver, Ack, LostChannel, MuxStart, MuxDownload, DeliveryStart, Presign, SendWebhooks,
         Disconnect, Crash, CallFails, StatementFails, requests, broker, Requeue, Reject
<1>3. RowsFlow
  <2>1. CASE MuxStart(c) \/ DeliveryStart(c)
    <3>1. PICK j \in Jobs : j = JobOf(c)
      BY <1>1, <2>1, HandlerFacts DEF MuxStart, DeliveryStart, AtStep, TypeInv
    <3>2. \E s \in {"muxing", "delivering"} : SetStage(j, s)
      BY <2>1, <3>1 DEF MuxStart, DeliveryStart
    <3> QED BY <1>1, <3>2, StageRows DEF Stages
  <2>2. CASE ~(MuxStart(c) \/ DeliveryStart(c))
    <3>1. row' = row
      BY <2>2 DEF Deliver, Ack, LostChannel, MuxDownload, Presign, SendWebhooks,
         Disconnect, Crash, CallFails, StatementFails, db
    <3> QED BY <1>1, <3>1, SameRows
  <2> QED BY <2>1, <2>2
<1>4. MuxFlow
  <2>1. CASE Deliver(c)
    <3>1. work'[c].pc = "start" /\ \A d \in Consumers : d # c => work'[d] = work[d]
      BY <2>1, DeliverStep
    <3> QED BY <3>1 DEF MuxFlow
  <2>2. CASE Disconnect(c)
    <3>1. /\ \A d \in Consumers : d # c => work'[d] = work[d]
          /\ work'[c].pc = work[c].pc /\ work'[c].id = work[c].id
      BY <1>1, <2>2 DEF Disconnect, Work
    <3> QED BY <3>1 DEF MuxFlow
  <2>3. CASE ~(Deliver(c) \/ Disconnect(c))
    <3>1. \/ Release(c)
          \/ \E p \in Pcs : Goto(c, p) /\ (Serves[c] # "audio" \/ p \notin {"stage", "publish"})
      BY <2>3 DEF Ack, LostChannel, MuxStart, MuxDownload, DeliveryStart, Presign, SendWebhooks,
         Crash, CallFails, StatementFails, Requeue, Reject, AtStep, Pcs
    <3> QED BY <1>1, <3>1, EndsOrGoes
  <2> QED BY <2>1, <2>2, <2>3
<1> QED BY <1>2, <1>3, <1>4, WorkerFlow DEF MessagesFlow

\* The mux-service writes the object, then the row, and then announces it.
LEMMA MuxWritesFlow ==
  ASSUME TypeInv, VideoInv, Grows, NEW c \in Consumers,
         MuxUpload(c) \/ MuxStage(c) \/ PublishDelivery(c) \/ ConfirmTimeout(c)
  PROVE  Flow
<1>1. HandlersOK /\ work \in [Consumers -> Work] /\ NamedOK /\ MuxOK(c) /\ BrokerOK
  BY DEF TypeInv, HandlersOK, VideoInv
<1>2. Serves[c] = "audio" /\ work[c].pc \in {"upload", "stage", "publish"} /\ UNCHANGED <<create, edit, del>>
  BY DEF MuxUpload, MuxStage, PublishDelivery, ConfirmTimeout, AtStep, requests
<1>3. PICK j \in Jobs : j = JobOf(c) /\ Begun(j) /\ work[c].id \in MsgIds /\ work[c].id < next
  BY <1>2, HandlersJob
<1>4. CASE MuxUpload(c)
  <2>1. /\ store' = store \cup {Out(j)} /\ Goto(c, "stage") /\ UNCHANGED <<row, msgs, next>>
    BY <1>3, <1>4 DEF MuxUpload, db, broker
  <2>2. /\ work'[c].pc = "stage" /\ work'[c].id = work[c].id
        /\ \A d \in Consumers : d # c => work'[d] = work[d]
    BY <1>1, <2>1 DEF Goto, Work
  <2>3. MuxOK(c)'
    <3>1. JobOf(c)' = j
      BY <1>3, <2>1, <2>2 DEF JobOf
    <3> QED BY <2>1, <2>2, <3>1 DEF MuxOK, Out
  <2>4. MuxFlow
    BY <2>2, <2>3 DEF MuxFlow
  <2> QED BY <1>1, <1>2, <2>1, <2>4, SameRows, WorkerFlow DEF MessagesFlow
<1>5. CASE MuxStage(c)
  <2>1. /\ row' = IF Exists(j) THEN [row EXCEPT ![j].stage = "muxed", ![j].output = TRUE] ELSE row
        /\ Goto(c, "publish") /\ UNCHANGED <<store, msgs, next>> /\ work[c].pc = "stage"
    BY <1>3, <1>5 DEF MuxStage, AtStep, broker
  <2>2. /\ work'[c].pc = "publish" /\ work'[c].id = work[c].id
        /\ \A d \in Consumers : d # c => work'[d] = work[d]
    BY <1>1, <2>1 DEF Goto, Work
  <2>3. row \in [Jobs -> RowType]
    BY DEF TypeInv, StoresOK
  <2>4. /\ \A k \in Jobs : k # j => row'[k] = row[k]
        /\ Exists(j) => row'[j].stage = "muxed" /\ row'[j].output /\ row'[j].url = row[j].url
        /\ ~Exists(j) => row' = row
    BY <2>1, <2>3 DEF RowType
  <2>5. Out(j) \in store' \/ Deleting(j)'
    BY <1>1, <1>2, <1>3, <2>1 DEF MuxOK, Deleting
  <2>6. RowsFlow
    <3>1. CASE Exists(j)
      BY <1>1, <2>4, <2>5, <3>1 DEF RowsFlow, Exists, NamedOK
    <3>2. CASE ~Exists(j)
      BY <1>1, <2>4, <3>2, SameRows
    <3> QED BY <3>1, <3>2
  <2>7. MuxOK(c)'
    <3>1. JobOf(c)' = j
      BY <1>3, <2>1, <2>2 DEF JobOf
    <3>2. Exists(j)' => row'[j].output
      BY <2>4 DEF Exists
    <3> QED BY <2>2, <3>1, <3>2 DEF MuxOK, Exists
  <2>8. MuxFlow
    BY <2>2, <2>7 DEF MuxFlow
  <2> QED BY <1>1, <1>2, <2>1, <2>6, <2>8, WorkerFlow DEF MessagesFlow
<1>6. CASE PublishDelivery(c) \/ ConfirmTimeout(c)
  <2>1. UNCHANGED <<row, store>> /\ work[c].pc = "publish"
    BY <1>6 DEF PublishDelivery, ConfirmTimeout, AtStep, db
  <2>2. Release(c) \/ Goto(c, "ack")
    BY <1>6 DEF PublishDelivery, ConfirmTimeout, Requeue
  <2>3. MuxFlow
    BY <1>1, <2>2, EndsOrGoes DEF Pcs
  <2>4. MessagesFlow
    <3>1. CASE next' = next
      BY <3>1 DEF MessagesFlow
    <3>2. CASE next' # next
      <4>1. Exists(j) /\ Published("delivery", j)
        BY <1>1, <1>3, <1>6, <3>2, EnqueueEffect, EnqueueReturnedEffect
        DEF PublishDelivery, ConfirmTimeout, Queues, Fields
      <4>2. row[j].output
        BY <1>1, <1>2, <1>3, <2>1, <4>1 DEF MuxOK
      <4>3. Begun(j)' /\ row'[j].output
        BY <1>2, <1>3, <2>1, <4>2 DEF Begun
      <4> QED BY <4>1, <4>3 DEF MessagesFlow, Queues
    <3> QED BY <3>1, <3>2
  <2> QED BY <1>1, <1>2, <2>1, <2>3, <2>4, SameRows, WorkerFlow
<1> QED BY <1>4, <1>5, <1>6

\* A job is completed by the handler of its delivery message, whose row names the video.
LEMMA CompleteFlow ==
  ASSUME TypeInv, VideoInv, NEW c \in Consumers, Complete(c)
  PROVE  Flow
<1>1. HandlersOK /\ NamedOK /\ row \in [Jobs -> RowType]
  BY DEF TypeInv, VideoInv, StoresOK
<1>2. /\ Serves[c] = "delivery" /\ work[c].pc = "complete" /\ Goto(c, "webhook")
      /\ UNCHANGED <<store, create, edit, del, next>>
  BY DEF Complete, AtStep, requests, broker
<1>3. PICK j \in Jobs : /\ j = JobOf(c) /\ work[c].id \in MsgIds /\ work[c].id < next
                        /\ msgs[work[c].id].queue = "delivery"
  BY <1>2, HandlersJob
<1>4. row' = IF Exists(j) THEN [row EXCEPT ![j].stage = "completed", ![j].url = TRUE] ELSE row
  BY <1>3 DEF Complete
<1>5. Exists(j) => row[j].output
  BY <1>1, <1>3 DEF NamedOK, JobOf
<1>6. /\ \A k \in Jobs : k # j => row'[k] = row[k]
      /\ Exists(j) => row'[j].stage = "completed" /\ row'[j].url /\ row'[j].output = row[j].output
      /\ ~Exists(j) => row' = row
  BY <1>1, <1>4 DEF RowType
<1>7. RowsFlow
  <2>1. CASE Exists(j)
    BY <1>1, <1>5, <1>6, <2>1 DEF RowsFlow, Exists, NamedOK
  <2>2. CASE ~Exists(j)
    BY <1>1, <1>6, <2>2, SameRows
  <2> QED BY <2>1, <2>2
<1>8. MuxFlow
  BY <1>1, <1>2, EndsOrGoes DEF Pcs
<1> QED BY <1>2, <1>7, <1>8, WorkerFlow DEF MessagesFlow

\* The requests.  A DELETE of the output is preceded by the request that is at work on the job.
LEMMA ClientFlow ==
  ASSUME TypeInv, VideoInv, NEW j \in Jobs, Client(j), ~InsertJob(j)
  PROVE  Flow
<1>1. NamedOK /\ StartedOK /\ BrokerOK /\ StoresOK
  BY DEF TypeInv, VideoInv
<1>2. MuxFlow
  BY ClientStep DEF QuietOK, MuxFlow
<1>3. RowsFlow
  <2>1. CASE UpdateTranscript(j)
    BY <1>1, <2>1, SameRows, StageRows DEF UpdateTranscript, Stages
  <2>2. CASE DeleteRow(j)
    <3>1. /\ ~Exists(j)' /\ ~row'[j].output /\ row'[j].stage # "completed"
          /\ \A k \in Jobs : k # j => row'[k] = row[k]
      BY <1>1, <2>2 DEF DeleteRow, StoresOK, Exists
    <3> QED BY <1>1, <3>1 DEF RowsFlow, Exists, NamedOK
  <2>3. CASE ~(UpdateTranscript(j) \/ DeleteRow(j))
    <3>1. row' = row
      BY <2>3 DEF Client, StoreVideo, PublishIngestion, CreateFails, CompleteUpload, PublishEdit,
         RegenerateSegment, DocumentedMessage, ReadJobToDelete, DeleteObjects, DeleteSegments,
         DeleteFails, db
    <3> QED BY <1>1, <3>1, SameRows
  <2> QED BY <2>1, <2>2, <2>3
<1>4. VideosFlow
  <2>1. CASE \/ ReadJobToDelete(j) \/ DeleteObjects(j) \/ DeleteSegments(j) \/ DeleteRow(j)
             \/ DeleteFails(j)
    <3>1. del' \in [Jobs -> [pc: DelPcs, out: BOOLEAN]]
      BY ClientStep DEF QuietOK, StoresKept, StoresOK
    <3>2. /\ \A k \in Jobs : k # j => del'[k] = del[k]
          /\ del'[j].pc # "none"
      BY <1>1, <2>1 DEF ReadJobToDelete, DeleteObjects, DeleteSegments, DeleteRow, DeleteFails, StoresOK
    <3>3. \A k \in Jobs : k # j => (Out(k) \in store => Out(k) \in store')
      <4>1. \A k \in Jobs : k # j => Out(k) \notin s3KeysForJob(j)
        BY DEF s3KeysForJob, Out, Raw
      <4> QED BY <2>1, <4>1 DEF ReadJobToDelete, DeleteObjects, DeleteSegments, DeleteRow, DeleteFails
    <3> QED BY <3>2, <3>3 DEF VideosFlow, Deleting
  <2>2. CASE \/ StoreVideo(j) \/ PublishIngestion(j) \/ CreateFails(j) \/ CompleteUpload(j)
             \/ UpdateTranscript(j) \/ PublishEdit(j) \/ RegenerateSegment(j) \/ DocumentedMessage(j)
    <3>1. store \subseteq store' /\ del' = del
      BY <2>2 DEF StoreVideo, PublishIngestion, CreateFails, CompleteUpload, UpdateTranscript,
         PublishEdit, RegenerateSegment, DocumentedMessage, requests
    <3> QED BY <3>1, SameVideos
  <2> QED BY <2>1, <2>2 DEF Client
<1>5. \A k \in Jobs : Begun(k) => Begun(k)'
  <2>1. CASE StoreVideo(j) \/ PublishIngestion(j) \/ CreateFails(j) \/ CompleteUpload(j)
    BY <1>1, <2>1 DEF StoreVideo, PublishIngestion, CreateFails, CompleteUpload, CreateStep, Begun, StoresOK
  <2>2. CASE ~(StoreVideo(j) \/ PublishIngestion(j) \/ CreateFails(j) \/ CompleteUpload(j))
    <3>1. create' = create
      BY <2>2 DEF Client, UpdateTranscript, PublishEdit, RegenerateSegment, DocumentedMessage,
         ReadJobToDelete, DeleteObjects, DeleteSegments, DeleteRow, DeleteFails, requests
    <3> QED BY <3>1 DEF Begun
  <2> QED BY <2>1, <2>2
<1>6. RequestsFlow
  <2>1. \A k \in Jobs : edit'[k] # {} => edit[k] # {} \/ Exists(k)
    <3>1. CASE UpdateTranscript(j) \/ PublishEdit(j) \/ RegenerateSegment(j)
      BY <1>1, <3>1 DEF UpdateTranscript, PublishEdit, RegenerateSegment, StoresOK
    <3>2. CASE ~(UpdateTranscript(j) \/ PublishEdit(j) \/ RegenerateSegment(j))
      <4>1. edit' = edit
        BY <3>2 DEF Client, StoreVideo, PublishIngestion, CreateFails, CompleteUpload, DocumentedMessage,
           ReadJobToDelete, DeleteObjects, DeleteSegments, DeleteRow, DeleteFails, requests
      <4> QED BY <4>1
    <3> QED BY <3>1, <3>2
  <2> QED BY <1>5, <2>1 DEF RequestsFlow
<1>7. MessagesFlow
  <2>1. CASE PublishIngestion(j) \/ CompleteUpload(j)
    <3>1. Published("ingestion", j)
      BY <1>1, <2>1, EnqueueEffect DEF PublishIngestion, CompleteUpload, Queues, Fields
    <3>2. Begun(j)'
      BY <1>1, <2>1 DEF PublishIngestion, CompleteUpload, CreateStep, Begun, StoresOK
    <3> QED BY <3>1, <3>2 DEF MessagesFlow, Queues
  <2>2. CASE PublishEdit(j)
    <3>1. edit[j] \in SUBSET Segs
      BY <1>1 DEF StoresOK
    <3>2. next' = next \/ Published("transcript", j)
      BY <1>1, <2>2, <3>1, EnqueueEffect DEF PublishEdit, Queues, Fields, broker
    <3>3. Begun(j)'
      BY <1>1, <1>5, <2>2 DEF PublishEdit, StartedOK
    <3> QED BY <3>2, <3>3 DEF MessagesFlow, Queues
  <2>3. CASE DocumentedMessage(j)
    <3>1. \E q \in {"ingestion", "audio", "transcript"} : Published(q, j)
      BY <1>1, <2>3, EnqueueEffect DEF DocumentedMessage, Queues, Fields
    <3>2. Begun(j)'
      BY <1>1, <1>5, <2>3 DEF DocumentedMessage, StartedOK
    <3> QED BY <3>1, <3>2 DEF MessagesFlow, Queues
  <2>4. CASE ~(PublishIngestion(j) \/ CompleteUpload(j) \/ PublishEdit(j) \/ DocumentedMessage(j))
    <3>1. next' = next
      BY <2>4 DEF Client, StoreVideo, InsertJob, CreateFails, UpdateTranscript, RegenerateSegment,
         ReadJobToDelete, DeleteObjects, DeleteSegments, DeleteRow, DeleteFails, broker
    <3> QED BY <3>1 DEF MessagesFlow
  <2> QED BY <2>1, <2>2, <2>3, <2>4
<1> QED BY <1>2, <1>3, <1>4, <1>6, <1>7 DEF Flow

\* The INSERT comes before any message of the job, so no handler works on it.
LEMMA InsertKeepsVideo ==
  ASSUME TypeInv, VideoInv, NEW j \in Jobs, InsertJob(j)
  PROVE  VideoInv'
<1>1. /\ NamedOK /\ StartedOK /\ CompletedHasVideo /\ StoresOK /\ ~Begun(j)
      /\ UNCHANGED <<store, msgs, next, work, del, edit>>
  BY DEF TypeInv, VideoInv, InsertJob, CreateStep, Begun, broker
<1>2. ~Exists(j) /\ ~row[j].output /\ row \in [Jobs -> RowType]
  BY <1>1 DEF StartedOK, NamedOK, StoresOK
<1>3. /\ \A k \in Jobs : k # j => row'[k] = row[k] /\ create'[k] = create[k]
      /\ row'[j].stage = "uploaded" /\ row'[j].output = row[j].output /\ create'[j] = "inserted"
  BY <1>1, <1>2 DEF InsertJob, CreateStep, StoresOK, RowType
<1>4. \A i \in MsgIds : i < next => msgs[i].job \in Jobs /\ msgs[i].job # j
  BY <1>1, SentIsMsg DEF StartedOK, TypeInv, Msg
<1>5. StartedOK'
  BY <1>1, <1>3, <1>4 DEF StartedOK, Begun, Exists
<1>6. NamedOK'
  BY <1>1, <1>2, <1>3, <1>4 DEF NamedOK, Exists
<1>7. CompletedHasVideo'
  BY <1>1, <1>2, <1>3 DEF CompletedHasVideo, Out, Deleting
<1>8. ASSUME NEW c \in Consumers PROVE MuxOK(c)'
  <2>1. MuxOK(c) /\ JobOf(c)' = JobOf(c) /\ work'[c] = work[c]
    BY <1>1 DEF VideoInv, JobOf
  <2>2. work[c].pc # "idle" => JobOf(c) \in Jobs /\ JobOf(c) # j
    BY <1>1, HandlersJob
  <2> QED BY <1>1, <1>3, <2>1, <2>2 DEF MuxOK, Out, Deleting, Exists
<1> QED BY <1>5, <1>6, <1>7, <1>8 DEF VideoInv

LEMMA VideoStep == TypeInv /\ VideoInv /\ [Next]_vars => VideoInv'
<1> SUFFICES ASSUME TypeInv, VideoInv, [Next]_vars PROVE VideoInv'
  OBVIOUS
<1>1. Grows
  BY StepGrows
<1>2. CASE UNCHANGED vars \/ \E i \in MsgIds : Age(i) \/ Expire(i)
  <2>1. UNCHANGED <<row, store, next, work, create, edit, del>>
    BY <1>2 DEF vars, db, requests, Age, Expire
  <2>2. NamedOK
    BY DEF VideoInv
  <2> QED BY <1>1, <2>1, <2>2, SameRows, SameVideos, SameRequests, FlowKeeps
          DEF Flow, MessagesFlow, MuxFlow
<1>3. ASSUME NEW j \in Jobs, Client(j) PROVE VideoInv'
  BY <1>1, <1>3, ClientFlow, InsertKeepsVideo, FlowKeeps
<1>4. ASSUME NEW c \in Consumers, Deliver(c) \/ Handler(c) \/ Failure(c) PROVE VideoInv'
  <2>1. Flow
    BY <1>1, <1>4, PythonFlow, GoFlow, MuxWritesFlow, CompleteFlow DEF Handler, Failure
  <2> QED BY <1>1, <2>1, FlowKeeps
<1> QED BY <1>2, <1>3, <1>4 DEF Next

\* A completed row names its video and links to it, and the video is in the bucket unless a
\* DELETE is at work on the job, however the deliveries repeat, cross and fail.
THEOREM CompletedJobsHaveVideo == Spec => []CompletedHasVideo
<1>1. Init => VideoInv
  BY DEF Init, VideoInv, StartedOK, NamedOK, MuxOK, CompletedHasVideo, Idle, Exists, MsgIds
<1>2. VideoInv => CompletedHasVideo
  BY DEF VideoInv
<1>3. TypeInv /\ VideoInv /\ [Next]_vars => TypeInv' /\ VideoInv'
  BY TypeInvStep, VideoStep
<1> QED BY <1>1, <1>2, <1>3, InitTypeInv, PTL DEF Spec

-----------------------------------------------------------------------------
(* How often a message is passed on.  A message can be worked on again     *)
(* only when it is handed back before its handler acknowledged it, so what *)
(* is counted is what was published and what may still be.                 *)

\* A message on its way to a worker is held by one handler at most.
Holds(c, i) == work[c].held /\ work[c].id = i
HoldInv ==
  /\ \A c \in Consumers : work[c].held => msgs[work[c].id].place = "unacked"
  /\ \A c, d \in Consumers : work[c].held /\ work[d].held /\ work[c].id = work[d].id => c = d

\* An audio message that may still be turned into a delivery message.
OpenMsg(i) ==
  /\ i < next /\ msgs[i].queue = "audio"
  /\ \/ msgs[i].place = "ready"
     \/ \E c \in Consumers : Holds(c, i) /\ work[c].pc # "ack"
Open(j) == {i \in MsgIds : OpenMsg(i) /\ msgs[i].job = j}
Of(j, q) == {i \in MsgIds : i < next /\ msgs[i].job = j /\ msgs[i].queue = q}
OpenJob(j) ==
  Cardinality(Of(j, "delivery")) + Cardinality(Open(j)) <= Cardinality(Of(j, "audio")) + faults
OpenInv == \A j \in Jobs : OpenJob(j)

\* A handler that will send the webhooks of delivery message i.
HookPcs == {"start", "presign", "complete", "webhook"}
Hookers(i) == {c \in Consumers : Serves[c] = "delivery" /\ work[c].id = i /\ work[c].pc \in HookPcs}
Waiting(i) == IF msgs[i].place = "ready" THEN 1 ELSE 0
HookOK(i) == hooked[i] + Cardinality(Hookers(i)) + Waiting(i) <= 1 + faults
HookInv ==
  \A i \in MsgIds :
    /\ i < next /\ msgs[i].queue = "delivery" => HookOK(i)
    /\ i >= next \/ msgs[i].queue # "delivery" => hooked[i] = 0

-----------------------------------------------------------------------------
(* What a step of a worker does to the message it has.                     *)

Others(c) == \A d \in Consumers : d # c => work'[d] = work[d]
PlacesBut(c, P) ==
  \A i \in MsgIds : i < next =>
    msgs'[i].place = msgs[i].place \/ (Holds(c, i) /\ msgs'[i].place \in P)

Goes(c) ==
  /\ Others(c) /\ PlacesBut(c, {})
  /\ work[c].pc \notin {"idle", "ack"} /\ work'[c].pc # "idle"
  /\ work'[c].id = work[c].id /\ work'[c].held = work[c].held
Ends(c, P) ==
  /\ Others(c) /\ PlacesBut(c, P)
  /\ work'[c].pc = "idle" /\ ~work'[c].held
Loses(c) ==
  /\ Others(c) /\ PlacesBut(c, {"ready", "dead"})
  /\ work'[c].pc = work[c].pc /\ work'[c].id = work[c].id /\ ~work'[c].held

NoDelivery == next' = next \/ \E q \in Queues \ {"delivery"}, j \in Jobs : Published(q, j)
Counts == UNCHANGED <<faults, hooked>>
Alone == next' = next /\ Counts

GoesOn(c) ==
  /\ Goes(c) /\ NoDelivery /\ Counts
  /\ Serves[c] = "delivery" /\ work'[c].pc \in HookPcs => work[c].pc \in HookPcs
PutsAway(c) == Ends(c, {"acked", "dead"}) /\ Alone
HandsBack(c) ==
  /\ Ends(c, {"ready", "dead"}) /\ Alone /\ work[c].pc # "ack"
  /\ Serves[c] = "delivery" => work[c].pc \in HookPcs
Fails(c) ==
  /\ Ends(c, {"ready", "dead"}) \/ Loses(c)
  /\ next' = next /\ hooked' = hooked /\ faults' = faults + 1
PassesOn(c) ==
  /\ Goes(c) /\ Counts
  /\ Serves[c] = "audio" /\ work[c].held /\ work'[c].pc = "ack" /\ Published("delivery", JobOf(c))
PassesTwice(c) ==
  /\ Ends(c, {"ready", "dead"}) /\ work[c].pc \notin {"idle", "ack"}
  /\ hooked' = hooked /\ faults' = faults + 1
  /\ Serves[c] = "audio" /\ Published("delivery", JobOf(c))
Notifies(c) ==
  /\ Goes(c) /\ next' = next /\ faults' = faults
  /\ Serves[c] = "delivery" /\ work[c].pc \in HookPcs /\ work'[c].pc = "ack"
  /\ hooked' = [hooked EXCEPT ![work[c].id] = @ + 1]

\* Steps of others.
Aside ==
  /\ UNCHANGED <<work, hooked>> /\ NoDelivery /\ faults' \in {faults, faults + 1}
  /\ \A i \in MsgIds : i < next =>
       msgs'[i].place = msgs[i].place \/ (msgs[i].place = "ready" /\ msgs'[i].place = "dead")

Kinds(c) ==
  \/ GoesOn(c) \/ PutsAway(c) \/ HandsBack(c) \/ Fails(c)
  \/ PassesOn(c) \/ PassesTwice(c) \/ Notifies(c)

-----------------------------------------------------------------------------
(* Holding.                                                                *)

LEMMA HoldKept ==
  ASSUME TypeInv, HoldInv, NEW c \in Consumers, Others(c), PlacesBut(c, Places),
         work'[c].held => work[c].held /\ work'[c].id = work[c].id,
         work'[c].held => \A i \in MsgIds : i < next => msgs'[i].place = msgs[i].place
  PROVE  HoldInv'
<1>1. \A d \in Consumers : work'[d].held => work[d].held /\ work'[d].id = work[d].id
  BY DEF Others
<1>2. ASSUME NEW d \in Consumers, work'[d].held PROVE msgs'[work'[d].id].place = "unacked"
  <2>1. /\ work[d].held /\ work'[d].id = work[d].id /\ work[d].id \in MsgIds /\ work[d].id < next
        /\ msgs[work[d].id].place = "unacked"
    BY <1>1, <1>2 DEF HoldInv, TypeInv, HandlersOK, HandlerOK
  <2>2. ~Holds(c, work[d].id) \/ d = c
    BY <2>1 DEF HoldInv, Holds
  <2> QED BY <1>2, <2>1, <2>2 DEF PlacesBut
<1>3. \A d, e \in Consumers : work'[d].held /\ work'[e].held /\ work'[d].id = work'[e].id => d = e
  BY <1>1 DEF HoldInv
<1> QED BY <1>2, <1>3 DEF HoldInv

LEMMA HoldWorker ==
  ASSUME TypeInv, HoldInv, NEW c \in Consumers, Kinds(c)
  PROVE  HoldInv'
<1>1. Goes(c) \/ Ends(c, {"ready", "dead"}) \/ Ends(c, {"acked", "dead"}) \/ Loses(c)
  BY DEF Kinds, GoesOn, PutsAway, HandsBack, Fails, PassesOn, PassesTwice, Notifies
<1>2. Others(c) /\ PlacesBut(c, Places)
  BY <1>1 DEF Goes, Ends, Loses, PlacesBut, Places
<1>3. work'[c].held => /\ work[c].held /\ work'[c].id = work[c].id
                       /\ \A i \in MsgIds : i < next => msgs'[i].place = msgs[i].place
  BY <1>1 DEF Goes, Ends, Loses, PlacesBut
<1> QED BY <1>2, <1>3, HoldKept

LEMMA HoldAside ==
  ASSUME TypeInv, HoldInv, Aside
  PROVE  HoldInv'
<1>1. ASSUME NEW c \in Consumers, work[c].held PROVE msgs'[work[c].id].place = "unacked"
  <2>1. work[c].id \in MsgIds /\ work[c].id < next /\ msgs[work[c].id].place = "unacked"
    BY <1>1 DEF HoldInv, TypeInv, HandlersOK, HandlerOK
  <2> QED BY <2>1 DEF Aside
<1> QED BY <1>1 DEF HoldInv, Aside

\* What a delivery by the broker does.
Hands(c, i) ==
  /\ work[c].pc = "idle" /\ i \in MsgIds /\ i < next
  /\ msgs[i].place = "ready" /\ msgs[i].queue = Serves[c] /\ msgs'[i].place = "unacked"
  /\ \A k \in MsgIds : k # i => msgs'[k].place = msgs[k].place
  /\ Others(c) /\ work'[c].pc = "start" /\ work'[c].id = i /\ work'[c].held /\ Alone

LEMMA DeliverHands ==
  ASSUME TypeInv, NEW c \in Consumers, Deliver(c)
  PROVE  \E i \in MsgIds : Hands(c, i)
<1>1. PICK i \in Ready(Serves[c]) :
        /\ msgs' = [msgs EXCEPT ![i].place = "unacked",
                               ![i].tries = IF @ > DeliveryLimit THEN @ ELSE @ + 1]
        /\ work' = [work EXCEPT ![c] = [Idle EXCEPT !.pc = "start", !.id = i, !.held = TRUE]]
  BY DEF Deliver
<1>2. i \in MsgIds /\ msgs[i].place = "ready" /\ msgs[i].queue = Serves[c] /\ i < next
  BY DEF Ready, TypeInv, BrokerOK, MsgIds
<1>3. msgs'[i].place = "unacked" /\ \A k \in MsgIds : k # i => msgs'[k] = msgs[k]
  <2>1. msgs \in [MsgIds -> Msg \cup {Unsent}] /\ msgs[i] \in Msg
    BY <1>2, SentIsMsg DEF TypeInv, BrokerOK
  <2> QED BY <1>1, <1>2, <2>1 DEF Msg
<1>4. Others(c) /\ work'[c].pc = "start" /\ work'[c].id = i /\ work'[c].held
  BY <1>1 DEF Idle, Others, TypeInv, HandlersOK
<1> QED BY <1>2, <1>3, <1>4 DEF Hands, Deliver, Alone, Counts

LEMMA HoldHands ==
  ASSUME TypeInv, HoldInv, NEW c \in Consumers, NEW i \in MsgIds, Hands(c, i)
  PROVE  HoldInv'
<1>1. \A d \in Consumers : d # c /\ work[d].held => work[d].id # i /\ work[d].id \in MsgIds
  BY DEF HoldInv, Hands, TypeInv, HandlersOK, HandlerOK
<1>2. \A d \in Consumers : work'[d].held => msgs'[work'[d].id].place = "unacked"
  BY <1>1 DEF Hands, Others, HoldInv
<1>3. \A d, e \in Consumers : work'[d].held /\ work'[e].held /\ work'[d].id = work'[e].id => d = e
  BY <1>1 DEF Hands, Others, HoldInv
<1> QED BY <1>2, <1>3 DEF HoldInv

-----------------------------------------------------------------------------
(* Passing on.                                                             *)

LEMMA OfFinite ==
  ASSUME NEW S \in SUBSET MsgIds
  PROVE  IsFiniteSet(S) /\ Cardinality(S) \in Nat
<1>1. IsFiniteSet(MsgIds)
  BY BoundsAssumption, FS_Interval DEF MsgIds
<1> QED BY <1>1, FS_Subset, FS_CardinalityType

\* At most one more.
LEMMA OneMore ==
  ASSUME NEW S \in SUBSET MsgIds, NEW x, NEW T \in SUBSET (S \cup {x})
  PROVE  Cardinality(T) <= Cardinality(S) + 1
<1>1. IsFiniteSet(S) /\ Cardinality(S) \in Nat
  BY OfFinite
<1>2. IsFiniteSet(S \cup {x}) /\ Cardinality(S \cup {x}) <= Cardinality(S) + 1
  BY <1>1, FS_AddElement
<1>3. Cardinality(T) <= Cardinality(S \cup {x}) /\ Cardinality(T) \in Nat
      /\ Cardinality(S \cup {x}) \in Nat
  BY <1>2, FS_Subset, FS_CardinalityType
<1> QED BY <1>1, <1>2, <1>3

LEMMA NoMore ==
  ASSUME NEW S \in SUBSET MsgIds, NEW T \in SUBSET S
  PROVE  Cardinality(T) <= Cardinality(S)
  BY OfFinite, FS_Subset

LEMMA ExactlyOneMore ==
  ASSUME NEW S \in SUBSET MsgIds, NEW x, x \notin S
  PROVE  Cardinality(S \cup {x}) = Cardinality(S) + 1
  BY OfFinite, FS_AddElement

LEMMA OneLess ==
  ASSUME NEW S \in SUBSET MsgIds, NEW x \in S, NEW T \in SUBSET (S \ {x})
  PROVE  Cardinality(T) <= Cardinality(S) - 1
<1>1. IsFiniteSet(S \ {x}) /\ Cardinality(S \ {x}) = Cardinality(S) - 1
  BY OfFinite, FS_RemoveElement
<1> QED BY <1>1, FS_Subset

\* What a step adds to the messages of a job and queue.
LEMMA OfSame ==
  ASSUME Grows, next' = next, NEW j \in Jobs, NEW q \in Queues
  PROVE  Of(j, q)' = Of(j, q)
  BY DEF Grows, Of

LEMMA OfPublished ==
  ASSUME BrokerOK, Grows, NEW k \in Jobs, NEW p \in Queues, Published(p, k),
         NEW j \in Jobs, NEW q \in Queues
  PROVE  /\ Of(j, q)' = IF j = k /\ q = p THEN Of(j, q) \cup {next} ELSE Of(j, q)
         /\ next \notin Of(j, q)
<1>1. /\ next \in MsgIds /\ next' = next + 1 /\ msgs'[next].job = k /\ msgs'[next].queue = p
  BY DEF Published
<1>2. \A i \in MsgIds : i < next' <=> i < next \/ i = next
  BY <1>1 DEF MsgIds
<1>3. \A i \in MsgIds : i < next =>
        msgs'[i].queue = msgs[i].queue /\ msgs'[i].job = msgs[i].job
  BY DEF Grows
<1>4. next \notin Of(j, q)
  BY <1>1 DEF Of, MsgIds
<1>5. \A i \in MsgIds : i \in Of(j, q)' <=> i \in Of(j, q) \/ (i = next /\ j = k /\ q = p)
  BY <1>1, <1>2, <1>3 DEF Of, MsgIds
<1>6. Of(j, q) \subseteq MsgIds /\ Of(j, q)' \subseteq MsgIds
  BY DEF Of
<1> QED BY <1>1, <1>4, <1>5, <1>6

\* Which messages may still be passed on after a step of a worker.
LEMMA OpenAfter ==
  ASSUME TypeInv, HoldInv, Grows, NEW c \in Consumers, Kinds(c),
         NEW i \in MsgIds, i < next, OpenMsg(i)'
  PROVE  /\ OpenMsg(i) \/ (Fails(c) /\ i = work[c].id)
         /\ PassesOn(c) => i # work[c].id
<1>1. msgs'[i].queue = msgs[i].queue /\ msgs[i].queue = "audio"
  BY DEF Grows, OpenMsg
<1>2. Others(c)
  BY DEF Kinds, GoesOn, PutsAway, HandsBack, Fails, PassesOn, PassesTwice, Notifies, Goes, Ends, Loses
<1>3. CASE \E d \in Consumers \ {c} : Holds(d, i)' /\ work'[d].pc # "ack"
  <2>1. PICK d \in Consumers \ {c} : work'[d].held /\ work'[d].id = i /\ work'[d].pc # "ack"
    BY <1>3 DEF Holds
  <2>2. work'[d] = work[d]
    BY <1>2 DEF Others
  <2>3. OpenMsg(i)
    BY <1>1, <2>1, <2>2 DEF OpenMsg, Holds
  <2>4. PassesOn(c) => i # work[c].id
    BY <2>1, <2>2 DEF PassesOn, HoldInv
  <2> QED BY <2>3, <2>4
<1>4. CASE Holds(c, i)' /\ work'[c].pc # "ack"
  <2>1. work'[c].held /\ work'[c].id = i /\ work'[c].pc # "ack"
    BY <1>4 DEF Holds
  <2>2. ~PassesOn(c) /\ Goes(c)
    BY <2>1 DEF Kinds, GoesOn, PutsAway, HandsBack, Fails, PassesOn, PassesTwice, Notifies, Ends, Loses
  <2>3. OpenMsg(i)
    BY <1>1, <2>1, <2>2 DEF Goes, OpenMsg, Holds
  <2> QED BY <2>2, <2>3
<1>5. CASE msgs'[i].place = "ready"
  <2>1. CASE msgs[i].place = "ready"
    <3>1. PassesOn(c) => i # work[c].id
      BY <2>1 DEF PassesOn, HoldInv
    <3> QED BY <1>1, <2>1, <3>1 DEF OpenMsg
  <2>2. CASE msgs[i].place # "ready"
    <3>1. Holds(c, i) /\ ~GoesOn(c) /\ ~PutsAway(c) /\ ~PassesOn(c) /\ ~Notifies(c)
      BY <1>5, <2>2 DEF Kinds, GoesOn, PutsAway, HandsBack, Fails, PassesOn, PassesTwice, Notifies,
         Goes, Ends, Loses, PlacesBut
    <3>2. CASE Fails(c)
      BY <3>1, <3>2 DEF Holds
    <3>3. CASE ~Fails(c)
      BY <1>1, <3>1, <3>3 DEF Kinds, HandsBack, PassesTwice, OpenMsg
    <3> QED BY <3>1, <3>2, <3>3
  <2> QED BY <2>1, <2>2
<1>6. OpenMsg(i)' => \/ msgs'[i].place = "ready"
                    \/ \E d \in Consumers : Holds(d, i)' /\ work'[d].pc # "ack"
  BY DEF OpenMsg
<1> QED BY <1>3, <1>4, <1>5, <1>6

LEMMA OpenAside ==
  ASSUME TypeInv, Grows, Aside \/ \E c \in Consumers, k \in MsgIds : Hands(c, k),
         NEW i \in MsgIds, i < next, OpenMsg(i)'
  PROVE  OpenMsg(i)
<1>1. msgs'[i].queue = msgs[i].queue /\ msgs[i].queue = "audio"
  BY DEF Grows, OpenMsg
<1>2. CASE Aside
  <2>1. work' = work /\ (msgs'[i].place = "ready" => msgs[i].place = "ready")
    BY <1>2 DEF Aside
  <2> QED BY <1>1, <2>1 DEF OpenMsg, Holds
<1>3. ASSUME NEW c \in Consumers, NEW k \in MsgIds, Hands(c, k) PROVE OpenMsg(i)
  <2>1. /\ Others(c) /\ work'[c].id = k /\ msgs[k].place = "ready"
        /\ msgs'[i].place = "ready" => msgs[i].place = "ready"
    BY <1>3 DEF Hands
  <2>2. CASE \E d \in Consumers \ {c} : Holds(d, i)' /\ work'[d].pc # "ack"
    <3>1. PICK d \in Consumers \ {c} : work'[d].held /\ work'[d].id = i /\ work'[d].pc # "ack"
      BY <2>2 DEF Holds
    <3> QED BY <1>1, <2>1, <3>1 DEF Others, OpenMsg, Holds
  <2>3. CASE Holds(c, i)'
    BY <1>1, <2>1, <2>3 DEF Holds, OpenMsg
  <2>4. CASE msgs'[i].place = "ready"
    BY <1>1, <2>1, <2>4 DEF OpenMsg
  <2> QED BY <2>2, <2>3, <2>4 DEF OpenMsg
<1> QED BY <1>2, <1>3

LEMMA OpenSets ==
  ASSUME TypeInv, TypeInv', NEW j \in Jobs
  PROVE  /\ Open(j) \in SUBSET MsgIds /\ Open(j)' \in SUBSET MsgIds
         /\ \A q \in Queues : Of(j, q) \in SUBSET MsgIds /\ Of(j, q)' \in SUBSET MsgIds
         /\ Cardinality(Open(j)) \in Nat /\ Cardinality(Open(j)') \in Nat
         /\ \A q \in Queues : Cardinality(Of(j, q)) \in Nat /\ Cardinality(Of(j, q)') \in Nat
         /\ faults \in Nat /\ faults' \in Nat
<1>1. /\ Open(j) \in SUBSET MsgIds /\ Open(j)' \in SUBSET MsgIds
      /\ \A q \in Queues : Of(j, q) \in SUBSET MsgIds /\ Of(j, q)' \in SUBSET MsgIds
  BY DEF Open, Of
<1>2. faults \in Nat /\ faults' \in Nat
  BY BoundsAssumption DEF TypeInv, StoresOK
<1> QED BY <1>1, <1>2, OfFinite

\* Nothing new is passed on.
LEMMA OpenOnward ==
  ASSUME TypeInv, TypeInv', OpenInv, Grows, NoDelivery, faults' >= faults,
         \A i \in MsgIds : i < next /\ OpenMsg(i)' => OpenMsg(i)
  PROVE  OpenInv'
<1> SUFFICES ASSUME NEW j \in Jobs PROVE OpenJob(j)'
  BY DEF OpenInv
<1>1. OpenJob(j) /\ BrokerOK
  BY DEF OpenInv, TypeInv
<1>2. \A i \in Open(j)' : i \in MsgIds /\ (i < next => i \in Open(j))
  BY DEF Open, Grows
<1>3. CASE next' = next
  <2>1. /\ Open(j)' \subseteq Open(j) /\ Of(j, "audio")' = Of(j, "audio")
        /\ Of(j, "delivery")' = Of(j, "delivery")
    BY <1>2, <1>3, OfSame DEF Open, OpenMsg, Queues
  <2>2. Cardinality(Open(j)') <= Cardinality(Open(j))
    BY <2>1, OpenSets, NoMore
  <2> QED BY <1>1, <2>1, <2>2, OpenSets DEF OpenJob, Queues
<1>4. ASSUME NEW q \in Queues \ {"delivery"}, NEW k \in Jobs, Published(q, k) PROVE OpenJob(j)'
  <2>1. Of(j, "delivery")' = Of(j, "delivery")
    BY <1>1, <1>4, OfPublished DEF Queues
  <2>2. /\ Of(j, "audio")' = IF j = k /\ q = "audio" THEN Of(j, "audio") \cup {next} ELSE Of(j, "audio")
        /\ next \notin Of(j, "audio")
    BY <1>1, <1>4, OfPublished DEF Queues
  <2>3. \A i \in Open(j)' : i \in Open(j) \/ (i = next /\ j = k /\ q = "audio")
    BY <1>2, <1>4 DEF Published, Open, OpenMsg, MsgIds
  <2>4. CASE j = k /\ q = "audio"
    <3>1. Cardinality(Open(j)') <= Cardinality(Open(j)) + 1
      <4>1. Open(j)' \in SUBSET (Open(j) \cup {next})
        BY <2>3
      <4> QED BY <4>1, OpenSets, OneMore
    <3>2. Cardinality(Of(j, "audio")') = Cardinality(Of(j, "audio")) + 1
      BY <2>2, <2>4, OpenSets, ExactlyOneMore DEF Queues
    <3> QED BY <1>1, <2>1, <3>1, <3>2, OpenSets DEF OpenJob, Queues
  <2>5. CASE ~(j = k /\ q = "audio")
    <3>1. Cardinality(Open(j)') <= Cardinality(Open(j))
      BY <2>3, <2>5, OpenSets, NoMore
    <3> QED BY <1>1, <2>1, <2>2, <2>5, <3>1, OpenSets DEF OpenJob, Queues
  <2> QED BY <2>4, <2>5
<1> QED BY <1>3, <1>4 DEF NoDelivery

\* The step of a worker, job by job.
LEMMA OpenWorker ==
  ASSUME TypeInv, TypeInv', OpenInv, HoldInv, Grows, NEW c \in Consumers, Kinds(c)
  PROVE  OpenInv'
<1>1. CASE GoesOn(c) \/ PutsAway(c) \/ HandsBack(c) \/ Notifies(c)
  <2>1. NoDelivery /\ faults' >= faults
    BY <1>1, BoundsAssumption DEF GoesOn, PutsAway, HandsBack, Notifies, NoDelivery, Alone, Counts,
       TypeInv, StoresOK
  <2>2. ASSUME ~Fails(c) PROVE OpenInv'
    BY <2>1, <2>2, OpenAfter, OpenOnward
  <2>3. ~Fails(c)
    BY <1>1, BoundsAssumption DEF GoesOn, PutsAway, HandsBack, Notifies, Alone, Counts, Fails,
       TypeInv, StoresOK
  <2> QED BY <2>2, <2>3
<1> SUFFICES ASSUME NEW j \in Jobs, Fails(c) \/ PassesOn(c) \/ PassesTwice(c) PROVE OpenJob(j)'
  BY <1>1 DEF OpenInv, Kinds
<1>2. OpenJob(j) /\ BrokerOK
  BY DEF OpenInv, TypeInv
<1>3. CASE Fails(c)
  <2>1. Of(j, "audio")' = Of(j, "audio") /\ Of(j, "delivery")' = Of(j, "delivery")
    BY <1>3, OfSame DEF Fails, Queues
  <2>2. Open(j)' \in SUBSET (Open(j) \cup {work[c].id})
    <3>1. \A i \in Open(j)' : i \in MsgIds /\ i < next /\ OpenMsg(i)' /\ msgs'[i].job = j
      BY <1>3 DEF Open, OpenMsg, Fails
    <3>2. \A i \in Open(j)' : (OpenMsg(i) \/ i = work[c].id) /\ msgs[i].job = j
      BY <3>1, OpenAfter DEF Grows
    <3> QED BY <3>1, <3>2 DEF Open
  <2>3. Cardinality(Open(j)') <= Cardinality(Open(j)) + 1
    BY <2>2, OpenSets, OneMore
  <2> QED BY <1>2, <1>3, <2>1, <2>3, OpenSets DEF Fails, OpenJob, Queues
<1>4. CASE PassesOn(c) \/ PassesTwice(c)
  <2>1. PICK k \in Jobs : k = JobOf(c) /\ Published("delivery", k)
    <3>1. work[c].pc # "idle"
      BY <1>4 DEF PassesOn, PassesTwice, Published, Goes, TypeInv, HandlersOK, HandlerOK, Holds
    <3> QED BY <1>4, <3>1, HandlerFacts DEF PassesOn, PassesTwice, TypeInv
  <2>2. Of(j, "audio")' = Of(j, "audio") /\ next \notin Of(j, "delivery")
    BY <1>2, <2>1, OfPublished DEF Queues
  <2>3. Of(j, "delivery")' = IF j = k THEN Of(j, "delivery") \cup {next} ELSE Of(j, "delivery")
    BY <1>2, <2>1, OfPublished DEF Queues
  <2>4. j = k => Cardinality(Of(j, "delivery")') = Cardinality(Of(j, "delivery")) + 1
    BY <2>2, <2>3, OpenSets, ExactlyOneMore DEF Queues
  <2>5. j # k => Cardinality(Of(j, "delivery")') = Cardinality(Of(j, "delivery"))
    BY <2>3
  <2>6. ~Fails(c) /\ \A i \in Open(j)' : i \in MsgIds /\ i < next /\ OpenMsg(i)' /\ msgs'[i].job = j
    <3>1. next' = next + 1 /\ next \in MsgIds /\ msgs'[next].queue = "delivery"
      BY <2>1 DEF Published
    <3> QED BY <3>1 DEF Fails, Open, OpenMsg, MsgIds
  <2>7. \A i \in Open(j)' : i \in Open(j) /\ (PassesOn(c) => i # work[c].id)
    <3>1. \A i \in Open(j)' : OpenMsg(i) /\ msgs[i].job = j /\ (PassesOn(c) => i # work[c].id)
      BY <2>6, OpenAfter DEF Grows
    <3> QED BY <2>6, <3>1 DEF Open
  <2>8. Cardinality(Open(j)') <= Cardinality(Open(j))
    BY <2>7, OpenSets, NoMore
  <2>9. CASE PassesOn(c)
    <3>1. CASE j = k
      <4>1. work[c].id \in Open(j)
        BY <2>1, <2>9, <3>1 DEF PassesOn, Goes, Open, OpenMsg, Holds, JobOf, TypeInv, HandlersOK, HandlerOK
      <4>2. Open(j)' \in SUBSET (Open(j) \ {work[c].id})
        BY <2>7, <2>9
      <4>3. Cardinality(Open(j)') <= Cardinality(Open(j)) - 1
        BY <4>1, <4>2, OpenSets, OneLess
      <4> QED BY <1>2, <2>2, <2>4, <2>9, <3>1, <4>3, OpenSets DEF OpenJob, Queues, PassesOn, Counts
    <3>2. CASE j # k
      BY <1>2, <2>2, <2>5, <2>8, <2>9, <3>2, OpenSets DEF OpenJob, Queues, PassesOn, Counts
    <3> QED BY <3>1, <3>2
  <2>10. CASE PassesTwice(c)
    BY <1>2, <2>2, <2>4, <2>5, <2>8, <2>10, OpenSets DEF OpenJob, Queues, PassesTwice
  <2> QED BY <1>4, <2>9, <2>10
<1> QED BY <1>3, <1>4

LEMMA OpenOthers ==
  ASSUME TypeInv, TypeInv', OpenInv, Grows, Aside \/ \E c \in Consumers, i \in MsgIds : Hands(c, i)
  PROVE  OpenInv'
<1>1. NoDelivery /\ faults' >= faults
  BY BoundsAssumption DEF Aside, Hands, Alone, Counts, NoDelivery, TypeInv, StoresOK
<1> QED BY <1>1, OpenAside, OpenOnward

-----------------------------------------------------------------------------
(* Webhooks.                                                               *)

LEMMA HookersFinite ==
  ASSUME NEW S \in SUBSET Consumers
  PROVE  IsFiniteSet(S) /\ Cardinality(S) \in Nat
  BY ConsumersAssumption, FS_Subset, FS_CardinalityType

LEMMA HookSets ==
  ASSUME TypeInv, TypeInv', NEW i \in MsgIds
  PROVE  /\ Hookers(i) \in SUBSET Consumers /\ Hookers(i)' \in SUBSET Consumers
         /\ Cardinality(Hookers(i)) \in Nat /\ Cardinality(Hookers(i)') \in Nat
         /\ Waiting(i) \in {0, 1} /\ Waiting(i)' \in {0, 1}
         /\ hooked[i] \in Nat /\ hooked'[i] \in Nat
         /\ faults \in Nat /\ faults' \in Nat
<1>1. Hookers(i) \in SUBSET Consumers /\ Hookers(i)' \in SUBSET Consumers
  BY DEF Hookers
<1>2. /\ hooked[i] \in Nat /\ hooked'[i] \in Nat /\ faults \in Nat /\ faults' \in Nat
  BY BoundsAssumption DEF TypeInv, StoresOK
<1> QED BY <1>1, <1>2, HookersFinite DEF Waiting

LEMMA HookersNoMore ==
  ASSUME NEW S \in SUBSET Consumers, NEW T \in SUBSET S
  PROVE  Cardinality(T) <= Cardinality(S)
  BY HookersFinite, FS_Subset

LEMMA HookersOneMore ==
  ASSUME NEW S \in SUBSET Consumers, NEW x \in Consumers, NEW T \in SUBSET (S \cup {x})
  PROVE  Cardinality(T) <= Cardinality(S) + 1
<1>1. IsFiniteSet(S) /\ Cardinality(S) \in Nat
  BY HookersFinite
<1>2. /\ Cardinality(S \cup {x}) = IF x \in S THEN Cardinality(S) ELSE Cardinality(S) + 1
      /\ S \cup {x} \in SUBSET Consumers
  BY <1>1, FS_AddElement
<1>3. Cardinality(T) <= Cardinality(S \cup {x}) /\ Cardinality(T) \in Nat
  BY <1>2, HookersNoMore, HookersFinite
<1> QED BY <1>1, <1>2, <1>3

LEMMA HookersOneLess ==
  ASSUME NEW S \in SUBSET Consumers, NEW x \in S, NEW T \in SUBSET (S \ {x})
  PROVE  Cardinality(T) <= Cardinality(S) - 1
<1>1. Cardinality(S \ {x}) = Cardinality(S) - 1
  BY HookersFinite, FS_RemoveElement
<1> QED BY <1>1, HookersNoMore

\* Hookers and the waiting message after a step: nobody new but by a delivery.
LEMMA HookersAfter ==
  ASSUME TypeInv, Grows, NEW c \in Consumers, Kinds(c), NEW i \in MsgIds, i < next
  PROVE  /\ Hookers(i)' \subseteq Hookers(i)
         /\ (HandsBack(c) \/ Notifies(c)) /\ work[c].id = i => c \notin Hookers(i)'
         /\ HandsBack(c) /\ msgs'[i].place = "ready" /\ msgs[i].place # "ready"
              => work[c].id = i
         /\ GoesOn(c) \/ PutsAway(c) \/ PassesOn(c) \/ Notifies(c) => Waiting(i)' <= Waiting(i)
<1>1. Others(c)
  BY DEF Kinds, GoesOn, PutsAway, HandsBack, Fails, PassesOn, PassesTwice, Notifies, Goes, Ends, Loses
<1>2. /\ c \in Hookers(i)' => c \in Hookers(i)
      /\ (HandsBack(c) \/ Notifies(c)) => c \notin Hookers(i)'
  BY DEF Kinds, GoesOn, PutsAway, HandsBack, Fails, PassesOn, PassesTwice, Notifies, Goes, Ends, Loses,
     Hookers, HookPcs
<1>3. \A d \in Consumers \ {c} : d \in Hookers(i)' => d \in Hookers(i)
  BY <1>1 DEF Others, Hookers
<1>4. Hookers(i)' \subseteq Hookers(i)
  BY <1>2, <1>3 DEF Hookers
<1>5. HandsBack(c) /\ msgs'[i].place = "ready" /\ msgs[i].place # "ready" => work[c].id = i
  BY DEF HandsBack, Ends, PlacesBut, Holds
<1>6. GoesOn(c) \/ PutsAway(c) \/ PassesOn(c) \/ Notifies(c)
        => (msgs'[i].place = "ready" => msgs[i].place = "ready")
  BY DEF GoesOn, PutsAway, PassesOn, Notifies, Goes, Ends, PlacesBut
<1> QED BY <1>2, <1>4, <1>5, <1>6 DEF Waiting

\* A new message has no handler and no webhook yet.
LEMMA HookNew ==
  ASSUME TypeInv, TypeInv', HookInv, NEW i \in MsgIds, i >= next,
         UNCHANGED work \/ \E c \in Consumers : Kinds(c) \/ \E k \in MsgIds : Hands(c, k),
         hooked'[i] = hooked[i]
  PROVE  HookOK(i)' /\ hooked'[i] = 0
<1>1. hooked'[i] = 0
  BY DEF HookInv
<1>2. ASSUME NEW d \in Consumers, work'[d].id = i PROVE work'[d].pc \notin HookPcs
  <2>1. \A e \in Consumers : work[e].pc # "idle" => work[e].id < next /\ work[e].id \in MsgIds /\ work[e].id # i
    BY DEF TypeInv, HandlersOK, HandlerOK, MsgIds, BrokerOK
  <2>2. CASE work'[d].pc # "idle" => work'[d].id = work[d].id /\ work[d].pc # "idle"
    BY <1>2, <2>1, <2>2 DEF HookPcs
  <2>3. ASSUME NEW c \in Consumers, Kinds(c)
        PROVE  work'[d].pc # "idle" => work'[d].id = work[d].id /\ work[d].pc # "idle"
    <3>1. d # c => work'[d] = work[d]
      BY <2>3 DEF Kinds, GoesOn, PutsAway, HandsBack, Fails, PassesOn, PassesTwice, Notifies, Goes, Ends,
         Loses, Others
    <3>2. work'[c].pc # "idle" => work'[c].id = work[c].id /\ work[c].pc # "idle"
      BY <2>3 DEF Kinds, GoesOn, PutsAway, HandsBack, Fails, PassesOn, PassesTwice, Notifies, Goes, Ends, Loses
    <3> QED BY <3>1, <3>2
  <2>4. ASSUME NEW c \in Consumers, NEW k \in MsgIds, Hands(c, k)
        PROVE  work'[d].pc # "idle" => work'[d].id = work[d].id /\ work[d].pc # "idle"
    <3>1. k # i
      BY <2>4 DEF Hands, MsgIds, TypeInv, BrokerOK
    <3> QED BY <1>2, <2>4, <3>1 DEF Hands, Others
  <2> QED BY <2>2, <2>3, <2>4
<1>3. Hookers(i)' = {}
  BY <1>2 DEF Hookers
<1>4. Cardinality(Hookers(i)') = 0
  BY <1>3, FS_EmptySet
<1> QED BY <1>1, <1>4, HookSets DEF HookOK

LEMMA HookWorker ==
  ASSUME TypeInv, TypeInv', HookInv, Grows, NEW c \in Consumers, Kinds(c)
  PROVE  HookInv'
<1>1. ASSUME NEW i \in MsgIds, i >= next
      PROVE  hooked'[i] = 0 /\ HookOK(i)'
  <2>1. hooked'[i] = hooked[i]
    <3>1. CASE Notifies(c)
      <4>1. work[c].id # i
        BY <1>1, <3>1 DEF Notifies, Goes, TypeInv, HandlersOK, HandlerOK, BrokerOK, MsgIds
      <4> QED BY <3>1, <4>1 DEF Notifies, TypeInv, StoresOK
    <3>2. CASE ~Notifies(c)
      BY <3>2 DEF Kinds, GoesOn, PutsAway, HandsBack, Fails, PassesOn, PassesTwice, Alone, Counts
    <3> QED BY <3>1, <3>2
  <2> QED BY <1>1, <2>1, HookNew
<1>2. ASSUME NEW i \in MsgIds, i < next, msgs[i].queue # "delivery" PROVE hooked'[i] = 0
  <2>1. hooked[i] = 0
    BY <1>2 DEF HookInv
  <2>2. CASE Notifies(c)
    <3>1. work[c].id # i
      BY <1>2, <2>2 DEF Notifies, Goes, TypeInv, HandlersOK, HandlerOK
    <3> QED BY <2>1, <2>2, <3>1 DEF Notifies, TypeInv, StoresOK
  <2>3. CASE ~Notifies(c)
    BY <2>1, <2>3 DEF Kinds, GoesOn, PutsAway, HandsBack, Fails, PassesOn, PassesTwice, Alone, Counts
  <2> QED BY <2>2, <2>3
<1>3. ASSUME NEW i \in MsgIds, i < next, msgs[i].queue = "delivery" PROVE HookOK(i)'
  <2>1. HookOK(i)
    BY <1>3 DEF HookInv
  <2>2. Cardinality(Hookers(i)') <= Cardinality(Hookers(i))
    BY <1>3, HookSets, HookersAfter, HookersNoMore
  <2>3. CASE Fails(c) \/ PassesTwice(c)
    BY <2>1, <2>2, <2>3, HookSets DEF HookOK, Fails, PassesTwice
  <2>4. CASE GoesOn(c) \/ PutsAway(c) \/ PassesOn(c)
    <3>1. hooked' = hooked /\ faults' = faults
      BY <2>4 DEF GoesOn, PutsAway, PassesOn, Alone, Counts
    <3>2. Waiting(i)' <= Waiting(i)
      BY <1>3, <2>4, HookersAfter
    <3> QED BY <2>1, <2>2, <3>1, <3>2, HookSets DEF HookOK
  <2>5. CASE HandsBack(c)
    <3>1. hooked' = hooked /\ faults' = faults
      BY <2>5 DEF HandsBack, Alone, Counts
    <3>2. CASE Waiting(i)' <= Waiting(i)
      BY <2>1, <2>2, <3>1, <3>2, HookSets DEF HookOK
    <3>3. CASE msgs'[i].place = "ready" /\ msgs[i].place # "ready"
      <4>1. Holds(c, i)
        BY <1>3, <2>5, <3>3 DEF HandsBack, Ends, PlacesBut
      <4>2. c \in Hookers(i)
        BY <1>3, <2>5, <4>1 DEF Holds, Hookers, HandsBack, TypeInv, HandlersOK, HandlerOK
      <4>3. Hookers(i)' \in SUBSET (Hookers(i) \ {c})
        BY <1>3, <2>5, <4>1, HookersAfter DEF Holds
      <4>4. Cardinality(Hookers(i)') <= Cardinality(Hookers(i)) - 1
        BY <4>2, <4>3, HookSets, HookersOneLess
      <4>5. Waiting(i)' = 1 /\ Waiting(i) = 0
        BY <3>3 DEF Waiting
      <4> QED BY <2>1, <3>1, <4>4, <4>5, HookSets DEF HookOK
    <3> QED BY <3>2, <3>3 DEF Waiting
  <2>6. CASE Notifies(c)
    <3>1. faults' = faults /\ Waiting(i)' <= Waiting(i)
      BY <1>3, <2>6, HookersAfter DEF Notifies
    <3>2. CASE work[c].id # i
      <4>1. hooked'[i] = hooked[i]
        BY <2>6, <3>2 DEF Notifies, TypeInv, StoresOK
      <4> QED BY <2>1, <2>2, <3>1, <4>1, HookSets DEF HookOK
    <3>3. CASE work[c].id = i
      <4>1. hooked'[i] = hooked[i] + 1
        BY <2>6, <3>3 DEF Notifies, TypeInv, StoresOK
      <4>2. c \in Hookers(i) /\ Hookers(i)' \in SUBSET (Hookers(i) \ {c})
        <5>1. c \in Hookers(i)
          BY <2>6, <3>3 DEF Notifies, Hookers
        <5>2. Hookers(i)' \subseteq Hookers(i) /\ c \notin Hookers(i)'
          BY <1>3, <2>6, <3>3, HookersAfter
        <5> QED BY <5>1, <5>2
      <4>3. Cardinality(Hookers(i)') <= Cardinality(Hookers(i)) - 1
        BY <4>2, HookSets, HookersOneLess
      <4> QED BY <2>1, <3>1, <4>1, <4>3, HookSets DEF HookOK
    <3> QED BY <3>2, <3>3
  <2> QED BY <2>3, <2>4, <2>5, <2>6 DEF Kinds
<1>4. \A i \in MsgIds : i < next => msgs'[i].queue = msgs[i].queue /\ i < next'
  BY DEF Grows, TypeInv, BrokerOK, MsgIds
<1>5. ASSUME NEW i \in MsgIds
      PROVE  /\ i < next' /\ msgs'[i].queue = "delivery" => HookOK(i)'
             /\ i >= next' \/ msgs'[i].queue # "delivery" => hooked'[i] = 0
  <2>1. CASE i >= next
    BY <1>1, <2>1
  <2>2. CASE i < next
    BY <1>2, <1>3, <1>4, <2>2 DEF TypeInv, BrokerOK, MsgIds
  <2> QED BY <2>1, <2>2 DEF TypeInv, BrokerOK, MsgIds
<1> QED BY <1>5 DEF HookInv

LEMMA HookOthers ==
  ASSUME TypeInv, TypeInv', HookInv, Grows, Aside \/ \E c \in Consumers, k \in MsgIds : Hands(c, k)
  PROVE  HookInv'
<1>1. hooked' = hooked
  BY DEF Aside, Hands, Alone, Counts
<1>2. ASSUME NEW i \in MsgIds, i >= next
      PROVE  hooked'[i] = 0 /\ HookOK(i)'
  BY <1>1, <1>2, HookNew DEF Aside
<1>3. ASSUME NEW i \in MsgIds, i < next, msgs[i].queue = "delivery" PROVE HookOK(i)'
  <2>1. HookOK(i)
    BY <1>3 DEF HookInv
  <2>2. CASE Aside
    <3>1. faults' >= faults /\ (msgs'[i].place = "ready" => msgs[i].place = "ready") /\ work' = work
      BY <1>3, <2>2, HookSets DEF Aside
    <3>2. Waiting(i)' <= Waiting(i) /\ Hookers(i)' = Hookers(i)
      BY <3>1 DEF Waiting, Hookers
    <3> QED BY <1>1, <2>1, <3>1, <3>2, HookSets DEF HookOK
  <2>3. ASSUME NEW c \in Consumers, NEW k \in MsgIds, Hands(c, k) PROVE HookOK(i)'
    <3>1. faults' = faults /\ \A d \in Consumers : d # c => work'[d] = work[d]
      BY <2>3 DEF Hands, Alone, Counts, Others
    <3>2. CASE i = k
      <4>1. Waiting(i) = 1 /\ Waiting(i)' = 0
        BY <2>3, <3>2 DEF Waiting, Hands
      <4>2. Hookers(i)' \in SUBSET (Hookers(i) \cup {c})
        BY <3>1 DEF Hookers
      <4>3. Cardinality(Hookers(i)') <= Cardinality(Hookers(i)) + 1
        BY <4>2, HookSets, HookersOneMore
      <4> QED BY <1>1, <2>1, <3>1, <4>1, <4>3, HookSets DEF HookOK
    <3>3. CASE i # k
      <4>1. Waiting(i)' = Waiting(i) /\ Hookers(i)' \in SUBSET Hookers(i)
        BY <2>3, <3>1, <3>3 DEF Waiting, Hookers, Hands
      <4>2. Cardinality(Hookers(i)') <= Cardinality(Hookers(i))
        BY <4>1, HookSets, HookersNoMore
      <4> QED BY <1>1, <2>1, <3>1, <4>1, <4>2, HookSets DEF HookOK
    <3> QED BY <3>2, <3>3
  <2> QED BY <2>2, <2>3
<1>4. \A i \in MsgIds : i < next => msgs'[i].queue = msgs[i].queue /\ i < next'
  BY DEF Grows, TypeInv, BrokerOK, MsgIds
<1>5. ASSUME NEW i \in MsgIds
      PROVE  /\ i < next' /\ msgs'[i].queue = "delivery" => HookOK(i)'
             /\ i >= next' \/ msgs'[i].queue # "delivery" => hooked'[i] = 0
  <2>1. CASE i >= next
    BY <1>2, <2>1
  <2>2. CASE i < next
    BY <1>1, <1>3, <1>4, <2>2 DEF TypeInv, BrokerOK, MsgIds, HookInv
  <2> QED BY <2>1, <2>2 DEF TypeInv, BrokerOK, MsgIds
<1> QED BY <1>5 DEF HookInv

-----------------------------------------------------------------------------
(* Every step is of one of these kinds.                                    *)

PlacesSame == \A i \in MsgIds : i < next => msgs'[i].place = msgs[i].place

LEMMA GotoGoes ==
  ASSUME TypeInv, NEW c \in Consumers, work[c].pc \notin {"idle", "ack"}, NEW p \in Pcs \ {"idle"},
         Goto(c, p), PlacesSame
  PROVE  Goes(c) /\ work'[c].pc = p
<1>1. work'[c] = [work[c] EXCEPT !.pc = p] /\ \A d \in Consumers : d # c => work'[d] = work[d]
  BY DEF TypeInv, HandlersOK, Goto
<1>2. work'[c].pc = p /\ work'[c].id = work[c].id /\ work'[c].held = work[c].held
  BY <1>1 DEF TypeInv, HandlersOK, Work
<1> QED BY <1>1, <1>2 DEF Goes, Others, PlacesBut, PlacesSame

LEMMA EnqueuePlaces ==
  ASSUME BrokerOK, NEW q, NEW j, NEW fields, NEW segs, Enqueue(msgs, q, j, fields, segs)
  PROVE  PlacesSame
  BY DEF Enqueue, BrokerOK, PlacesSame, MsgIds

LEMMA ReleaseEnds ==
  ASSUME TypeInv, NEW c \in Consumers, Release(c), NEW P \in SUBSET Places,
         NEW p \in P, PlacesSame \/ (work[c].held /\ msgs' = At(work[c].id, p))
  PROVE  Ends(c, P)
<1>1. Others(c) /\ work'[c].pc = "idle" /\ ~work'[c].held
  BY DEF TypeInv, HandlersOK, Release, Idle, Others
<1>2. PlacesBut(c, P)
  <2>1. CASE PlacesSame
    BY <2>1 DEF PlacesSame, PlacesBut
  <2>2. CASE work[c].held /\ msgs' = At(work[c].id, p)
    <3>1. work[c].id \in MsgIds /\ work[c].id < next
      BY <2>2 DEF TypeInv, HandlersOK, HandlerOK
    <3>2. /\ At(work[c].id, p)[work[c].id].place = p
          /\ \A k \in MsgIds : k # work[c].id => At(work[c].id, p)[k] = msgs[k]
      BY <3>1, AtFacts DEF TypeInv
    <3> QED BY <2>2, <3>2 DEF PlacesBut, Holds
  <2> QED BY <2>1, <2>2
<1> QED BY <1>1, <1>2 DEF Ends

LEMMA RejectEnds ==
  ASSUME TypeInv, NEW c \in Consumers, Reject(c)
  PROVE  Ends(c, {"ready", "dead"}) /\ Ends(c, {"acked", "dead"})
<1>1. PlacesSame \/ (work[c].held /\ msgs' = At(work[c].id, "dead"))
  BY DEF Reject, PlacesSame
<1> QED BY <1>1, ReleaseEnds DEF Reject, Places

LEMMA RequeueEnds ==
  ASSUME TypeInv, NEW c \in Consumers, Requeue(c)
  PROVE  Ends(c, {"ready", "dead"})
<1>1. PICK p \in {"ready", "dead"} : Returned(work[c].id) = At(work[c].id, p)
  BY ReturnedIsAt
<1>2. PlacesSame \/ (work[c].held /\ msgs' = At(work[c].id, p))
  BY <1>1 DEF Requeue, PlacesSame
<1> QED BY <1>2, ReleaseEnds DEF Requeue, Places

LEMMA AckEnds ==
  ASSUME TypeInv, NEW c \in Consumers, Ack(c) \/ LostChannel(c)
  PROVE  PutsAway(c)
<1>1. PlacesSame \/ (work[c].held /\ msgs' = At(work[c].id, "acked"))
  BY DEF Ack, LostChannel, PlacesSame, broker
<1>2. Ends(c, {"acked", "dead"})
  BY <1>1, ReleaseEnds DEF Ack, LostChannel, Places
<1> QED BY <1>2 DEF Ack, LostChannel, PutsAway, Alone, Counts, broker

LEMMA FailureKinds ==
  ASSUME TypeInv, NEW c \in Consumers, Disconnect(c) \/ Crash(c) \/ CallFails(c) \/ StatementFails(c)
  PROVE  Fails(c)
<1>1. next' = next /\ hooked' = hooked /\ faults' = faults + 1
  BY DEF Disconnect, Crash, CallFails, StatementFails, Fault
<1>2. CASE Disconnect(c)
  <2>1. PICK p \in {"ready", "dead"} : Returned(work[c].id) = At(work[c].id, p)
    BY ReturnedIsAt
  <2>2. work[c].held /\ work[c].id \in MsgIds /\ work[c].id < next /\ msgs' = At(work[c].id, p)
    BY <1>2, <2>1 DEF Disconnect, TypeInv, HandlersOK, HandlerOK
  <2>3. /\ At(work[c].id, p)[work[c].id].place = p
        /\ \A k \in MsgIds : k # work[c].id => At(work[c].id, p)[k] = msgs[k]
    BY <2>2, AtFacts DEF TypeInv, Places
  <2>4. PlacesBut(c, {"ready", "dead"})
    BY <2>2, <2>3 DEF PlacesBut, Holds
  <2>5. work'[c] = [work[c] EXCEPT !.held = FALSE] /\ \A d \in Consumers : d # c => work'[d] = work[d]
    BY <1>2 DEF Disconnect, TypeInv, HandlersOK
  <2>6. work'[c].pc = work[c].pc /\ work'[c].id = work[c].id /\ ~work'[c].held
    BY <2>5 DEF TypeInv, HandlersOK, Work
  <2> QED BY <1>1, <2>4, <2>5, <2>6 DEF Fails, Loses, Others
<1>3. CASE Crash(c)
  <2>1. Requeue(c)
    BY <1>3 DEF Crash, Requeue
  <2> QED BY <1>1, <2>1, RequeueEnds DEF Fails
<1>4. CASE CallFails(c) \/ StatementFails(c)
  <2>1. Reject(c) \/ Requeue(c)
    BY <1>4 DEF CallFails, StatementFails
  <2> QED BY <1>1, <2>1, RejectEnds, RequeueEnds DEF Fails
<1> QED BY <1>2, <1>3, <1>4

LEMMA PythonKinds ==
  ASSUME TypeInv, NEW c \in Consumers,
         \/ SessionBroken(c) \/ AnalyzerStart(c) \/ Analyze(c) \/ StoreSegments(c)
         \/ UpdateJobStage(c) \/ PublishTranscript(c)
         \/ SelectSegments(c) \/ SynthesizeSegment(c) \/ UpdateSegmentRecord(c)
         \/ MarkSynthesized(c) \/ PublishAudio(c) \/ SynthesizedEvent(c)
  PROVE  GoesOn(c) \/ PutsAway(c)
<1>1. UNCHANGED <<faults, hooked>> /\ work \in [Consumers -> Work] /\ BrokerOK /\ HandlersOK
  BY DEF SessionBroken, AnalyzerStart, Analyze, StoreSegments, UpdateJobStage, PublishTranscript,
     SelectSegments, SynthesizeSegment, UpdateSegmentRecord, MarkSynthesized, PublishAudio,
     SynthesizedEvent, TypeInv, HandlersOK
<1>2. CASE SessionBroken(c) \/ (Reject(c) /\ next' = next)
  <2>1. Reject(c) /\ next' = next
    BY <1>2 DEF SessionBroken
  <2> QED BY <1>1, <2>1, RejectEnds DEF PutsAway, Alone, Counts
<1> SUFFICES ASSUME ~SessionBroken(c), ~(Reject(c) /\ next' = next) PROVE GoesOn(c)
  BY <1>2
<1>3. Serves[c] # "delivery" /\ work[c].pc \notin {"idle", "ack"}
  BY DEF AnalyzerStart, Analyze, StoreSegments, UpdateJobStage, PublishTranscript,
     SelectSegments, SynthesizeSegment, UpdateSegmentRecord, MarkSynthesized, PublishAudio,
     SynthesizedEvent, AtStep
<1> SUFFICES Goes(c) /\ NoDelivery
  BY <1>1, <1>3 DEF GoesOn, Counts
<1>4. CASE PublishTranscript(c) \/ PublishAudio(c)
  <2>1. PICK q \in {"transcript", "audio"}, fields \in SUBSET Fields :
          Enqueue(msgs, q, JobOf(c), fields, work[c].segs)
    BY <1>4 DEF PublishTranscript, PublishAudio, Fields
  <2>2. JobOf(c) \in Jobs /\ work[c].segs \in SUBSET Segs
    BY <1>1, <1>3, HandlerFacts
  <2>3. Published(q, JobOf(c))
    BY <1>1, <2>1, <2>2, EnqueueEffect DEF Queues
  <2>4. PICK p \in {"ack", "event"} : Goto(c, p)
    BY <1>4 DEF PublishTranscript, PublishAudio
  <2>5. Goes(c)
    BY <1>1, <1>3, <2>1, <2>4, EnqueuePlaces, GotoGoes DEF Pcs
  <2> QED BY <2>2, <2>3, <2>5 DEF NoDelivery, Queues
<1>5. CASE ~(PublishTranscript(c) \/ PublishAudio(c))
  <2>1. next' = next /\ msgs' = msgs
    BY <1>5 DEF AnalyzerStart, Analyze, StoreSegments, UpdateJobStage,
       SelectSegments, SynthesizeSegment, UpdateSegmentRecord, MarkSynthesized, SynthesizedEvent, broker
  <2>2. PlacesSame
    BY <2>1 DEF PlacesSame
  <2>3. CASE \E p \in Pcs \ {"idle"} : Goto(c, p)
    <3>1. PICK p \in Pcs \ {"idle"} : Goto(c, p)
      BY <2>3
    <3> QED BY <1>3, <2>1, <2>2, <3>1, GotoGoes DEF NoDelivery
  <2>4. CASE Analyze(c) \/ SelectSegments(c) \/ UpdateSegmentRecord(c)
    <3>1. /\ work'[c].pc # "idle" /\ work'[c].id = work[c].id /\ work'[c].held = work[c].held
          /\ \A d \in Consumers : d # c => work'[d] = work[d]
      <4>1. CASE Analyze(c)
        <5>1. PICK found \in SUBSET Segs : work' = [work EXCEPT ![c].pc = "store", ![c].segs = found]
          BY <4>1 DEF Analyze
        <5> QED BY <1>1, <5>1 DEF Work
      <4>2. CASE SelectSegments(c)
        <5>1. PICK chosen : work' = [work EXCEPT ![c].pc = "synth", ![c].todo = chosen, ![c].segs = chosen]
          BY <4>2, <2>1 DEF SelectSegments
        <5> QED BY <1>1, <5>1 DEF Work
      <4>3. CASE UpdateSegmentRecord(c)
        <5>1. PICK p \in {"synth", "publish", "stage"} :
                p = IF work[c].todo \ {Current(c)} # {} THEN "synth"
                    ELSE IF Regenerates(c) THEN "publish" ELSE "stage"
          OBVIOUS
        <5>2. work' = [work EXCEPT ![c].todo = work[c].todo \ {Current(c)}, ![c].pc = p]
          BY <4>3, <5>1 DEF UpdateSegmentRecord
        <5> QED BY <1>1, <5>2 DEF Work
      <4> QED BY <2>4, <4>1, <4>2, <4>3
    <3>2. Others(c)
      BY <3>1 DEF Others
    <3>3. PlacesBut(c, {})
      BY <2>2 DEF PlacesBut, PlacesSame
    <3> QED BY <1>3, <2>1, <3>1, <3>2, <3>3 DEF Goes, NoDelivery
  <2>5. CASE ~(Analyze(c) \/ SelectSegments(c) \/ UpdateSegmentRecord(c))
    <3>1. \E p \in {"analyze", "stage", "publish", "record", "ack"} : Goto(c, p)
      BY <1>5, <2>1, <2>5 DEF AnalyzerStart, StoreSegments, UpdateJobStage, SynthesizeSegment,
         MarkSynthesized, SynthesizedEvent
    <3> QED BY <2>3, <3>1 DEF Pcs
  <2> QED BY <2>1, <2>4, <2>5 DEF NoDelivery
<1> QED BY <1>4, <1>5

LEMMA GoKinds ==
  ASSUME TypeInv, NEW c \in Consumers,
         \/ MuxStart(c) \/ MuxDownload(c) \/ MuxUpload(c) \/ MuxStage(c)
         \/ DeliveryStart(c) \/ Presign(c) \/ Complete(c)
  PROVE  GoesOn(c) \/ HandsBack(c)
<1>1. UNCHANGED <<faults, hooked, next>> /\ work[c].pc \notin {"idle", "ack"}
      /\ (Serves[c] = "delivery" => work[c].pc \in HookPcs)
  BY DEF MuxStart, MuxDownload, MuxUpload, MuxStage, DeliveryStart, Presign, Complete, broker, AtStep, HookPcs
<1>2. CASE Requeue(c)
  BY <1>1, <1>2, RequeueEnds DEF HandsBack, Alone, Counts
<1>3. CASE ~Requeue(c)
  <2>1. msgs' = msgs
    BY <1>3 DEF MuxStart, MuxDownload, MuxUpload, MuxStage, DeliveryStart, Presign, Complete, broker
  <2>2. PICK p \in Pcs \ {"idle"} : Goto(c, p)
    BY <1>3 DEF MuxStart, MuxDownload, MuxUpload, MuxStage, DeliveryStart, Presign, Complete, Pcs
  <2>3. Goes(c)
    BY <1>1, <2>1, <2>2, GotoGoes DEF PlacesSame
  <2> QED BY <1>1, <2>3 DEF GoesOn, Counts, NoDelivery
<1> QED BY <1>2, <1>3

LEMMA PublishKinds ==
  ASSUME TypeInv, NEW c \in Consumers, PublishDelivery(c) \/ ConfirmTimeout(c) \/ SendWebhooks(c)
  PROVE  Kinds(c)
<1>1. work[c].pc \notin {"idle", "ack"} /\ BrokerOK /\ work \in [Consumers -> Work]
  BY DEF PublishDelivery, ConfirmTimeout, SendWebhooks, AtStep, TypeInv, HandlersOK
<1>2. JobOf(c) \in Jobs /\ work[c].id \in MsgIds /\ work[c].id < next
  BY <1>1, HandlerFacts DEF TypeInv
<1>3. CASE SendWebhooks(c)
  <2>1. PlacesSame /\ Goto(c, "ack")
    BY <1>3 DEF SendWebhooks, PlacesSame, broker
  <2>2. Goes(c) /\ work'[c].pc = "ack"
    BY <1>1, <2>1, GotoGoes DEF Pcs
  <2> QED BY <1>3, <2>2 DEF SendWebhooks, Kinds, Notifies, broker, AtStep, HookPcs
<1>4. CASE PublishDelivery(c) /\ Exists(JobOf(c))
  <2>1. Enqueue(msgs, "delivery", JobOf(c), {"output_file"}, {}) /\ Goto(c, "ack")
    BY <1>4 DEF PublishDelivery
  <2>2. Goes(c) /\ work'[c].pc = "ack"
    BY <1>1, <2>1, EnqueuePlaces, GotoGoes DEF Pcs
  <2>3. Published("delivery", JobOf(c))
    BY <1>1, <1>2, <2>1, EnqueueEffect DEF Queues, Fields
  <2> QED BY <1>4, <2>2, <2>3 DEF PublishDelivery, AtStep, Kinds, PassesOn, Counts
<1>5. CASE PublishDelivery(c) /\ ~Exists(JobOf(c))
  <2>1. Requeue(c) /\ UNCHANGED <<next, faults, hooked>> /\ Serves[c] = "audio"
    BY <1>5 DEF PublishDelivery, AtStep
  <2> QED BY <1>1, <2>1, RequeueEnds DEF Kinds, HandsBack, Alone, Counts
<1>6. CASE ConfirmTimeout(c)
  <2>1. Enqueue(Returned(work[c].id), "delivery", JobOf(c), {"output_file"}, {}) /\ Release(c)
        /\ work[c].held
    BY <1>6 DEF ConfirmTimeout
  <2>2. Published("delivery", JobOf(c))
    BY <1>1, <1>2, <2>1, EnqueueReturnedEffect DEF Queues, Fields
  <2>3. PICK p \in {"ready", "dead"} : Returned(work[c].id) = At(work[c].id, p)
    BY ReturnedIsAt
  <2>4. /\ At(work[c].id, p) \in [MsgIds -> Msg \cup {Unsent}]
        /\ At(work[c].id, p)[work[c].id].place = p
        /\ \A k \in MsgIds : k # work[c].id => At(work[c].id, p)[k] = msgs[k]
    BY <1>1, <1>2, AtFacts DEF Places
  <2>5. \A i \in MsgIds : i < next => msgs'[i] = At(work[c].id, p)[i]
    BY <1>1, <2>1, <2>3, <2>4 DEF Enqueue, MsgIds, BrokerOK
  <2>6. PlacesBut(c, {"ready", "dead"})
    BY <2>1, <2>4, <2>5 DEF PlacesBut, Holds
  <2>7. Others(c) /\ work'[c].pc = "idle" /\ ~work'[c].held
    BY <1>1, <2>1 DEF Release, Idle, Others
  <2> QED BY <1>1, <1>6, <2>2, <2>6, <2>7 DEF ConfirmTimeout, AtStep, Fault, Kinds, PassesTwice, Ends
<1> QED BY <1>3, <1>4, <1>5, <1>6

\* The requests publish, but not to the delivery queue; age and expiry publish nothing.
LEMMA AsideKinds ==
  ASSUME TypeInv, UNCHANGED vars \/ (\E j \in Jobs : Client(j)) \/ (\E i \in MsgIds : Age(i) \/ Expire(i))
  PROVE  Aside
<1>1. BrokerOK
  BY DEF TypeInv
<1>2. CASE UNCHANGED vars
  BY <1>2 DEF vars, Aside, NoDelivery
<1>3. ASSUME NEW i \in MsgIds, Age(i) PROVE Aside
  <2>1. msgs' = [msgs EXCEPT ![i].old = TRUE] /\ UNCHANGED <<next, work, hooked, faults>>
        /\ i < next
    BY <1>1, <1>3 DEF Age, BrokerOK, MsgIds
  <2>2. msgs[i] \in Msg /\ msgs \in [MsgIds -> Msg \cup {Unsent}]
    BY <1>1, <2>1, SentIsMsg DEF BrokerOK
  <2>3. \A k \in MsgIds : msgs'[k].place = msgs[k].place
    BY <2>1, <2>2 DEF Msg
  <2> QED BY <2>1, <2>3 DEF Aside, NoDelivery
<1>4. ASSUME NEW i \in MsgIds, Expire(i) PROVE Aside
  <2>1. msgs' = At(i, "dead") /\ UNCHANGED <<next, work, hooked, faults>> /\ msgs[i].place = "ready" /\ i < next
    BY <1>1, <1>4 DEF Expire, BrokerOK, MsgIds
  <2>2. msgs'[i].place = "dead" /\ \A k \in MsgIds : k # i => msgs'[k] = msgs[k]
    BY <1>1, <2>1, AtFacts DEF Places
  <2> QED BY <2>1, <2>2 DEF Aside, NoDelivery
<1>5. ASSUME NEW j \in Jobs, Client(j) PROVE Aside
  <2>1. UNCHANGED <<work, hooked>> /\ faults' \in {faults, faults + 1}
    BY <1>5 DEF Client, StoreVideo, InsertJob, PublishIngestion, CreateFails, CompleteUpload,
       UpdateTranscript, PublishEdit, RegenerateSegment, ReadJobToDelete, DeleteObjects,
       DeleteSegments, DeleteRow, DeleteFails, DocumentedMessage, Fault
  <2>2. CASE UNCHANGED <<msgs, next>>
    BY <2>1, <2>2 DEF Aside, NoDelivery
  <2>3. CASE ~UNCHANGED <<msgs, next>>
    <3>1. PICK q \in Queues \ {"delivery"}, fields \in SUBSET Fields, segs \in SUBSET Segs :
            Enqueue(msgs, q, j, fields, segs)
      <4>1. CASE PublishIngestion(j) \/ CompleteUpload(j)
        BY <4>1 DEF PublishIngestion, CompleteUpload, Queues, Fields
      <4>2. CASE PublishEdit(j)
        <5>1. edit[j] \in SUBSET Segs
          BY DEF TypeInv, StoresOK
        <5> QED BY <2>3, <4>2, <5>1 DEF PublishEdit, Queues, Fields, broker
      <4>3. CASE DocumentedMessage(j)
        BY <4>3 DEF DocumentedMessage, Queues, Fields
      <4>4. CASE ~(PublishIngestion(j) \/ CompleteUpload(j) \/ PublishEdit(j) \/ DocumentedMessage(j))
        BY <1>5, <2>3, <4>4 DEF Client, StoreVideo, InsertJob, CreateFails, UpdateTranscript,
           RegenerateSegment, ReadJobToDelete, DeleteObjects, DeleteSegments, DeleteRow, DeleteFails, broker
      <4> QED BY <4>1, <4>2, <4>3, <4>4
    <3>2. PlacesSame /\ Published(q, j)
      BY <1>1, <3>1, EnqueuePlaces, EnqueueEffect
    <3> QED BY <2>1, <3>2 DEF Aside, NoDelivery, PlacesSame
  <2> QED BY <2>2, <2>3
<1> QED BY <1>2, <1>3, <1>4, <1>5

PassInv == HoldInv /\ OpenInv /\ HookInv

LEMMA PassStep == TypeInv /\ PassInv /\ [Next]_vars => PassInv'
<1> SUFFICES ASSUME TypeInv, HoldInv, OpenInv, HookInv, [Next]_vars PROVE PassInv'
  BY DEF PassInv
<1>1. TypeInv' /\ Grows
  BY TypeInvStep, StepGrows
<1>2. ASSUME NEW c \in Consumers, Kinds(c) PROVE PassInv'
  BY <1>1, <1>2, HoldWorker, OpenWorker, HookWorker DEF PassInv
<1>3. ASSUME NEW c \in Consumers, Deliver(c) PROVE PassInv'
  BY <1>1, <1>3, DeliverHands, HoldHands, OpenOthers, HookOthers DEF PassInv
<1>4. ASSUME NEW c \in Consumers, Handler(c) \/ Failure(c) PROVE Kinds(c)
  BY <1>4, AckEnds, FailureKinds, PythonKinds, GoKinds, PublishKinds DEF Handler, Failure, Kinds
<1>5. ASSUME Aside PROVE PassInv'
  BY <1>1, <1>5, HoldAside, OpenOthers, HookOthers DEF PassInv
<1> QED BY <1>2, <1>3, <1>4, <1>5, AsideKinds DEF Next

LEMMA PassInit == Init => PassInv
<1> SUFFICES ASSUME Init PROVE PassInv
  OBVIOUS
<1>1. TypeInv /\ next = 1 /\ faults = 0
  BY InitTypeInv DEF Init
<1>2. \A c \in Consumers : ~work[c].held /\ work[c].pc = "idle"
  BY DEF Init, Idle
<1>3. HoldInv
  BY <1>2 DEF HoldInv
<1>4. \A i \in MsgIds : ~(i < next)
  BY <1>1 DEF MsgIds
<1>5. ASSUME NEW j \in Jobs PROVE OpenJob(j)
  <2>1. Of(j, "delivery") = {} /\ Of(j, "audio") = {} /\ Open(j) = {}
    BY <1>4 DEF Of, Open, OpenMsg
  <2> QED BY <1>1, <2>1, FS_EmptySet DEF OpenJob
<1>6. \A i \in MsgIds : hooked[i] = 0
  BY DEF Init
<1> QED BY <1>3, <1>4, <1>5, <1>6 DEF PassInv, OpenInv, HookInv

LEMMA PassCounts == TypeInv /\ PassInv => DuplicatesNeedFaults
<1> SUFFICES ASSUME TypeInv, OpenInv, HookInv PROVE DuplicatesNeedFaults
  BY DEF PassInv
<1>1. \A i \in MsgIds : i \in Sent <=> i < next
  BY DEF TypeInv, BrokerOK, Sent, Unsent, MsgIds, Msg, Places
<1>2. ASSUME NEW j \in Jobs, NEW q PROVE Count(j, q) = Cardinality(Of(j, q))
  <2>1. {i \in Sent : msgs[i].job = j /\ msgs[i].queue = q} = Of(j, q)
    BY <1>1 DEF Of, Sent
  <2> QED BY <2>1 DEF Count
<1>3. ASSUME NEW j \in Jobs PROVE Count(j, "delivery") <= Count(j, "audio") + faults
  <2>1. OpenJob(j)
    BY DEF OpenInv
  <2>2. /\ Cardinality(Of(j, "delivery")) \in Nat /\ Cardinality(Of(j, "audio")) \in Nat
        /\ Cardinality(Open(j)) \in Nat /\ faults \in Nat
    BY BoundsAssumption, OfFinite DEF Of, Open, TypeInv, StoresOK
  <2> QED BY <1>2, <2>1, <2>2 DEF OpenJob
<1>4. ASSUME NEW i \in MsgIds PROVE hooked[i] <= 1 + faults
  <2>1. hooked[i] \in Nat /\ faults \in Nat /\ Cardinality(Hookers(i)) \in Nat /\ Waiting(i) \in Nat
    BY BoundsAssumption, HookersFinite DEF Hookers, Waiting, TypeInv, StoresOK
  <2>2. hooked[i] = 0 \/ HookOK(i)
    BY DEF HookInv, TypeInv, BrokerOK, MsgIds
  <2> QED BY <2>1, <2>2 DEF HookOK
<1> QED BY <1>3, <1>4 DEF DuplicatesNeedFaults

\* Work is duplicated only by failures: every delivery message beyond one per audio message,
\* and every round of webhooks beyond one per delivery message, is paid for by a fault.
THEOREM DuplicatesNeedFaultsHolds == Spec => []DuplicatesNeedFaults
<1>1. TypeInv /\ PassInv /\ [Next]_vars => TypeInv' /\ PassInv'
  BY TypeInvStep, PassStep
<1> QED BY <1>1, InitTypeInv, PassInit, PassCounts, PTL DEF Spec
=============================================================================
