------------------------------ MODULE JobPage ------------------------------
(***************************************************************************)
(* One visit of the job page: it reads the job once, follows its stage     *)
(* over a socket, fetches the transcript when an event says there is one,  *)
(* and hosts the transcript editor.                                        *)
(*                                                                         *)
(* The server answers as the types of lib/api.ts say, or with a job that   *)
(* has no status; its stages come in the order of Path and only those in   *)
(* Heard are published on the channel a socket listens to.  An action of   *)
(* the page is one event handler with the render and the effects it        *)
(* causes.                                                                 *)
(***************************************************************************)
EXTENDS JobSocket, TranscriptEditor, FiniteSets

CONSTANTS
  Path,        \* the stages the pipeline gives the job, in order
  Heard,       \* the stages published on the channel of the hub
  MaxDrops     \* bound: connections that fail or drop

ASSUME PathAssumption == Path \in Seq(STRING) /\ Path # <<>>
ASSUME DropsAssumption == MaxDrops \in Nat

VARIABLES
  at,       \* the job's position on Path
  text,     \* the transcript the server has
  stored,   \* ghost: every transcript the server has had
  missed,   \* ghost: the last change of stage reached no inbox and no answer
  words,    \* texts made so far
  drops,    \* failed or dropped connections so far
  status,   \* jobStatus: "null" before the job, "undefined" for a job without one
  load,     \* loadJob: where it stands and the answer under way
  segs,     \* segments, as a text
  fetches,  \* getTranscript calls of the event handler: those sent, and for each text
            \* the answers under way that carry it
  cur,      \* the call of connectJobWS whose effect is current, 0 when none
  here      \* the page is mounted

server == <<at, text, stored, words, drops>>
page == <<status, load, segs, fetches, cur, here>>
editor == <<ed, saves, mounts>>
vars == <<calls, server, missed, page, editor>>

TRANSCRIPT_STAGES == {"transcribed", "synthesizing", "muxing", "completed"}
Stages == {Path[k] : k \in DOMAIN Path}
Stage == Path[at]
Loads == {"job", "jobRead", "transcript", "transcriptRead", "done"}
NoFetch == [sent |-> 0, read |-> [t \in Texts |-> 0]]

\* The steps of the progress bar, and the place of a stage on it: 0 for a stage without one.
STAGES == <<"uploaded", "analyzing", "transcribed", "synthesizing", "muxing", "completed">>
\* A stage without a step is after them all.
wrongStageIndex(st) ==
  IF \E k \in DOMAIN STAGES : STAGES[k] = st THEN CHOOSE k \in DOMAIN STAGES : STAGES[k] = st
  ELSE Len(STAGES) + 1
stageIndex(st) ==
  IF \E k \in DOMAIN STAGES : STAGES[k] = st THEN CHOOSE k \in DOMAIN STAGES : STAGES[k] = st ELSE 0
\* PipelineProgress: the steps with a check mark.
Checked(st) == IF st = "failed" THEN {} ELSE {STAGES[k] : k \in 1..stageIndex(st) - 1}

Init ==
  /\ calls = [i \in CallIds |-> NoCall] /\ cur = 0
  /\ at \in DOMAIN Path
  /\ text = IF Path[at] \in TRANSCRIPT_STAGES THEN 1 ELSE 0
  /\ words = 1 /\ stored = {text} /\ missed = TRUE /\ drops = 0
  /\ status = "null" /\ load = [pc |-> "job", stage |-> "null", text |-> 0]
  /\ segs = 0 /\ fetches = NoFetch /\ here = TRUE
  /\ ed = NoEditor /\ saves = {} /\ mounts = 0

-----------------------------------------------------------------------------
(* Rendering: what follows from new values of status, loading and segments *)

Loading(pc) == pc # "done"
ShowsEditor(st, pc) == st \in TRANSCRIPT_STAGES /\ ~Loading(pc)

\* The effect of [id, jobStatus]: the old call is cleaned up and, unless the new status is
\* undefined or final, another one begins.
Watches(st) == st \notin TERMINAL \cup {"null", "undefined"}
Follow(st) ==
  IF st = status THEN UNCHANGED <<calls, cur>>
  ELSE LET cleaned == [i \in CallIds |-> IF i = cur THEN Cleaned(calls[i]) ELSE calls[i]] IN
       IF Watches(st)
       THEN /\ cur < MaxCalls /\ cur' = cur + 1
            /\ calls' = [cleaned EXCEPT ![cur + 1] = Started(NoCall)]
       ELSE calls' = cleaned /\ UNCHANGED cur

Rendered(st, pc, segments) ==
  IF ~ShowsEditor(st, pc) THEN ed' = NoEditor /\ UNCHANGED <<saves, mounts>>
  ELSE IF ~ed.mounted THEN Mount(segments)
  ELSE UNCHANGED editor

\* setSegments with a new array.
SetSegments(new) ==
  /\ segs' = new
  /\ ed' = IF ed.mounted THEN Shows(ed, new) ELSE ed
  /\ UNCHANGED mounts

-----------------------------------------------------------------------------
(* The server and the network.                                             *)

\* Whoever listens hears a published stage; the others never do.
Publish(st) ==
  LET i == cur IN
  IF st \in Heard /\ i # 0 /\ calls[i].conn = "open"
  THEN calls' = [calls EXCEPT ![i].inbox = Append(@, st)] /\ missed' = FALSE
  ELSE UNCHANGED calls /\ missed' = TRUE

Advance ==
  /\ at + 1 \in DOMAIN Path
  /\ at' = at + 1
  /\ text' = IF text = 0 /\ Path[at + 1] \in TRANSCRIPT_STAGES THEN 1 ELSE text
  /\ stored' = stored \cup {text'}
  /\ Publish(Path[at + 1])
  /\ UNCHANGED <<words, drops, page, editor>>

SocketOpens(i) ==
  /\ calls[i].conn = "connecting"
  /\ calls' = [calls EXCEPT ![i] = Opened(@)]
  /\ UNCHANGED <<server, missed, page, editor>>

\* What is in the inbox of a dropped connection is lost with it.
SocketDrops(i) ==
  /\ calls[i].conn \in {"connecting", "open"} /\ drops < MaxDrops
  /\ drops' = drops + 1
  /\ calls' = [calls EXCEPT ![i] = Closed(@)]
  /\ missed' = (missed \/ calls[i].inbox # <<>>)
  /\ UNCHANGED <<at, text, stored, words, page, editor>>

CloseEvent(i) ==
  /\ calls[i].conn = "closing"
  /\ calls' = [calls EXCEPT ![i] = Closed(@)]
  /\ UNCHANGED <<server, missed, page, editor>>

TimerFires(i) ==
  /\ calls[i].conn = "timer"
  /\ calls' = [calls EXCEPT ![i] = Reopened(@)]
  /\ UNCHANGED <<server, missed, page, editor>>

\* The server answers getJob or loadJob's getTranscript; the answer is under way.
AnswersLoad ==
  /\ \/ /\ load.pc = "job"
        /\ \E st \in {Stage, "undefined"} : load' = [load EXCEPT !.pc = "jobRead", !.stage = st]
        /\ missed' = FALSE
     \/ /\ load.pc = "transcript"
        /\ load' = [load EXCEPT !.pc = "transcriptRead", !.text = text]
        /\ UNCHANGED missed
  /\ UNCHANGED <<calls, server, status, segs, fetches, cur, here, editor>>

AnswersFetch ==
  /\ fetches.sent > 0
  /\ fetches' = [fetches EXCEPT !.sent = @ - 1, !.read[text] = @ + 1]
  /\ UNCHANGED <<calls, server, missed, status, load, segs, cur, here, editor>>

\* updateTranscript replaces the transcript, or is refused.
AnswersSave(s) ==
  /\ s.state = "sent"
  /\ \/ /\ text' = s.sent /\ stored' = stored \cup {s.sent}
        /\ saves' = (saves \ {s}) \cup {[s EXCEPT !.state = "stored"]}
     \/ /\ saves' = (saves \ {s}) \cup {[s EXCEPT !.state = "failed"]}
        /\ UNCHANGED <<text, stored>>
  /\ UNCHANGED <<calls, at, words, drops, missed, page, ed, mounts>>

-----------------------------------------------------------------------------
(* loadJob and the events.                                                 *)

Loaded(pc) == load' = [load EXCEPT !.pc = pc, !.stage = "null", !.text = 0]

JobArrives ==
  /\ load.pc = "jobRead"
  /\ LET st == load.stage
         pc == IF st \in TRANSCRIPT_STAGES THEN "transcript" ELSE "done" IN
     /\ status' = st /\ Loaded(pc) /\ Follow(st) /\ Rendered(st, pc, segs)
  /\ UNCHANGED <<server, missed, segs, fetches, here>>

TranscriptArrives ==
  /\ load.pc = "transcriptRead"
  /\ segs' = load.text /\ Loaded("done") /\ Rendered(status, "done", load.text)
  /\ UNCHANGED <<calls, server, missed, status, fetches, cur, here>>

\* The finally around both requests clears the spinner.
LoadFails ==
  /\ load.pc # "done"
  /\ Loaded("done") /\ Rendered(status, "done", segs)
  /\ UNCHANGED <<calls, server, missed, status, segs, fetches, cur, here>>

\* Only the stages the client has a label for.
wrongTaken(prev, st) == IF st \in {"muxed", "delivering"} THEN prev ELSE st
\* setJob in onEvent takes any stage.
Taken(prev, st) == IF prev = "null" THEN prev ELSE st

\* The page handles n messages before it renders; its effect then drops the rest with the
\* socket they came on, if the status has changed.
Event(i) ==
  /\ calls[i].conn = "open"
  /\ \E n \in 1..Len(calls[i].inbox) :
       LET batch == SubSeq(calls[i].inbox, 1, n)
           new == Taken(status, batch[n])
           asks == {k \in 1..n : batch[k] \in TRANSCRIPT_STAGES} IN
       /\ status' = new
       /\ IF new = status
          THEN calls' = [calls EXCEPT ![i] = Handled(@, n)] /\ UNCHANGED <<cur, missed>>
          ELSE Follow(new) /\ missed' = (missed \/ n < Len(calls[i].inbox))
       /\ fetches' = [fetches EXCEPT !.sent = @ + Cardinality(asks)]
       /\ Rendered(new, load.pc, segs)
  /\ UNCHANGED <<server, load, segs, here>>

\* Answers come in any order; the last to come is shown.
FetchArrives(t) ==
  /\ fetches.read[t] > 0
  /\ fetches' = [fetches EXCEPT !.read[t] = @ - 1]
  /\ SetSegments(t)
  /\ UNCHANGED <<calls, server, missed, status, load, cur, here, saves>>

FetchFails ==
  /\ fetches.sent > 0 /\ fetches' = [fetches EXCEPT !.sent = @ - 1]
  /\ UNCHANGED <<calls, server, missed, status, load, segs, cur, here, editor>>

-----------------------------------------------------------------------------
(* Editing.                                                                *)

Type ==
  /\ ed.mounted /\ ed.local # 0 /\ words < MaxText
  /\ words' = words + 1 /\ updateText(words')
  /\ UNCHANGED <<calls, at, text, stored, drops, missed, page, saves, mounts>>

Saves == handleSave(ed, mounts) /\ UNCHANGED mounts /\ UNCHANGED <<calls, server, missed, page>>

\* The save bar, shown when something is unsaved, and Ctrl+S, which asks the same.
PressSave == Dirty /\ Saves
onKey == Dirty /\ Saves
PressEditorSave == SaveEnabled /\ Saves

Revert ==
  /\ Dirty /\ ed' = [ed EXCEPT !.local = ed.baseline]
  /\ UNCHANGED <<calls, server, missed, page, saves, mounts>>

\* The answer reaches the page even when the editor that asked is gone.
SaveArrives(s) ==
  /\ s.state # "sent" /\ saves' = saves \ {s}
  /\ LET done == IF s.by = mounts THEN [ed EXCEPT !.saving = FALSE] ELSE ed IN
     IF s.state = "stored" /\ here
     THEN segs' = s.sent /\ ed' = IF ed.mounted THEN Shows(done, s.sent) ELSE ed
     ELSE UNCHANGED segs /\ ed' = done
  /\ UNCHANGED <<mounts, calls, server, missed, status, load, fetches, cur, here>>

-----------------------------------------------------------------------------
(* Leaving.                                                                *)

\* The effect returns no cleanup.
wrongLeave ==
  /\ here /\ here' = FALSE /\ UNCHANGED calls
  /\ ed' = NoEditor /\ fetches' = NoFetch /\ Loaded("done") /\ status' = "null" /\ segs' = 0
  /\ UNCHANGED <<server, missed, cur, saves, mounts>>

\* A link, the back button, or a delete that succeeded: everything unmounts.
Leave ==
  /\ here /\ here' = FALSE
  /\ calls' = [i \in CallIds |-> IF i = cur THEN Cleaned(calls[i]) ELSE calls[i]]
  /\ ed' = NoEditor /\ fetches' = NoFetch /\ Loaded("done") /\ status' = "null" /\ segs' = 0
  /\ UNCHANGED <<server, missed, cur, saves, mounts>>

-----------------------------------------------------------------------------
Next ==
  \/ Advance \/ AnswersLoad \/ JobArrives \/ TranscriptArrives \/ LoadFails
  \/ \E i \in CallIds : \/ SocketOpens(i) \/ SocketDrops(i) \/ CloseEvent(i)
                         \/ TimerFires(i) \/ Event(i)
  \/ AnswersFetch \/ FetchFails \/ \E t \in Texts : FetchArrives(t)
  \/ \E s \in saves : AnswersSave(s) \/ SaveArrives(s)
  \/ Type \/ PressSave \/ onKey \/ PressEditorSave \/ Revert \/ Leave

\* A socket that closes gets its close event and timers fire.
Fairness ==
  \A i \in CallIds : WF_vars(CloseEvent(i) \/ TimerFires(i))
Spec == Init /\ [][Next]_vars /\ Fairness

-----------------------------------------------------------------------------
(* Properties.                                                             *)

\* The state has the shape the code gives it.
TypeOK ==
  /\ calls \in [CallIds -> [conn: Sockets \cup {"none", "timer", "over"}, attempt: 0..MAX_ATTEMPTS,
                            closed: BOOLEAN, lastStage: Stages \cup {""},
                            inbox: Seq(Stages), opened: Nat]]
  /\ at \in DOMAIN Path /\ {text, segs} \cup stored \subseteq Texts /\ words \in Texts
  /\ status \in Stages \cup {"null", "undefined"}
  /\ load \in [pc: Loads, stage: Stages \cup {"null", "undefined"}, text: Texts]
  /\ fetches \in [sent: Nat, read: [Texts -> Nat]] /\ saves \subseteq Save
  /\ ed \in [mounted: BOOLEAN, local: Texts, baseline: Texts, saving: BOOLEAN]
  /\ cur \in 0..MaxCalls /\ drops \in 0..MaxDrops
  /\ {missed, here} \subseteq BOOLEAN

\* Only the call of the current effect has a socket or a timer that can still act, and only
\* on a mounted page with a job that is not over: a cleanup leaves nothing behind, whether
\* it finds the socket connecting, open or waiting to reconnect.  And "auto-reconnects with
\* exponential backoff": no call opens more than MAX_ATTEMPTS sockets after its first.
OneLiveSocket ==
  /\ TypeOK
  /\ ActiveCalls \subseteq {cur}
  /\ ActiveCalls # {} => here /\ Watches(status)
  /\ \A i \in CallIds : calls[i].opened <= MAX_ATTEMPTS + 1

\* The status shown is the server's stage unless the last change of it was never heard:
\* made while no socket listened or on another channel, or lost with a connection, be it one
\* that dropped or one the page itself closed to follow the new stage over another.
StatusTracks ==
  here /\ ~missed /\ status \notin {"null", "undefined"}
    => status = Stage \/ (cur # 0 /\ calls[cur].inbox # <<>>)

\* The progress bar checks off no step before the job has left that stage, whatever the page
\* missed and whichever of the stages without a step is shown.
ChecksOffThePast ==
  status # "null" => Checked(status) \cap Stages \subseteq {Path[k] : k \in 1..at - 1}

\* A text without the unsaved mark is one the server has had, also when a save is refused
\* or answered after the editor that sent it was unmounted; and one editor never has two
\* saves under way, although saveSignal, Ctrl+S and the editor's own button all start one and
\* typing goes on meanwhile.
CleanMeansStored ==
  /\ ed.mounted /\ ~Dirty => ed.local \in stored \cup {0}
  /\ \A s, t \in saves : s.by = t.by => s = t

\* Leaving the page ends its sockets and timers.
GoesQuiet == ~here ~> \A i \in CallIds : calls[i].conn \in {"none", "over"}

=============================================================================
