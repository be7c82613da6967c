---------------------------- MODULE UploadModal ----------------------------
(***************************************************************************)
(* The dashboard's upload dialog: three steps (file, voice, review), the   *)
(* probes of the chosen file, the list of voices, the chunked upload and   *)
(* the two timers that clear the form.  The dialog is mounted as long as   *)
(* the dashboard is, so a request or a timer of one opening runs on in the *)
(* next.                                                                   *)
(*                                                                         *)
(* Every file chosen is a new one.  The voice stands for voice, style and  *)
(* language; the texts of errors and the progress bar are left out.        *)
(* Timers fire at any later time; user and network are the environment.    *)
(***************************************************************************)
EXTENDS Naturals

CONSTANTS
  Chunks,    \* chunks of a file
  Kinds,     \* what is probed: "duration", "thumbnail"
  MaxOpens,  \* bound: openings of the dialog
  MaxPicks,  \* bound: files chosen
  MaxUploads \* bound: uploads started

ASSUME ModalAssumption == {Chunks, MaxOpens, MaxPicks, MaxUploads} \subseteq Nat

VARIABLES
  open,       \* the prop of the dashboard
  form,       \* step, file (0: null), voiceId (0: ""), uploading
  shown,      \* duration and thumbnail: the file they are of, 0 for null
  probes,     \* readMetadata and captureFirstFrame under way and not cancelled
  voices,     \* the list is there
  asked,      \* getVoices under way: opening, and whether its closure has a voice
  keyGuard,   \* `uploading` as handleKey sees it
  opens,      \* openings so far
  picks,      \* files chosen so far
  uploads,    \* handleCreate calls: pc, chunks sent, its closure's file and voice, opening
  resets,     \* close timers pending
  server,     \* chunks and parameters the upload-service has of each upload
  disturbed   \* ghost: openings into which a timer or an upload of an earlier one came

dialog == <<open, keyGuard, opens, asked, voices>>
modalVars == <<dialog, form, shown, probes, picks, uploads, resets, server, disturbed>>

UploadIds == 1..MaxUploads
Files == 0..MaxPicks
VoiceIds == 1..2
Empty == [step |-> 0, file |-> 0, voice |-> 0, uploading |-> FALSE]
NoUpload == [pc |-> "none", sent |-> 0, file |-> 0, voice |-> 0, opening |-> 0]
Running(u) == uploads[u].pc \in {"init", "chunks", "complete"}

ModalInit ==
  /\ open = FALSE /\ keyGuard = FALSE /\ opens = 0 /\ asked = {} /\ voices = FALSE
  /\ form = Empty /\ shown = [k \in Kinds |-> 0] /\ probes = {} /\ picks = 0
  /\ uploads = [u \in UploadIds |-> NoUpload] /\ resets = 0 /\ disturbed = {}
  /\ server = [u \in UploadIds |-> [chunks |-> {}, done |-> FALSE, file |-> 0, voice |-> 0]]

ProbesOf(f) == IF f = 0 THEN {} ELSE [kind: Kinds, file: {f}]

\* The effect of [file]: the probes of the old file are cancelled and those of the new one
\* begin; what they showed stays until then.
FileEffect(f) ==
  /\ shown' = IF f = 0 THEN [k \in Kinds |-> 0] ELSE shown
  /\ probes' = ProbesOf(f)

wrongReset == /\ form' = [Empty EXCEPT !.step = form.step]
              /\ FileEffect(0)

resetState == form' = Empty /\ FileEffect(0)

\* A timer or an upload of opening i touches the form of a later opening.
Touches(i) == disturbed' = IF i < opens THEN disturbed \cup {opens} ELSE disturbed

-----------------------------------------------------------------------------
(* Opening and closing.                                                    *)

Open ==
  /\ ~open /\ opens < MaxOpens
  /\ open' = TRUE /\ opens' = opens + 1
  /\ asked' = asked \cup {[opening |-> opens', had |-> form.voice # 0]}
  /\ keyGuard' = form.uploading
  /\ UNCHANGED <<voices, form, shown, probes, picks, uploads, resets, server, disturbed>>

handleClose(uploading) ==
  /\ open /\ ~uploading
  /\ open' = FALSE /\ resets' = resets + 1
  /\ UNCHANGED <<keyGuard, opens, asked, voices, form, shown, probes, picks, uploads, server,
                 disturbed>>

\* The X, Cancel and the backdrop.
Cancel == handleClose(form.uploading)
\* handleKey has the handleClose of the render that opened the dialog.
Escape == handleClose(keyGuard)

\* The timer is not cancelled by reopening.
ResetFires ==
  /\ resets > 0 /\ resets' = resets - 1
  /\ resetState
  /\ disturbed' = IF open THEN disturbed \cup {opens} ELSE disturbed
  /\ UNCHANGED <<dialog, picks, uploads, server>>

-----------------------------------------------------------------------------
(* The three steps.                                                        *)

\* acceptFile of a video; any other file changes nothing but the error text.
Pick ==
  /\ open /\ form.step = 0 /\ picks < MaxPicks
  /\ picks' = picks + 1
  /\ form' = [form EXCEPT !.file = picks']
  /\ FileEffect(picks')
  /\ UNCHANGED <<dialog, uploads, resets, server, disturbed>>

Clear ==
  /\ open /\ form.step = 0 /\ form.file # 0
  /\ form' = [form EXCEPT !.file = 0]
  /\ FileEffect(0)
  /\ UNCHANGED <<dialog, picks, uploads, resets, server, disturbed>>

\* A probe resolves with what it found or with null.
ProbeEnds(p) ==
  /\ probes' = probes \ {p}
  /\ \E found \in {p.file, 0} : shown' = [shown EXCEPT ![p.kind] = found]
  /\ UNCHANGED <<dialog, form, picks, uploads, resets, server, disturbed>>

\* The first voice is chosen unless one was chosen when the dialog opened.
VoicesArrive(r) ==
  /\ asked' = asked \ {r}
  /\ \/ /\ voices' = TRUE
        /\ form' = IF r.had THEN form ELSE [form EXCEPT !.voice = 1]
     \/ voices' = FALSE /\ UNCHANGED form
  /\ UNCHANGED <<open, keyGuard, opens, shown, probes, picks, uploads, resets, server, disturbed>>

SelectVoice(v) ==
  /\ open /\ form.step = 1 /\ voices
  /\ form' = [form EXCEPT !.voice = v]
  /\ UNCHANGED <<dialog, shown, probes, picks, uploads, resets, server, disturbed>>

goNext ==
  /\ open
  /\ \/ form.step = 0 /\ form.file # 0
     \/ form.step = 1 /\ form.voice # 0
  /\ form' = [form EXCEPT !.step = @ + 1]
  /\ UNCHANGED <<dialog, shown, probes, picks, uploads, resets, server, disturbed>>

goBack ==
  /\ open /\ form.step > 0 /\ ~form.uploading
  /\ form' = [form EXCEPT !.step = @ - 1]
  /\ UNCHANGED <<dialog, shown, probes, picks, uploads, resets, server, disturbed>>

-----------------------------------------------------------------------------
(* handleCreate, uploadChunks and completeUpload.                          *)

\* The button is not disabled while uploading.
wrongCreatable == open /\ form.step = 2
Creatable == open /\ form.step = 2 /\ ~form.uploading

handleCreate(u) ==
  /\ Creatable /\ form.file # 0 /\ form.voice # 0
  /\ uploads[u].pc = "none" /\ \A w \in 1..u - 1 : uploads[w].pc # "none"
  /\ form' = [form EXCEPT !.uploading = TRUE]
  /\ uploads' = [uploads EXCEPT ![u] = [pc |-> "init", sent |-> 0, file |-> form.file,
                                        voice |-> form.voice, opening |-> opens]]
  /\ UNCHANGED <<dialog, shown, probes, picks, resets, server, disturbed>>

InitAnswers(u) ==
  /\ uploads[u].pc = "init"
  /\ uploads' = [uploads EXCEPT ![u].pc = IF Chunks = 0 THEN "complete" ELSE "chunks"]
  /\ UNCHANGED <<dialog, form, shown, probes, picks, resets, server, disturbed>>

\* The service has the chunk, and its answer comes.
ChunkAnswers(u) ==
  /\ uploads[u].pc = "chunks"
  /\ server' = [server EXCEPT ![u].chunks = @ \cup {uploads[u].sent + 1}]
  /\ uploads' = [uploads EXCEPT ![u].sent = @ + 1,
                                ![u].pc = IF uploads[u].sent + 1 = Chunks THEN "complete" ELSE @]
  /\ UNCHANGED <<dialog, form, shown, probes, picks, resets, disturbed>>

\* Read when the request is sent, not when the button was pressed.
wrongParams(u) == [file |-> form.file, voice |-> form.voice]
\* What the closure of handleCreate has.
Params(u) == [file |-> uploads[u].file, voice |-> uploads[u].voice]

\* completeUpload resolves and the timer of 300 ms starts.
CompleteAnswers(u) ==
  /\ uploads[u].pc = "complete"
  /\ server' = [server EXCEPT ![u].done = TRUE, ![u].file = Params(u).file,
                              ![u].voice = Params(u).voice]
  /\ uploads' = [uploads EXCEPT ![u].pc = "won"]
  /\ UNCHANGED <<dialog, form, disturbed, shown, probes, picks, resets>>

\* The catch: any of the three requests failed, whether or not the service did its part.
UploadFails(u) ==
  /\ Running(u)
  /\ \/ UNCHANGED server
     \/ /\ uploads[u].pc = "chunks"
        /\ server' = [server EXCEPT ![u].chunks = @ \cup {uploads[u].sent + 1}]
     \/ /\ uploads[u].pc = "complete"
        /\ server' = [server EXCEPT ![u].done = TRUE, ![u].file = Params(u).file,
                                    ![u].voice = Params(u).voice]
  /\ uploads' = [uploads EXCEPT ![u].pc = "failed"]
  /\ form' = [form EXCEPT !.uploading = FALSE]
  /\ Touches(uploads[u].opening)
  /\ UNCHANGED <<dialog, shown, probes, picks, resets>>

\* onCreated closes the dialog, whichever opening it is, and fetches the list.
SuccessFires(u) ==
  /\ uploads[u].pc = "won"
  /\ uploads' = [uploads EXCEPT ![u].pc = "done"]
  /\ open' = FALSE /\ resetState
  /\ Touches(uploads[u].opening)
  /\ UNCHANGED <<keyGuard, opens, asked, voices, picks, resets, server>>

-----------------------------------------------------------------------------
ModalNext ==
  \/ Open \/ Cancel \/ Escape \/ ResetFires
  \/ Pick \/ Clear \/ goNext \/ goBack
  \/ \E p \in probes : ProbeEnds(p)
  \/ \E r \in asked : VoicesArrive(r)
  \/ \E v \in VoiceIds : SelectVoice(v)
  \/ \E u \in UploadIds : \/ handleCreate(u) \/ InitAnswers(u) \/ ChunkAnswers(u)
                           \/ CompleteAnswers(u) \/ UploadFails(u) \/ SuccessFires(u)

ModalSpec == ModalInit /\ [][ModalNext]_modalVars

-----------------------------------------------------------------------------
(* Properties.                                                             *)

\* The state has the shape the code gives it.
ModalTypeOK ==
  /\ {open, keyGuard, voices} \subseteq BOOLEAN
  /\ form \in [step: 0..2, file: Files, voice: {0} \cup VoiceIds, uploading: BOOLEAN]
  /\ shown \in [Kinds -> Files]
  /\ probes \subseteq [kind: Kinds, file: Files \ {0}]
  /\ opens \in 0..MaxOpens /\ picks \in 0..MaxPicks /\ resets \in 0..MaxOpens
  /\ asked \subseteq [opening: 1..MaxOpens, had: BOOLEAN]
  /\ uploads \in [UploadIds -> [pc: {"none", "init", "chunks", "complete", "won", "done", "failed"},
                  sent: 0..Chunks, file: Files, voice: {0} \cup VoiceIds, opening: 0..MaxOpens]]
  /\ server \in [UploadIds -> [chunks: SUBSET (1..Chunks), done: BOOLEAN, file: Files,
                               voice: {0} \cup VoiceIds]]
  /\ disturbed \subseteq 1..MaxOpens

\* No step is shown without what the steps before it ask for, although timers, late answers
\* and the buttons all move the form: the review step has no null file to read a name of.
StepHasInput == /\ form.step >= 1 => form.file # 0
                /\ form.step = 2 => form.voice # 0

\* Duration and thumbnail are of the chosen file, or of the one before while the file's own
\* probe is under way: a slow probe of a replaced file never wins.
ProbesBelong ==
  \A k \in Kinds :
    shown[k] \in {0, form.file} \/ [kind |-> k, file |-> form.file] \in probes

\* The form as a whole: its step has its input and what it shows is of its file.
FormConsistent == ModalTypeOK /\ StepHasInput /\ ProbesBelong

\* One opening uploads once at a time, unless a timer or an upload of an earlier opening has
\* come into it and given the button back.
OneUploadPerOpening ==
  \A u, w \in UploadIds :
    u # w /\ Running(u) /\ Running(w) /\ uploads[u].opening = uploads[w].opening
      => uploads[u].opening \in disturbed

\* A finished upload is the whole file that was reviewed, with the voice reviewed, whatever
\* the form has gone through since.
SentAsReviewed ==
  \A u \in UploadIds : server[u].done =>
    /\ server[u].chunks = 1..Chunks
    /\ server[u].file = uploads[u].file /\ server[u].voice = uploads[u].voice

=============================================================================
