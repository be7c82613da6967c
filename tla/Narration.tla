----------------------------- MODULE Narration -----------------------------
(***************************************************************************)
(* The narration of a job's first segment: the word timings the analyzer's *)
(* validator gives it, the tts-service's loop that synthesizes, scores and *)
(* rewrites its text, fits the audio to the scene and times the words      *)
(* anew, and a user who edits the text or asks for the segment again.      *)
(*                                                                         *)
(* A text is the sequence of the lengths of its words; times are in ms.    *)
(***************************************************************************)
EXTENDS Integers, SequencesExt

CONSTANTS
  Texts,          \* what the segment may say
  Replicas,       \* of the tts-service
  Start, Target,  \* when its scene starts and how long it is
  Voices,         \* what the provider may return: duration, word marks and the
                  \* combined score, coarsened, score_segment gives them
  Threshold,      \* quality_pass_threshold
  MaxIterations,  \* quality_max_iterations
  MaxEdits,       \* bound: edits and regenerations
  MaxFaults       \* bound: crashes, lost connections and failed calls

ASSUME TextsAssumption == Texts \subseteq Seq(Nat \ {0}) /\ <<>> \notin Texts
ASSUME SceneAssumption == Start \in Nat /\ Target \in Nat \ {0}
ASSUME VoicesAssumption ==
  \A v \in Voices : /\ v.ms \in Nat /\ v.score \in Nat
                    /\ v.marks \in Seq([start: Int, end: Int])
ASSUME BoundsAssumption == /\ Threshold \in Nat /\ MaxIterations \in Nat \ {0}
                           /\ MaxEdits \in Nat /\ MaxFaults \in Nat

VARIABLES
  row,       \* the segment's row in transcript_segments
  audio,     \* the stored audio object: the text it speaks and its length
  queue,     \* texts in the ready messages of transcript.queue
  dead,      \* a message was dead-lettered or never published
  work,      \* the replicas' local variables, and whether the message is held
  together,  \* history: two replicas had the segment at once
  editing,   \* the gateway has written the row and not published yet
  edits, faults

vars == <<row, audio, queue, dead, work, together, editing, edits, faults>>

-----------------------------------------------------------------------------
(* Timing words.                                                           *)

Larger(a, b) == IF a > b THEN a ELSE b
Smaller(a, b) == IF a < b THEN a ELSE b
Distance(a, b) == Larger(a, b) - Smaller(a, b)

\* n / d to the nearest integer, halves to the even one.
Round(n, d) ==
  LET q == n \div d
      twice == 2 * (n % d)
  IN IF twice > d \/ (twice = d /\ q % 2 = 1) THEN q + 1 ELSE q

SumTo(s, i) == FoldLeft(LAMBDA a, b : a + b, 0, SubSeq(s, 1, i))

\* No word starts before the one ahead of it ends.
EnforceMonotonic(words) ==
  FoldLeft(LAMBDA out, w :
             LET ahead == IF out = <<>> THEN 0 ELSE Last(out).end
                 start == Larger(w.start, ahead)
             IN Append(out, [start |-> start, end |-> Larger(w.end, start)]),
           <<>>, words)

SynthesizeWords_Unclamped(text) ==       \* wrong: short words run past the scene
  LET step(out, i) ==
        LET cursor == IF out = <<>> THEN Start ELSE Last(out).end
        IN Append(out, [start |-> cursor,
                        end |-> cursor + Larger(1, (Target * text[i]) \div SumTo(text, Len(text)))])
  IN FoldLeft(step, <<>>, [i \in DOMAIN text |-> i])

\* The validator's timings over the scene: each word's share in whole ms, at
\* least one while there is room, and the last word takes the rest.
SynthesizeWords(text) ==
  LET step(out, i) ==
        LET cursor == IF out = <<>> THEN Start ELSE Last(out).end
            share == Larger(1, (Target * text[i]) \div SumTo(text, Len(text)))
        IN Append(out, [start |-> cursor,
                        end |-> IF i = Len(text) THEN Start + Target
                                ELSE Smaller(cursor + share, Start + Target)])
  IN FoldLeft(step, <<>>, [i \in DOMAIN text |-> i])

\* Provider timings stretched to the fitted audio.
Rescale(words, ms) ==
  LET span == Larger(Last(words).end, 1)
      scaled(t) == IF ms > 0 THEN Smaller(Round(t * ms, span), ms) ELSE t
      ahead(i) == FoldLeft(LAMBDA t, w : Larger(t, w.end), 0, SubSeq(words, 1, i - 1))
      start(i) == scaled(Larger(words[i].start, ahead(i)))
  IN [i \in DOMAIN words |->
        [start |-> start(i), end |-> Larger(scaled(Larger(words[i].end, ahead(i))), start(i))]]

\* Shares of the audio by length, a space counted with each word.
Proportional(text, ms) ==
  LET weights == [i \in DOMAIN text |-> text[i] + 1]
      cursor(i) == Round(ms * SumTo(weights, i), SumTo(weights, Len(text)))
  IN [i \in DOMAIN text |->
        IF ms = 0 THEN [start |-> 0, end |-> 0]
        ELSE [start |-> Smaller(cursor(i - 1), ms),
              end |-> Smaller(Larger(cursor(i), cursor(i - 1) + 1), ms)]]

Shift(words) ==
  [i \in DOMAIN words |-> [start |-> words[i].start + Start, end |-> words[i].end + Start]]

\* The provider's own marks were made monotonic when they were read.
Align(text, marks, ms) ==
  EnforceMonotonic(Shift(IF marks # <<>> THEN Rescale(EnforceMonotonic(marks), ms)
                                         ELSE Proportional(text, ms)))

-----------------------------------------------------------------------------
(* Fitting the audio to the scene: atempo works between 0.75 and 1.5.      *)

OutOfRange(ms) == ms = 0 \/ 4 * ms < 3 * Target \/ 2 * ms > 3 * Target
Close(ms) == 100 * Distance(ms, Target) < Target
Fitted(ms) == IF OutOfRange(ms) \/ Close(ms) THEN ms ELSE Target

-----------------------------------------------------------------------------
(* State.                                                                  *)

Attempts == {[text |-> t, voice |-> v] : t \in Texts, v \in Voices}
NoAttempt == [text |-> <<>>, voice |-> [ms |-> 0, marks |-> <<>>, score |-> 0]]
Idle == [pc |-> "idle", held |-> FALSE, msg |-> <<>>, text |-> <<>>,
         best |-> NoAttempt, tried |-> <<>>]
Unvoiced == [text |-> <<>>, ms |-> 0]
Stored(best) == [text |-> best.text, ms |-> Fitted(best.voice.ms)]

Init ==
  /\ \E text \in Texts :
       /\ queue = <<text>>
       /\ row = [text |-> text, words |-> SynthesizeWords(text), flagged |-> FALSE,
                 best |-> NoAttempt, tried |-> <<>>]
  /\ audio = Unvoiced
  /\ work = [r \in Replicas |-> Idle] /\ together = FALSE /\ dead = FALSE
  /\ editing = FALSE
  /\ edits = 0 /\ faults = 0

At(r, p) == work[r].pc = p
Goto(r, p) == work' = [work EXCEPT ![r].pc = p]
Fault == faults < MaxFaults /\ faults' = faults + 1

-----------------------------------------------------------------------------
(* A tts-service replica: _process_segment and the loop in it.             *)

Take_AutoAck(r) ==                       \* wrong: acknowledged when delivered
  /\ At(r, "idle") /\ queue # <<>>
  /\ queue' = Tail(queue)
  /\ work' = [work EXCEPT ![r] = [Idle EXCEPT !.pc = "synthesize",
                                  !.msg = Head(queue), !.text = Head(queue)]]
  /\ together' = (together \/ \E q \in Replicas : ~At(q, "idle"))
  /\ UNCHANGED <<row, audio, editing, dead, edits, faults>>

Take(r) ==
  /\ At(r, "idle") /\ queue # <<>>
  /\ queue' = Tail(queue)
  /\ work' = [work EXCEPT ![r] = [Idle EXCEPT !.pc = "synthesize", !.held = TRUE,
                                  !.msg = Head(queue), !.text = Head(queue)]]
  /\ together' = (together \/ \E q \in Replicas : ~At(q, "idle"))
  /\ UNCHANGED <<row, audio, editing, dead, edits, faults>>

Attempt(r, v, best, last) ==
  work' = [work EXCEPT ![r].tried = Append(@, v.score), ![r].best = best,
             ![r].pc = IF v.score >= Threshold \/ last THEN "upload" ELSE "rewrite"]

\* The best attempt is replaced only by a better one.
Synthesize(r) ==
  /\ At(r, "synthesize")
  /\ \E v \in Voices :
       Attempt(r, v, IF work[r].tried = <<>> \/ v.score > work[r].best.voice.score
                     THEN [text |-> work[r].text, voice |-> v] ELSE work[r].best,
               Len(work[r].tried) + 1 >= MaxIterations)
  /\ UNCHANGED <<row, audio, queue, together, editing, dead, edits, faults>>

\* The analyzer rewrites the last text, or does not, or cannot be reached.
Rewrite(r) ==
  /\ At(r, "rewrite")
  /\ \/ \E t \in Texts \ {work[r].text} :
          work' = [work EXCEPT ![r].text = t, ![r].pc = "synthesize"]
     \/ Goto(r, "upload")
  /\ UNCHANGED <<row, audio, queue, together, editing, dead, edits, faults>>

Upload(r) ==
  /\ At(r, "upload")
  /\ audio' = Stored(work[r].best)
  /\ Goto(r, "record")
  /\ UNCHANGED <<row, queue, together, editing, dead, edits, faults>>

\* The text is written only when it is not the text of the message.
UpdateSegmentRecord(w, flagged) ==
  row' = [text |-> IF w.best.text # w.msg THEN w.best.text ELSE row.text,
          words |-> Align(w.best.text, w.best.voice.marks, Fitted(w.best.voice.ms)),
          flagged |-> flagged, best |-> w.best, tried |-> w.tried]

Record_IgnoresScore(r) ==                \* wrong: only the speed flags a segment
  /\ At(r, "record")
  /\ UpdateSegmentRecord(work[r], OutOfRange(work[r].best.voice.ms))
  /\ Goto(r, "ack")
  /\ UNCHANGED <<audio, queue, together, editing, dead, edits, faults>>

Record(r) ==
  /\ At(r, "record")
  /\ UpdateSegmentRecord(work[r], OutOfRange(work[r].best.voice.ms)
                                    \/ work[r].best.voice.score < Threshold)
  /\ Goto(r, "ack")
  /\ UNCHANGED <<audio, queue, together, editing, dead, edits, faults>>

Ack(r) ==
  /\ At(r, "ack")
  /\ work' = [work EXCEPT ![r] = Idle]
  /\ UNCHANGED <<row, audio, queue, together, editing, dead, edits, faults>>

\* A call fails (provider, atempo, storage, database): the message goes to the
\* dead-letter queue, unless it is already another's.
DeadLetter(r) ==
  /\ work[r].pc \in {"synthesize", "upload", "record", "ack"} /\ Fault
  /\ work' = [work EXCEPT ![r] = Idle]
  /\ dead' = (dead \/ work[r].held)
  /\ UNCHANGED <<row, audio, queue, together, editing, edits>>

Redelivered(r) == queue' = IF work[r].held THEN <<work[r].msg>> \o queue ELSE queue

Crash(r) ==
  /\ ~At(r, "idle") /\ Fault
  /\ Redelivered(r)
  /\ work' = [work EXCEPT ![r] = Idle]
  /\ UNCHANGED <<row, audio, together, dead, editing, edits>>

\* The broker drops the connection while the handler runs on.
Disconnect(r) ==
  /\ work[r].held /\ Fault
  /\ Redelivered(r)
  /\ work' = [work EXCEPT ![r].held = FALSE]
  /\ UNCHANGED <<row, audio, together, dead, editing, edits>>

-----------------------------------------------------------------------------
(* The gateway: the row is written first and read again for the message.   *)

Edits == ~editing /\ edits < MaxEdits /\ edits' = edits + 1 /\ editing' = TRUE

UpdateTranscript ==
  /\ Edits
  /\ \E t \in Texts : row' = [row EXCEPT !.text = t]
  /\ UNCHANGED <<audio, queue, work, together, dead, faults>>

RegenerateSegment ==
  /\ Edits
  /\ row' = [row EXCEPT !.flagged = FALSE]
  /\ UNCHANGED <<audio, queue, work, together, dead, faults>>

PublishEdit ==
  /\ editing /\ editing' = FALSE
  /\ \/ queue' = Append(queue, row.text) /\ UNCHANGED <<dead, faults>>
     \/ Fault /\ dead' = TRUE /\ UNCHANGED queue
  /\ UNCHANGED <<row, audio, work, together, edits>>

Next ==
  \/ \E r \in Replicas :
       \/ Take(r) \/ Synthesize(r) \/ Rewrite(r) \/ Upload(r) \/ Record(r) \/ Ack(r)
       \/ DeadLetter(r) \/ Crash(r) \/ Disconnect(r)
  \/ UpdateTranscript \/ RegenerateSegment \/ PublishEdit

Spec == Init /\ [][Next]_vars

-----------------------------------------------------------------------------
(* Properties.                                                             *)

Timings == Seq([start: Nat, end: Nat])

TypeOK ==
  /\ row.text \in Texts /\ row.words \in Timings /\ row.flagged \in BOOLEAN
  /\ row.best \in Attempts \cup {NoAttempt}
  /\ Len(row.tried) <= MaxIterations
  /\ audio \in [text: Texts, ms: Nat] \cup {Unvoiced}
  /\ queue \in Seq(Texts)
  /\ \A r \in Replicas :
       /\ work[r].pc \in {"idle", "synthesize", "rewrite", "upload", "record", "ack"}
       /\ work[r].held => work[r].msg \in Texts
       /\ Len(work[r].tried) <= MaxIterations
  /\ together \in BOOLEAN /\ dead \in BOOLEAN /\ editing \in BOOLEAN
  /\ edits \in 0..MaxEdits /\ faults \in 0..MaxFaults

\* Every message was handled to its end, none failed, and no edit is under way.
Voiced ==
  queue = <<>> /\ ~dead /\ ~editing /\ \A r \in Replicas : At(r, "idle")

\* The timings the editor and the subtitles use, whoever made them, follow one
\* another and stay inside the span they time: the scene before the segment is
\* voiced, its fitted audio after.  Only marks that come with no audio stay as
\* they are, which nothing then bounds.
WordsFollow ==
  TypeOK /\
  LET w == row.words
      voice == row.best.voice
      span == IF row.tried = <<>> THEN Target ELSE Fitted(voice.ms)
  IN \A i \in DOMAIN w :
       /\ Start <= w[i].start /\ w[i].start <= w[i].end
       /\ w[i].end <= Start + span \/ (voice.ms = 0 /\ voice.marks # <<>>)
       /\ i > 1 => w[i - 1].end <= w[i].start

\* No bad segment escapes review: whatever regenerations reset the flag while
\* replicas voice the segment, once all is handled a segment without a flag
\* fits its scene and passed the quality gate.  And the rewrites that try to
\* get there never make it worse: what is recorded is a best attempt of its run.
UnflaggedIsGood ==
  /\ (Voiced /\ ~row.flagged) =>
       row.best.voice.score >= Threshold /\ 100 * Distance(Fitted(row.best.voice.ms), Target) < Target
  /\ \A i \in DOMAIN row.tried : row.tried[i] <= row.best.voice.score

\* The words of the row time the stored audio once all is handled, through
\* crashes and lost connections; only two replicas at work on the segment at
\* once may mix the audio of one with the timings of the other.
TimedForItsAudio == (Voiced /\ ~together) => audio = Stored(row.best)

=============================================================================
