-------------------------- MODULE NarrationProofs --------------------------
(***************************************************************************)
(* Proofs of the voice loop.  NarrationInv is inductive: Shape types the   *)
(* row, the queue and what each replica works with, and says that a best   *)
(* attempt is the best of those made; FlagInv, that a row without a flag   *)
(* is good or will be written again; AudioInv, that the stored audio is    *)
(* the one the row is timed for, or the row will be written again, as long *)
(* as one replica at a time has had the segment.  Every step of a replica  *)
(* but Record leaves the row alone; Steps and Inside prove those.  TimedInv*)
(* is about the word timings: each is a fold, and a fold has what its base *)
(* has and each of its steps keeps (TableExists, TableKeeps).              *)
(***************************************************************************)
EXTENDS Narration, SequenceTheorems, NaturalsInduction, WellFoundedInduction, TLAPS

-----------------------------------------------------------------------------
(* What a replica works with.                                              *)

Pcs == {"idle", "synthesize", "rewrite", "upload", "record", "ack"}
Job == [pc: Pcs, held: BOOLEAN, msg: Texts \cup {<<>>}, text: Texts \cup {<<>>},
        best: Attempts \cup {NoAttempt}, tried: Seq(Nat)]

\* The quality pass keeps a best attempt of those it made.
Best(w) == \A i \in DOMAIN w.tried : w.tried[i] <= w.best.voice.score
Spoken(w) == w.best \in Attempts /\ w.tried # <<>>

\* A replica at work has the text of a message, and past its first synthesis an attempt.
WorkOK(w) ==
  /\ w \in Job /\ Best(w)
  /\ w.pc # "idle" => w.msg \in Texts /\ w.text \in Texts
  /\ w.pc = "idle" => ~w.held
  /\ w.pc = "synthesize" => w.tried = <<>> \/ Spoken(w)
  /\ w.pc \in {"rewrite", "upload", "record", "ack"} => Spoken(w)

RowOK ==
  /\ row = [text |-> row.text, words |-> row.words, flagged |-> row.flagged,
            best |-> row.best, tried |-> row.tried]
  /\ row.text \in Texts /\ row.flagged \in BOOLEAN /\ row.best \in Attempts \cup {NoAttempt}
  /\ row.tried \in Seq(Nat) /\ Best(row)

Shape ==
  /\ RowOK /\ queue \in Seq(Texts) /\ work \in [Replicas -> Job]
  /\ \A r \in Replicas : WorkOK(work[r])
  /\ dead \in BOOLEAN /\ editing \in BOOLEAN /\ together \in BOOLEAN

\* A message is still to be handled to its end, or never will be.
Pending(w) == w.held /\ w.pc \in {"synthesize", "rewrite", "upload", "record"}
Awaited == dead \/ editing \/ queue # <<>> \/ \E r \in Replicas : Pending(work[r])

\* A row without a flag is good, or will be written again.
Passes(best) ==
  best.voice.score >= Threshold /\ 100 * Distance(Fitted(best.voice.ms), Target) < Target
FlagInv == ~row.flagged => Awaited \/ Passes(row.best)

\* While no two replicas have had the segment at once: only one works on it; if its
\* connection is gone the message is back in the queue; what it has uploaded is what it will
\* record; and the row is timed for the audio or will be written again.
Alone == \A r, q \in Replicas : work[r].pc # "idle" /\ work[q].pc # "idle" => r = q
AudioInv ==
  ~together =>
    /\ Alone
    /\ \A r \in Replicas : work[r].pc # "idle" /\ ~work[r].held => queue # <<>>
    /\ \A r \in Replicas : work[r].pc = "record" => audio = Stored(work[r].best)
    /\ Awaited \/ audio = Stored(row.best)

NarrationInv == Shape /\ FlagInv /\ AudioInv

-----------------------------------------------------------------------------
(* Numbers.                                                                *)

LEMMA VoiceFacts ==
  /\ \A a \in Attempts : a.voice \in Voices /\ a.text \in Texts
                         /\ a.voice.score \in Nat /\ a.voice.ms \in Nat
  /\ NoAttempt.voice.score = 0 /\ NoAttempt.voice.ms = 0
  /\ Threshold \in Nat /\ MaxIterations \in Nat
BY VoicesAssumption, BoundsAssumption DEF Attempts, NoAttempt

\* What is neither out of the range of atempo nor refused by the quality pass is good.
LEMMA FitsItsScene ==
  ASSUME NEW ms \in Nat, ~OutOfRange(ms)
  PROVE  100 * Distance(Fitted(ms), Target) < Target
<1>1. Target \in Nat /\ Target > 0
  BY SceneAssumption
<1>2. CASE Close(ms)
  BY <1>1, <1>2 DEF Fitted, Close
<1>3. CASE ~Close(ms)
  <2>1. Fitted(ms) = Target
    BY <1>3 DEF Fitted
  <2>2. Distance(Target, Target) = 0
    BY <1>1 DEF Distance, Larger, Smaller
  <2> QED BY <1>1, <2>1, <2>2
<1> QED BY <1>2, <1>3

-----------------------------------------------------------------------------
(* What a replica has, step by step.                                       *)

LEMMA IdleOK ==
  Idle \in Job /\ WorkOK(Idle) /\ Idle.pc = "idle" /\ ~Idle.held /\ Idle.tried = <<>>
<1>1. <<>> \in Seq(Nat) /\ NoAttempt \in Attempts \cup {NoAttempt}
  OBVIOUS
<1>2. /\ Idle.tried = <<>> /\ Idle.pc = "idle" /\ Idle.held = FALSE
  BY DEF Idle
<1>3. Idle \in Job
  <2> DEFINE none == <<>>
             best == NoAttempt
  <2>1. Idle = [pc |-> "idle", held |-> FALSE, msg |-> none, text |-> none, best |-> best,
                tried |-> none]
    BY DEF Idle
  <2>2. none \in Seq(Nat) /\ none \in Texts \cup {<<>>} /\ best \in Attempts \cup {NoAttempt}
    BY <1>1
  <2> HIDE DEF none, best
  <2> QED BY <2>1, <2>2 DEF Job, Pcs
<1> QED BY <1>2, <1>3 DEF WorkOK, Best

LEMMA TakenOK ==
  ASSUME NEW text \in Texts
  PROVE  LET w == [Idle EXCEPT !.pc = "synthesize", !.held = TRUE, !.msg = text, !.text = text] IN
         WorkOK(w) /\ w.pc = "synthesize" /\ w.held
<1> DEFINE w == [Idle EXCEPT !.pc = "synthesize", !.held = TRUE, !.msg = text, !.text = text]
<1>1. /\ w \in Job /\ w.tried = <<>> /\ w.pc = "synthesize" /\ w.held = TRUE
      /\ w.msg = text /\ w.text = text
  BY IdleOK DEF Job, Pcs
<1> HIDE DEF w
<1>2. WorkOK(w)
  BY <1>1 DEF WorkOK, Best
<1> QED BY <1>1, <1>2 DEF w

\* The handler goes on with the same attempt.
LEMMA GoneOK ==
  ASSUME NEW w, WorkOK(w), NEW pc \in Pcs \ {"idle"}, w.pc # "idle",
         pc = "synthesize" => w.tried = <<>> \/ Spoken(w),
         pc # "synthesize" => Spoken(w)
  PROVE  LET u == [w EXCEPT !.pc = pc] IN
         WorkOK(u) /\ u.pc = pc /\ u.held = w.held /\ u.best = w.best
<1> DEFINE u == [w EXCEPT !.pc = pc]
<1>1. /\ w \in Job /\ w.msg \in Texts /\ w.text \in Texts
  BY DEF WorkOK
<1>2. /\ u \in Job /\ u.pc = pc /\ u.held = w.held /\ u.msg = w.msg /\ u.text = w.text
      /\ u.best = w.best /\ u.tried = w.tried
  BY <1>1 DEF Job
<1> HIDE DEF u
<1>3. WorkOK(u)
  BY <1>1, <1>2 DEF WorkOK, Best, Spoken
<1> QED BY <1>2, <1>3 DEF u

LEMMA RewrittenOK ==
  ASSUME NEW w, WorkOK(w), w.pc = "rewrite", NEW text \in Texts
  PROVE  LET u == [w EXCEPT !.text = text, !.pc = "synthesize"] IN
         WorkOK(u) /\ u.pc = "synthesize" /\ u.held = w.held
<1> DEFINE u == [w EXCEPT !.text = text, !.pc = "synthesize"]
<1>1. /\ w \in Job /\ w.msg \in Texts /\ Spoken(w)
  BY DEF WorkOK
<1>2. /\ u \in Job /\ u.pc = "synthesize" /\ u.held = w.held /\ u.msg = w.msg /\ u.text = text
      /\ u.best = w.best /\ u.tried = w.tried
  BY <1>1 DEF Job, Pcs
<1> HIDE DEF u
<1>3. WorkOK(u)
  BY <1>1, <1>2 DEF WorkOK, Best, Spoken
<1> QED BY <1>2, <1>3 DEF u

LEMMA LooseOK ==
  ASSUME NEW w, WorkOK(w)
  PROVE  LET u == [w EXCEPT !.held = FALSE] IN
         WorkOK(u) /\ u.pc = w.pc /\ u.held = FALSE /\ u.best = w.best
<1> DEFINE u == [w EXCEPT !.held = FALSE]
<1>1. w \in Job
  BY DEF WorkOK
<1>2. /\ u \in Job /\ u.pc = w.pc /\ u.held = FALSE /\ u.msg = w.msg /\ u.text = w.text
      /\ u.best = w.best /\ u.tried = w.tried
  BY <1>1 DEF Job
<1> HIDE DEF u
<1>3. WorkOK(u)
  BY <1>2 DEF WorkOK, Best, Spoken
<1> QED BY <1>2, <1>3 DEF u

\* best is the better one of an attempt with voice v and those made before, and u goes on with it.
Better(w, v, best) ==
  best = IF w.tried = <<>> \/ v.score > w.best.voice.score
         THEN [text |-> w.text, voice |-> v] ELSE w.best
Tries(w, v, best, pc, u) ==
  u = [w EXCEPT !.tried = Append(w.tried, v.score), !.best = best, !.pc = pc]

\* The best attempt stays the best of those made.
LEMMA AttemptOK ==
  ASSUME NEW w, WorkOK(w), w.pc = "synthesize", NEW v \in Voices, NEW pc \in {"upload", "rewrite"},
         NEW best, Better(w, v, best), NEW u, Tries(w, v, best, pc, u)
  PROVE  WorkOK(u) /\ u.pc = pc /\ u.held = w.held
<1> DEFINE tried == Append(w.tried, v.score)
<1>1. /\ w \in Job /\ w.msg \in Texts /\ w.text \in Texts /\ Best(w)
      /\ w.tried = <<>> \/ Spoken(w)
  BY DEF WorkOK
<1>2. w.tried \in Seq(Nat) /\ v.score \in Nat
  BY <1>1, VoicesAssumption DEF Job
<1>3. /\ tried \in Seq(Nat) /\ tried # <<>> /\ Len(tried) = Len(w.tried) + 1
      /\ \A i \in 1..Len(w.tried) : tried[i] = w.tried[i]
      /\ tried[Len(w.tried) + 1] = v.score
  BY <1>2, AppendProperties
<1>4. best \in Attempts /\ best.voice.score \in Nat /\ v.score <= best.voice.score
      /\ \A i \in DOMAIN w.tried : w.tried[i] <= best.voice.score
  <2>1. CASE w.tried = <<>> \/ v.score > w.best.voice.score
    <3>1. best = [text |-> w.text, voice |-> v]
      BY <2>1 DEF Better
    <3>2. best \in Attempts /\ best.voice = v
      BY <1>1, <3>1 DEF Attempts
    <3>3. \A i \in DOMAIN w.tried : w.tried[i] <= v.score
      <4>1. CASE w.tried = <<>>
        BY <4>1
      <4>2. CASE w.tried # <<>>
        <5>1. w.best.voice.score \in Nat
          BY <1>1, <4>2, VoiceFacts DEF Spoken
        <5>2. \A i \in DOMAIN w.tried : w.tried[i] \in Nat
          BY <1>2
        <5> QED BY <1>1, <1>2, <2>1, <4>2, <5>1, <5>2 DEF Best
      <4> QED BY <4>1, <4>2
    <3> QED BY <1>2, <3>2, <3>3
  <2>2. CASE ~(w.tried = <<>> \/ v.score > w.best.voice.score)
    <3>1. best = w.best /\ best \in Attempts /\ best.voice.score \in Nat
      BY <1>1, <2>2, VoiceFacts DEF Spoken, Better
    <3> QED BY <1>1, <1>2, <2>2, <3>1 DEF Best
  <2> QED BY <2>1, <2>2
<1> HIDE DEF tried
<1>5. /\ u \in Job /\ u.pc = pc /\ u.held = w.held /\ u.msg = w.msg /\ u.text = w.text
      /\ u.best = best /\ u.tried = tried
  <2>1. u = [w EXCEPT !.tried = tried, !.best = best, !.pc = pc]
    BY <1>1 DEF tried, Job, Tries
  <2> QED BY <1>1, <1>3, <1>4, <2>1 DEF Job, Pcs
<1>6. Best(u)
  <2>1. ASSUME NEW i \in DOMAIN tried PROVE tried[i] <= best.voice.score
    <3>1. i \in 1..Len(w.tried) + 1
      BY <1>2, <1>3, <2>1
    <3>2. CASE i = Len(w.tried) + 1
      BY <1>3, <1>4, <3>2
    <3>3. CASE i # Len(w.tried) + 1
      <4>1. i \in 1..Len(w.tried) /\ i \in DOMAIN w.tried
        BY <1>2, <3>1, <3>3
      <4> QED BY <1>3, <1>4, <4>1
    <3> QED BY <3>2, <3>3
  <2> QED BY <1>5, <2>1 DEF Best
<1>7. WorkOK(u)
  BY <1>1, <1>3, <1>4, <1>5, <1>6 DEF WorkOK, Spoken
<1> QED BY <1>5, <1>7

-----------------------------------------------------------------------------
(* The step of one replica.                                                *)

\* Replica r goes on with w.
Moves(r, w) == work' = [work EXCEPT ![r] = w]

LEMMA Moved ==
  ASSUME Shape, NEW r \in Replicas, NEW w, WorkOK(w), Moves(r, w)
  PROVE  /\ work' \in [Replicas -> Job] /\ work'[r] = w
         /\ \A q \in Replicas : q # r => work'[q] = work[q]
         /\ \A q \in Replicas : WorkOK(work'[q])
<1>1. w \in Job /\ work \in [Replicas -> Job] /\ \A q \in Replicas : WorkOK(work[q])
  BY DEF WorkOK, Shape
<1> QED BY <1>1 DEF Moves

\* A step that leaves the row alone: what was awaited still is, and while no two have had the
\* segment at once, only r may be at work after a step that takes a message or stores audio.
LEMMA Steps ==
  ASSUME NarrationInv, NEW r \in Replicas, NEW w, WorkOK(w), Moves(r, w),
         queue' \in Seq(Texts), dead' \in BOOLEAN, together' \in BOOLEAN,
         UNCHANGED <<row, editing>>, together => together',
         dead => dead',
         queue # <<>> => queue' # <<>> \/ Pending(w),
         Pending(work[r]) => Pending(w) \/ queue' # <<>> \/ dead',
         ~together' =>
           /\ \/ \A q \in Replicas : q # r => work[q].pc = "idle"
              \/ w.pc = "idle" /\ audio' = audio /\ (queue # <<>> => queue' # <<>>)
           /\ w.pc # "idle" /\ ~w.held => queue' # <<>>
           /\ w.pc = "record" => audio' = Stored(w.best)
           /\ audio' = audio \/ Pending(w) \/ queue' # <<>>
  PROVE  NarrationInv'
<1>1. /\ work' \in [Replicas -> Job] /\ work'[r] = w
      /\ \A q \in Replicas : q # r => work'[q] = work[q]
      /\ \A q \in Replicas : WorkOK(work'[q])
  BY Moved DEF NarrationInv
<1>2. Shape'
  <2>1. RowOK'
    BY DEF NarrationInv, Shape, RowOK, Best
  <2> QED BY <1>1, <2>1 DEF NarrationInv, Shape
<1>3. Awaited => Awaited'
  BY <1>1 DEF Awaited
<1>4. FlagInv'
  BY <1>3 DEF NarrationInv, FlagInv
<1>5. ASSUME ~together'
      PROVE  /\ Alone'
             /\ \A q \in Replicas : work'[q].pc # "idle" /\ ~work'[q].held => queue' # <<>>
             /\ \A q \in Replicas : work'[q].pc = "record" => audio' = Stored(work'[q].best)
             /\ Awaited' \/ audio' = Stored(row'.best)
  <2>1. /\ Alone
        /\ \A q \in Replicas : work[q].pc # "idle" /\ ~work[q].held => queue # <<>>
        /\ \A q \in Replicas : work[q].pc = "record" => audio = Stored(work[q].best)
        /\ Awaited \/ audio = Stored(row.best)
    BY <1>5 DEF NarrationInv, AudioInv
  <2>2. Awaited' \/ audio' = Stored(row'.best)
    BY <1>1, <1>3, <1>5, <2>1 DEF Awaited
  <2>3. CASE \A q \in Replicas : q # r => work[q].pc = "idle"
    <3>1. \A q \in Replicas : q # r => work'[q].pc = "idle"
      BY <1>1, <2>3
    <3>2. Alone'
      BY <3>1 DEF Alone
    <3> QED BY <1>1, <1>5, <2>2, <3>1, <3>2
  <2>4. CASE w.pc = "idle" /\ audio' = audio /\ (queue # <<>> => queue' # <<>>)
    <3>1. Alone'
      BY <1>1, <2>1, <2>4 DEF Alone
    <3> QED BY <1>1, <2>1, <2>2, <2>4, <3>1
  <2> QED BY <1>5, <2>3, <2>4
<1> QED BY <1>2, <1>4, <1>5 DEF NarrationInv, AudioInv

LEMMA TakeStep ==
  ASSUME NarrationInv, NEW r \in Replicas, Take(r)
  PROVE  NarrationInv'
<1> DEFINE w == [Idle EXCEPT !.pc = "synthesize", !.held = TRUE,
                             !.msg = Head(queue), !.text = Head(queue)]
<1>1. queue \in Seq(Texts) /\ queue # <<>> /\ together \in BOOLEAN /\ dead \in BOOLEAN
  BY DEF NarrationInv, Shape, Take
<1>2. Head(queue) \in Texts /\ Tail(queue) \in Seq(Texts)
  BY <1>1
<1>3. WorkOK(w) /\ w.pc = "synthesize" /\ w.held
  BY <1>2, TakenOK
<1>4. Moves(r, w)
  BY DEF Take, Moves
<1> HIDE DEF w
<1>5. /\ queue' = Tail(queue) /\ UNCHANGED <<row, audio, editing, dead>> /\ work[r].pc = "idle"
      /\ together' = (together \/ \E q \in Replicas : work[q].pc # "idle")
  BY DEF Take, At
<1>6. together' \in BOOLEAN /\ (together => together')
  BY <1>1, <1>5
<1>7. Pending(w)
  BY <1>3 DEF Pending
<1>8. ~together' => \A q \in Replicas : q # r => work[q].pc = "idle"
  BY <1>5
<1> QED BY <1>1, <1>2, <1>3, <1>4, <1>5, <1>6, <1>7, <1>8, Steps

\* A step of r alone that leaves the queue, the row and the history as they are.
LEMMA Inside ==
  ASSUME NarrationInv, NEW r \in Replicas, NEW w, WorkOK(w), Moves(r, w),
         work[r].pc # "idle", w.held = work[r].held,
         UNCHANGED <<row, queue, together, editing, dead>>,
         Pending(work[r]) => Pending(w),
         w.pc = "record" => audio' = Stored(w.best),
         audio' = audio \/ w.pc = "record"
  PROVE  NarrationInv'
<1>1. queue' \in Seq(Texts) /\ dead' \in BOOLEAN /\ together' \in BOOLEAN
  BY DEF NarrationInv, Shape
<1>2. ASSUME ~together'
      PROVE  /\ \A q \in Replicas : q # r => work[q].pc = "idle"
             /\ w.pc # "idle" /\ ~w.held => queue' # <<>>
             /\ audio' = audio \/ Pending(w) \/ queue' # <<>>
  <2>1. Alone /\ (~work[r].held => queue # <<>>)
    BY <1>2 DEF NarrationInv, AudioInv
  <2>2. \A q \in Replicas : q # r => work[q].pc = "idle"
    BY <2>1 DEF Alone
  <2> QED BY <2>1, <2>2 DEF Pending
<1> QED BY <1>1, <1>2, Steps

LEMMA SynthesizeStep ==
  ASSUME NarrationInv, NEW r \in Replicas, Synthesize(r)
  PROVE  NarrationInv'
<1> DEFINE w == work[r]
           best(v) == IF w.tried = <<>> \/ v.score > w.best.voice.score
                      THEN [text |-> w.text, voice |-> v] ELSE w.best
<1>1. PICK v \in Voices : Attempt(r, v, best(v), Len(w.tried) + 1 >= MaxIterations)
  BY DEF Synthesize
<1>2. WorkOK(w) /\ w.pc = "synthesize" /\ work \in [Replicas -> Job]
  BY DEF Synthesize, At, NarrationInv, Shape
<1> DEFINE pc == IF v.score >= Threshold \/ Len(w.tried) + 1 >= MaxIterations
                 THEN "upload" ELSE "rewrite"
           b == best(v)
           u == [w EXCEPT !.tried = Append(@, v.score), !.best = b, !.pc = pc]
<1>3. Moves(r, u)
  BY <1>1, <1>2 DEF Attempt, Moves
<1>4. pc \in {"upload", "rewrite"} /\ pc # "record"
  OBVIOUS
<1>5. WorkOK(u) /\ u.pc = pc /\ u.held = w.held
  <2>1. Better(w, v, b) /\ Tries(w, v, b, pc, u)
    BY DEF Better, Tries
  <2>2. v \in Voices
    BY <1>1
  <2> HIDE DEF pc, w, b, u
  <2> QED BY <1>2, <1>4, <2>1, <2>2, AttemptOK
<1> HIDE DEF u
<1>6. UNCHANGED <<row, queue, together, editing, dead, audio>>
  BY DEF Synthesize
<1>7. Pending(w) => Pending(u)
  BY <1>4, <1>5 DEF Pending
<1> QED BY <1>2, <1>3, <1>4, <1>5, <1>6, <1>7, Inside

LEMMA RewriteStep ==
  ASSUME NarrationInv, NEW r \in Replicas, Rewrite(r)
  PROVE  NarrationInv'
<1> DEFINE w == work[r]
<1>1. WorkOK(w) /\ w.pc = "rewrite" /\ work \in [Replicas -> Job] /\ Spoken(w)
  BY DEF Rewrite, At, NarrationInv, Shape, WorkOK
<1>2. UNCHANGED <<row, queue, together, editing, dead, audio>>
  BY DEF Rewrite
<1>3. ASSUME NEW text \in Texts,
             work' = [work EXCEPT ![r].text = text, ![r].pc = "synthesize"]
      PROVE  NarrationInv'
  <2> DEFINE u == [w EXCEPT !.text = text, !.pc = "synthesize"]
  <2>1. Moves(r, u)
    BY <1>1, <1>3 DEF Moves
  <2>2. WorkOK(u) /\ u.pc = "synthesize" /\ u.held = w.held
    BY <1>1, RewrittenOK
  <2> HIDE DEF u
  <2>3. Pending(w) => Pending(u)
    BY <2>2 DEF Pending
  <2> QED BY <1>1, <1>2, <2>1, <2>2, <2>3, Inside
<1>4. CASE Goto(r, "upload")
  <2> DEFINE u == [w EXCEPT !.pc = "upload"]
  <2>1. Moves(r, u)
    BY <1>1, <1>4 DEF Moves, Goto
  <2>2. WorkOK(u) /\ u.pc = "upload" /\ u.held = w.held
    BY <1>1, GoneOK DEF Pcs
  <2> HIDE DEF u
  <2>3. Pending(w) => Pending(u)
    BY <2>2 DEF Pending
  <2> QED BY <1>1, <1>2, <2>1, <2>2, <2>3, Inside
<1> QED BY <1>3, <1>4 DEF Rewrite

LEMMA UploadStep ==
  ASSUME NarrationInv, NEW r \in Replicas, Upload(r)
  PROVE  NarrationInv'
<1> DEFINE w == work[r]
           u == [w EXCEPT !.pc = "record"]
<1>1. WorkOK(w) /\ w.pc = "upload" /\ work \in [Replicas -> Job] /\ Spoken(w)
  BY DEF Upload, At, NarrationInv, Shape, WorkOK
<1>2. Moves(r, u)
  BY <1>1 DEF Moves, Goto, Upload
<1>3. WorkOK(u) /\ u.pc = "record" /\ u.held = w.held /\ u.best = w.best
  BY <1>1, GoneOK DEF Pcs
<1> HIDE DEF u
<1>4. Pending(w) => Pending(u)
  BY <1>3 DEF Pending
<1>5. UNCHANGED <<row, queue, together, editing, dead>> /\ audio' = Stored(w.best)
  BY DEF Upload
<1> QED BY <1>1, <1>2, <1>3, <1>4, <1>5, Inside


LEMMA AckStep ==
  ASSUME NarrationInv, NEW r \in Replicas, Ack(r)
  PROVE  NarrationInv'
<1>1. WorkOK(Idle) /\ Idle.pc = "idle" /\ Moves(r, Idle) /\ work[r].pc = "ack"
  BY IdleOK DEF Ack, At, Moves
<1>2. UNCHANGED <<row, audio, queue, together, editing, dead>>
  BY DEF Ack
<1>3. queue' \in Seq(Texts) /\ dead' \in BOOLEAN /\ together' \in BOOLEAN
  BY <1>2 DEF NarrationInv, Shape
<1>4. ~Pending(work[r])
  BY <1>1 DEF Pending
<1> QED BY <1>1, <1>2, <1>3, <1>4, Steps

LEMMA DeadLetterStep ==
  ASSUME NarrationInv, NEW r \in Replicas, DeadLetter(r)
  PROVE  NarrationInv'
<1>1. WorkOK(Idle) /\ Idle.pc = "idle" /\ Moves(r, Idle)
  BY IdleOK DEF DeadLetter, Moves
<1>2. UNCHANGED <<row, audio, queue, together, editing>> /\ dead' = (dead \/ work[r].held)
  BY DEF DeadLetter
<1>3. queue' \in Seq(Texts) /\ dead \in BOOLEAN /\ together' \in BOOLEAN /\ WorkOK(work[r])
  BY <1>2 DEF NarrationInv, Shape
<1>4. dead' \in BOOLEAN /\ (dead => dead') /\ (work[r].held => dead')
  BY <1>2, <1>3
<1>5. Pending(work[r]) => dead'
  BY <1>4 DEF Pending
<1> QED BY <1>1, <1>2, <1>3, <1>4, <1>5, Steps

\* A held message goes back to the front of the queue.
LEMMA BackInQueue ==
  ASSUME NarrationInv, NEW r \in Replicas, work[r].pc # "idle", Redelivered(r)
  PROVE  /\ queue' \in Seq(Texts)
         /\ queue # <<>> => queue' # <<>>
         /\ work[r].held => queue' # <<>>
<1>1. queue \in Seq(Texts) /\ work[r].msg \in Texts
  BY DEF NarrationInv, Shape, WorkOK
<1>2. CASE work[r].held
  <2>1. queue' = <<work[r].msg>> \o queue
    BY <1>2 DEF Redelivered
  <2>2. <<work[r].msg>> \in Seq(Texts) /\ Len(<<work[r].msg>>) = 1
    BY <1>1
  <2>3. queue' \in Seq(Texts) /\ Len(queue') = 1 + Len(queue) /\ Len(queue) \in Nat
    BY <1>1, <2>1, <2>2, ConcatProperties
  <2> QED BY <2>3
<1>3. CASE ~work[r].held
  BY <1>1, <1>3 DEF Redelivered
<1> QED BY <1>2, <1>3

LEMMA CrashStep ==
  ASSUME NarrationInv, NEW r \in Replicas, Crash(r)
  PROVE  NarrationInv'
<1>1. WorkOK(Idle) /\ Idle.pc = "idle" /\ Moves(r, Idle)
  BY IdleOK DEF Crash, Moves
<1>2. UNCHANGED <<row, audio, together, editing, dead>>
  BY DEF Crash
<1>3. dead' \in BOOLEAN /\ together' \in BOOLEAN
  BY <1>2 DEF NarrationInv, Shape
<1>4. /\ queue' \in Seq(Texts) /\ (queue # <<>> => queue' # <<>>)
      /\ Pending(work[r]) => queue' # <<>>
  BY BackInQueue DEF Crash, At, Pending
<1> QED BY <1>1, <1>2, <1>3, <1>4, Steps

LEMMA DisconnectStep ==
  ASSUME NarrationInv, NEW r \in Replicas, Disconnect(r)
  PROVE  NarrationInv'
<1> DEFINE w == work[r]
           u == [w EXCEPT !.held = FALSE]
<1>1. WorkOK(w) /\ w.pc # "idle" /\ w.held /\ work \in [Replicas -> Job]
  BY DEF Disconnect, NarrationInv, Shape, WorkOK
<1>2. Moves(r, u)
  BY <1>1 DEF Moves, Disconnect
<1>3. WorkOK(u) /\ u.pc = w.pc /\ u.held = FALSE /\ u.best = w.best
  BY <1>1, LooseOK
<1> HIDE DEF u
<1>4. UNCHANGED <<row, audio, together, editing, dead>>
  BY DEF Disconnect
<1>5. dead' \in BOOLEAN /\ together' \in BOOLEAN
  BY <1>4 DEF NarrationInv, Shape
<1>6. queue' \in Seq(Texts) /\ queue' # <<>>
  BY <1>1, BackInQueue DEF Disconnect
<1>7. ASSUME ~together'
      PROVE  /\ \A q \in Replicas : q # r => work[q].pc = "idle"
             /\ u.pc = "record" => audio' = Stored(u.best)
  <2>1. Alone /\ (w.pc = "record" => audio = Stored(w.best))
    BY <1>4, <1>7 DEF NarrationInv, AudioInv
  <2> QED BY <1>1, <1>3, <1>4, <2>1 DEF Alone
<1> QED BY <1>2, <1>3, <1>4, <1>5, <1>6, <1>7, Steps

-----------------------------------------------------------------------------
(* The steps that write the row.                                           *)

LEMMA RecordStep ==
  ASSUME NarrationInv, NEW r \in Replicas, Record(r)
  PROVE  NarrationInv'
<1> DEFINE w == work[r]
           u == [w EXCEPT !.pc = "ack"]
           flagged == OutOfRange(w.best.voice.ms) \/ w.best.voice.score < Threshold
<1>1. /\ WorkOK(w) /\ w.pc = "record" /\ work \in [Replicas -> Job]
      /\ Spoken(w) /\ w \in Job /\ Best(w)
  BY DEF Record, At, NarrationInv, Shape, WorkOK
<1>2. Moves(r, u)
  BY <1>1 DEF Moves, Goto, Record
<1>3. WorkOK(u) /\ u.pc = "ack" /\ u.held = w.held /\ u.best = w.best
  BY <1>1, GoneOK DEF Pcs
<1> HIDE DEF u
<1>4. /\ work' \in [Replicas -> Job] /\ work'[r] = u
      /\ \A q \in Replicas : q # r => work'[q] = work[q]
      /\ \A q \in Replicas : WorkOK(work'[q])
  BY <1>2, <1>3, Moved DEF NarrationInv
<1>5. UNCHANGED <<audio, queue, together, editing, dead>>
  BY DEF Record
<1>6. /\ w.best \in Attempts /\ w.best.text \in Texts /\ w.best.voice.score \in Nat
      /\ w.best.voice.ms \in Nat
  BY <1>1, VoiceFacts DEF Spoken
<1>7. RowOK' /\ row'.flagged = flagged /\ row'.best = w.best
  <2> DEFINE text == IF w.best.text # w.msg THEN w.best.text ELSE row.text
             words == Align(w.best.text, w.best.voice.marks, Fitted(w.best.voice.ms))
  <2>1. row' = [text |-> text, words |-> words, flagged |-> flagged, best |-> w.best,
                tried |-> w.tried]
    BY DEF Record, UpdateSegmentRecord
  <2>2. text \in Texts
    BY <1>6 DEF NarrationInv, Shape, RowOK
  <2>3. flagged \in BOOLEAN
    BY DEF OutOfRange
  <2>4. w.tried \in Seq(Nat) /\ w.best \in Attempts \cup {NoAttempt}
    BY <1>1 DEF Job
  <2> HIDE DEF text, words, flagged, w
  <2>5. /\ row'.text = text /\ row'.words = words /\ row'.flagged = flagged
        /\ row'.best = w.best /\ row'.tried = w.tried
    BY <2>1
  <2>6. Best(row)'
    BY <1>1, <2>5 DEF Best
  <2> QED BY <2>1, <2>2, <2>3, <2>4, <2>5, <2>6 DEF RowOK
<1>8. Shape'
  BY <1>4, <1>5, <1>7 DEF NarrationInv, Shape
<1>9. FlagInv'
  <2>1. CASE flagged
    BY <1>7, <2>1 DEF FlagInv
  <2>2. CASE ~flagged
    <3>1. Passes(w.best)
      BY <1>6, <2>2, VoiceFacts, FitsItsScene DEF Passes
    <3> QED BY <1>7, <3>1 DEF FlagInv, Passes
  <2> QED BY <2>1, <2>2
<1>10. AudioInv'
  <2>1. SUFFICES ASSUME ~together'
                 PROVE  /\ Alone'
                        /\ \A q \in Replicas :
                             work'[q].pc # "idle" /\ ~work'[q].held => queue' # <<>>
                        /\ \A q \in Replicas :
                             work'[q].pc = "record" => audio' = Stored(work'[q].best)
                        /\ audio' = Stored(row'.best)
    BY DEF AudioInv
  <2>2. /\ Alone /\ audio = Stored(w.best)
        /\ \A q \in Replicas : work[q].pc # "idle" /\ ~work[q].held => queue # <<>>
        /\ \A q \in Replicas : work[q].pc = "record" => audio = Stored(work[q].best)
    BY <1>1, <1>5, <2>1 DEF NarrationInv, AudioInv
  <2>3. Alone'
    BY <1>1, <1>3, <1>4, <2>2 DEF Alone
  <2> QED BY <1>1, <1>3, <1>4, <1>5, <1>7, <2>2, <2>3
<1> QED BY <1>8, <1>9, <1>10 DEF NarrationInv


LEMMA EditSteps ==
  ASSUME NarrationInv, UpdateTranscript \/ RegenerateSegment
  PROVE  NarrationInv'
<1>1. UNCHANGED <<audio, queue, work, together, dead>> /\ editing' = TRUE
  BY DEF UpdateTranscript, RegenerateSegment, Edits
<1>2. RowOK' /\ row'.best = row.best
  <2>1. RowOK
    BY DEF NarrationInv, Shape
  <2>2. CASE UpdateTranscript
    <3>1. PICK text \in Texts : row' = [row EXCEPT !.text = text]
      BY <2>2 DEF UpdateTranscript
    <3>2. row' = [text |-> text, words |-> row.words, flagged |-> row.flagged,
                  best |-> row.best, tried |-> row.tried]
      BY <2>1, <3>1 DEF RowOK
    <3> QED BY <2>1, <3>1, <3>2 DEF RowOK, Best
  <2>3. CASE RegenerateSegment
    <3>1. row' = [text |-> row.text, words |-> row.words, flagged |-> FALSE,
                  best |-> row.best, tried |-> row.tried]
      BY <2>1, <2>3 DEF RegenerateSegment, RowOK
    <3> QED BY <2>1, <3>1 DEF RowOK, Best
  <2> QED BY <2>2, <2>3
<1>3. Shape'
  BY <1>1, <1>2 DEF NarrationInv, Shape
<1>4. Awaited'
  BY <1>1 DEF Awaited
<1>5. AudioInv'
  BY <1>1, <1>4 DEF NarrationInv, AudioInv, Alone
<1> QED BY <1>3, <1>4, <1>5 DEF NarrationInv, FlagInv

LEMMA PublishStep ==
  ASSUME NarrationInv, PublishEdit
  PROVE  NarrationInv'
<1>1. UNCHANGED <<row, audio, work, together>> /\ editing' = FALSE
  BY DEF PublishEdit
<1>2. queue \in Seq(Texts) /\ row.text \in Texts /\ dead \in BOOLEAN
  BY DEF NarrationInv, Shape, RowOK
<1>3. /\ queue' \in Seq(Texts) /\ dead' \in BOOLEAN /\ (queue # <<>> => queue' # <<>>)
      /\ queue' # <<>> \/ dead'
  <2>1. CASE queue' = Append(queue, row.text) /\ UNCHANGED <<dead, faults>>
    <3>1. queue' \in Seq(Texts) /\ Len(queue') = Len(queue) + 1 /\ Len(queue) \in Nat
      BY <1>2, <2>1, AppendProperties
    <3> QED BY <1>2, <2>1, <3>1
  <2>2. CASE Fault /\ dead' = TRUE /\ UNCHANGED queue
    BY <1>2, <2>2
  <2> QED BY <2>1, <2>2 DEF PublishEdit
<1>4. RowOK'
  BY <1>1 DEF NarrationInv, Shape, RowOK, Best
<1>5. Shape'
  BY <1>1, <1>3, <1>4 DEF NarrationInv, Shape
<1>6. Awaited'
  BY <1>3 DEF Awaited
<1>7. AudioInv'
  BY <1>1, <1>3, <1>6 DEF NarrationInv, AudioInv, Alone
<1> QED BY <1>5, <1>6, <1>7 DEF NarrationInv, FlagInv

-----------------------------------------------------------------------------
(* The invariant.                                                          *)

LEMMA NarrationStarts == Init => NarrationInv
<1> SUFFICES ASSUME Init PROVE NarrationInv
  OBVIOUS
<1>1. PICK text \in Texts :
        /\ queue = <<text>>
        /\ row = [text |-> text, words |-> SynthesizeWords(text), flagged |-> FALSE,
                  best |-> NoAttempt, tried |-> <<>>]
  BY DEF Init
<1>2. work = [r \in Replicas |-> Idle] /\ dead = FALSE /\ editing = FALSE /\ together = FALSE
  BY DEF Init
<1>3. RowOK
  <2> DEFINE words == SynthesizeWords(text)
             best == NoAttempt
  <2>1. row = [text |-> text, words |-> words, flagged |-> FALSE, best |-> best, tried |-> <<>>]
    BY <1>1
  <2>2. best \in Attempts \cup {NoAttempt} /\ <<>> \in Seq(Nat)
    OBVIOUS
  <2> HIDE DEF words, best
  <2>3. /\ row.text = text /\ row.words = words /\ row.flagged = FALSE /\ row.best = best
        /\ row.tried = <<>>
    BY <2>1
  <2> QED BY <1>1, <2>1, <2>2, <2>3 DEF RowOK, Best
<1>4. queue \in Seq(Texts) /\ queue # <<>>
  BY <1>1
<1>5. work \in [Replicas -> Job] /\ \A r \in Replicas : WorkOK(work[r]) /\ work[r].pc = "idle"
  BY <1>2, IdleOK
<1>6. Shape
  BY <1>2, <1>3, <1>4, <1>5 DEF Shape
<1>7. Awaited
  BY <1>4 DEF Awaited
<1> QED BY <1>5, <1>6, <1>7 DEF NarrationInv, FlagInv, AudioInv, Alone

LEMMA NarrationStep == NarrationInv /\ [Next]_vars => NarrationInv'
<1> SUFFICES ASSUME NarrationInv, [Next]_vars PROVE NarrationInv'
  OBVIOUS
<1>1. CASE UNCHANGED vars
  BY <1>1 DEF vars, NarrationInv, Shape, RowOK, Best, FlagInv, Awaited, AudioInv, Alone
<1>2. ASSUME NEW r \in Replicas,
             \/ Take(r) \/ Synthesize(r) \/ Rewrite(r) \/ Upload(r) \/ Record(r) \/ Ack(r)
             \/ DeadLetter(r) \/ Crash(r) \/ Disconnect(r)
      PROVE  NarrationInv'
  BY <1>2, TakeStep, SynthesizeStep, RewriteStep, UploadStep, RecordStep, AckStep,
     DeadLetterStep, CrashStep, DisconnectStep
<1>3. CASE UpdateTranscript \/ RegenerateSegment
  BY <1>3, EditSteps
<1>4. CASE PublishEdit
  BY <1>4, PublishStep
<1> QED BY <1>1, <1>2, <1>3, <1>4 DEF Next

LEMMA NarrationInvariant == Spec => []NarrationInv
<1> QED BY NarrationStarts, NarrationStep, PTL DEF Spec

LEMMA NothingAwaited ==
  ASSUME NarrationInv, Voiced
  PROVE  ~Awaited
<1>1. queue = <<>> /\ ~dead /\ ~editing /\ \A r \in Replicas : work[r].pc = "idle"
  BY DEF Voiced, At
<1> QED BY <1>1 DEF Awaited, Pending

\* However often a regeneration clears the flag while replicas voice the segment, a segment that
\* is handled to its end without a flag fits its scene and passed the quality gate, and what is
\* recorded is the best attempt of its run (_process_segment, iterate_segment, RegenerateSegment).
THEOREM UnflaggedIsGoodHolds == Spec => []UnflaggedIsGood
<1>1. NarrationInv => UnflaggedIsGood
  <2> SUFFICES ASSUME NarrationInv PROVE UnflaggedIsGood
    OBVIOUS
  <2>1. Voiced /\ ~row.flagged => Passes(row.best)
    BY NothingAwaited DEF NarrationInv, FlagInv
  <2>2. Best(row)
    BY DEF NarrationInv, Shape, RowOK
  <2> QED BY <2>1, <2>2 DEF UnflaggedIsGood, Passes, Best
<1> QED BY <1>1, NarrationInvariant, PTL

\* Unless two replicas had the segment at once, the row's timings are of the stored audio once all
\* is handled, whatever crashes, lost connections and edits came between (_process_segment).
THEOREM TimedForItsAudioHolds == Spec => []TimedForItsAudio
<1>1. NarrationInv => TimedForItsAudio
  BY NothingAwaited DEF NarrationInv, AudioInv, TimedForItsAudio
<1> QED BY <1>1, NarrationInvariant, PTL

-----------------------------------------------------------------------------
(* Folds.                                                                  *)

\* The library's induction rules take an operator; a smallest counterexample does without.
LEMMA SmallestNumber ==
  ASSUME NEW T \in SUBSET Nat, T # {}
  PROVE  \E n \in T : \A m \in T : n <= m
<1>1. PICK n \in T : \A m \in T : <<m, n>> \notin OpToRel(<, Nat)
  BY NatLessThanWellFounded, WFMin
<1>2. ASSUME NEW m \in T PROVE n <= m
  <2>1. m \in Nat /\ n \in Nat /\ <<m, n>> \in Nat \X Nat
    BY <1>1, <1>2
  <2>2. OpToRel(<, Nat) = {ss \in Nat \X Nat : ss[1] < ss[2]}
    BY DEF OpToRel
  <2>3. ~ (m < n)
    BY <1>1, <1>2, <2>1, <2>2
  <2> QED BY <2>1, <2>3
<1> QED BY <1>1, <1>2

\* A fold over a sequence of length n is the value at 1..n of a table over its subsets.
IsTable(f, n, G, base) ==
  \A s \in SUBSET (1..n) : f[s] = IF s = {} THEN base ELSE G[<<Max(s), f[s \ {Max(s)}]>>]

LEMMA MaxIn ==
  ASSUME NEW n \in Nat, NEW s \in SUBSET (1..n), s # {}
  PROVE  Max(s) \in s /\ \A x \in s : x <= Max(s)
<1> DEFINE T == {m \in Nat : \A x \in s : x <= m}
<1>1. n \in T
  OBVIOUS
<1>2. PICK m \in T : \A k \in T : m <= k
  BY <1>1, SmallestNumber
<1>3. m \in s
  <2> SUFFICES ASSUME m \notin s PROVE FALSE
    OBVIOUS
  <2>1. \A x \in s : x \in Nat /\ x <= m /\ x # m /\ x >= 1
    BY <1>2
  <2>2. m \in Nat /\ \A x \in s : x <= m - 1
    BY <1>2, <2>1
  <2>3. m - 1 \in Nat
    <3>1. PICK x \in s : x \in Nat /\ x >= 1 /\ x <= m - 1
      BY <2>1, <2>2
    <3> QED BY <2>2, <3>1
  <2>4. m - 1 \in T
    BY <2>2, <2>3
  <2> QED BY <1>2, <2>2, <2>4
<1>4. \E y \in s : \A x \in s : y >= x
  BY <1>2, <1>3
<1>5. Max(s) \in s /\ \A x \in s : Max(s) >= x
  BY <1>4 DEF Max
<1> QED BY <1>5

LEMMA MaxOfPrefix ==
  ASSUME NEW k \in Nat \ {0}
  PROVE  Max(1..k) = k /\ (1..k) \ {k} = 1..(k - 1)
<1>1. k \in 1..k
  OBVIOUS
<1>2. Max(1..k) \in 1..k /\ \A x \in 1..k : x <= Max(1..k)
  BY <1>1, MaxIn
<1> QED BY <1>1, <1>2

LEMMA TableExists ==
  ASSUME NEW n \in Nat, NEW V, NEW base \in V, NEW G \in [(1..n) \X V -> V]
  PROVE  \E f \in [SUBSET (1..n) -> V] : IsTable(f, n, G, base)
<1> DEFINE Good(m) == \E f \in [SUBSET (1..m) -> V] : IsTable(f, m, G, base)
           Bad == {m \in 0..n : ~Good(m)}
<1>1. Good(0)
  <2>1. PICK f : f = [s \in SUBSET (1..0) |-> base]
    OBVIOUS
  <2>2. f \in [SUBSET (1..0) -> V] /\ IsTable(f, 0, G, base)
    BY <2>1 DEF IsTable
  <2> QED BY <2>2
<1>2. ASSUME NEW m \in 1..n, Good(m - 1) PROVE Good(m)
  <2>1. PICK f \in [SUBSET (1..(m - 1)) -> V] : IsTable(f, m - 1, G, base)
    BY <1>2
  <2>2. PICK h : h = [s \in SUBSET (1..m) |-> IF m \in s THEN G[<<m, f[s \ {m}]>>] ELSE f[s]]
    OBVIOUS
  <2>3. ASSUME NEW s \in SUBSET (1..m), m \in s
        PROVE  /\ s # {} /\ Max(s) = m /\ s \ {m} \in SUBSET (1..(m - 1))
               /\ h[s] = G[<<m, h[s \ {m}]>>] /\ h[s] \in V
    <3>1. Max(s) = m
      <4>1. m \in Nat /\ s # {}
        BY <2>3
      <4>2. Max(s) \in s /\ \A x \in s : x <= Max(s)
        BY <4>1, MaxIn
      <4>3. Max(s) \in 1..m /\ m <= Max(s)
        BY <2>3, <4>2
      <4> QED BY <4>1, <4>3
    <3>2. s \ {m} \in SUBSET (1..(m - 1)) /\ s \ {m} \in SUBSET (1..m)
      OBVIOUS
    <3>3. h[s] = G[<<m, f[s \ {m}]>>] /\ h[s \ {m}] = f[s \ {m}]
      BY <2>2, <2>3, <3>2
    <3>4. <<m, f[s \ {m}]>> \in (1..n) \X V
      BY <2>1, <3>2
    <3> QED BY <2>3, <3>1, <3>2, <3>3, <3>4
  <2>4. ASSUME NEW s \in SUBSET (1..m), m \notin s
        PROVE  /\ h[s] = IF s = {} THEN base ELSE G[<<Max(s), h[s \ {Max(s)}]>>]
               /\ h[s] \in V
    <3>1. \A x \in s : x \in 1..(m - 1)
      <4>1. ASSUME NEW x \in s PROVE x \in 1..(m - 1)
        <5>1. x \in 1..m /\ x # m /\ m \in Nat
          BY <2>4
        <5> QED BY <5>1
      <4> QED BY <4>1
    <3>3. s \in SUBSET (1..(m - 1)) /\ s \ {Max(s)} \in SUBSET (1..(m - 1))
      BY <3>1
    <3>2. h[s] = f[s] /\ h[s \ {Max(s)}] = f[s \ {Max(s)}]
      BY <2>2, <2>4, <3>3
    <3> QED BY <2>1, <3>2, <3>3 DEF IsTable
  <2>5. h \in [SUBSET (1..m) -> V]
    BY <2>2, <2>3, <2>4
  <2>6. IsTable(h, m, G, base)
    BY <2>3, <2>4 DEF IsTable
  <2> QED BY <2>5, <2>6
<1> HIDE DEF Good
<1>3. Bad = {}
  <2> SUFFICES ASSUME Bad # {} PROVE FALSE
    OBVIOUS
  <2>1. PICK m \in Bad : \A k \in Bad : m <= k
    <3>1. Bad \in SUBSET Nat
      OBVIOUS
    <3> HIDE DEF Bad
    <3> QED BY <3>1, SmallestNumber
  <2>2. m \in 1..n /\ m - 1 \in 0..n /\ m - 1 \notin Bad
    BY <1>1, <2>1
  <2> QED BY <1>2, <2>1, <2>2
<1>4. Good(n)
  BY <1>3
<1> QED BY <1>4 DEF Good

\* What the base has and each step keeps, the fold has.
LEMMA TableKeeps ==
  ASSUME NEW n \in Nat, NEW V, NEW f, f[{}] \in V,
         \A k \in 1..n : f[1..(k - 1)] \in V => f[1..k] \in V
  PROVE  f[1..n] \in V
<1> DEFINE Bad == {k \in 0..n : f[1..k] \notin V}
<1>1. 0 \notin Bad
  <2>1. 1..0 = {}
    OBVIOUS
  <2> QED BY <2>1
<1>2. Bad = {}
  <2> SUFFICES ASSUME Bad # {} PROVE FALSE
    OBVIOUS
  <2>1. PICK k \in Bad : \A m \in Bad : k <= m
    <3>1. Bad \in SUBSET Nat
      OBVIOUS
    <3> HIDE DEF Bad
    <3> QED BY <3>1, SmallestNumber
  <2>2. k \in 1..n /\ k - 1 \in 0..n /\ k - 1 \notin Bad
    BY <1>1, <2>1
  <2> QED BY <2>1, <2>2
<1> QED BY <1>2


-----------------------------------------------------------------------------
(* Sums.                                                                   *)

IsSum(f, t) ==
  f = [s \in SUBSET DOMAIN t |-> IF s = {} THEN 0 ELSE f[s \ {Max(s)}] + t[Max(s)]]

LEMMA SumTable ==
  ASSUME NEW s, NEW i
  PROVE  LET t == SubSeq(s, 1, i) IN SumTo(s, i) = (CHOOSE f : IsSum(f, t))[DOMAIN t]
BY DEF SumTo, FoldLeft, MapThenFoldSet, IsSum

LEMMA SumExists ==
  ASSUME NEW t \in Seq(Nat)
  PROVE  \E f : IsSum(f, t)
<1> DEFINE n == Len(t)
           G == [p \in (1..n) \X Nat |-> p[2] + t[p[1]]]
<1>1. n \in Nat /\ DOMAIN t = 1..n /\ \A j \in 1..n : t[j] \in Nat
  OBVIOUS
<1>2. G \in [(1..n) \X Nat -> Nat]
  BY <1>1
<1>3. PICK f \in [SUBSET (1..n) -> Nat] : IsTable(f, n, G, 0)
  <2> HIDE DEF G
  <2> QED BY <1>1, <1>2, TableExists
<1>4. ASSUME NEW s \in SUBSET (1..n), s # {}
      PROVE  f[s] = f[s \ {Max(s)}] + t[Max(s)]
  <2>1. Max(s) \in s
    BY <1>1, <1>4, MaxIn
  <2>2. <<Max(s), f[s \ {Max(s)}]>> \in (1..n) \X Nat
    BY <1>3, <2>1
  <2> QED BY <1>3, <1>4, <2>2 DEF IsTable
<1>5. f[{}] = 0
  BY <1>3 DEF IsTable
<1> HIDE DEF G
<1>6. f = [s \in SUBSET DOMAIN t |-> IF s = {} THEN 0 ELSE f[s \ {Max(s)}] + t[Max(s)]]
  BY <1>1, <1>3, <1>4, <1>5
<1> QED BY <1>6 DEF IsSum

LEMMA SumIn ==
  ASSUME NEW s \in Seq(Nat), NEW i \in 0..Len(s)
  PROVE  /\ SumTo(s, i) \in Nat
         /\ i > 0 /\ s[i] > 0 => SumTo(s, i) > 0
<1> DEFINE t == SubSeq(s, 1, i)
           f == CHOOSE g : IsSum(g, t)
<1>1. t \in Seq(Nat) /\ Len(t) = i /\ DOMAIN t = 1..i /\ i \in Nat /\ \A j \in 1..i : t[j] = s[j]
  OBVIOUS
<1>2. IsSum(f, t) /\ SumTo(s, i) = f[1..i]
  <2> HIDE DEF t
  <2>1. IsSum(f, t)
    BY <1>1, SumExists
  <2> QED BY <1>1, <2>1, SumTable DEF t
<1> HIDE DEF t, f
<1>3. f[{}] = 0
  BY <1>2 DEF IsSum
<1>4. ASSUME NEW k \in 1..i PROVE f[1..k] = f[1..(k - 1)] + t[k]
  <2>1. 1..k \in SUBSET (1..i) /\ k \in 1..k /\ k \in Nat \ {0}
    OBVIOUS
  <2>2. Max(1..k) = k /\ (1..k) \ {k} = 1..(k - 1)
    BY <2>1, MaxOfPrefix
  <2>3. f[1..k] = f[(1..k) \ {Max(1..k)}] + t[Max(1..k)]
    BY <1>1, <1>2, <2>1 DEF IsSum
  <2> QED BY <2>2, <2>3
<1>5. \A k \in 0..i : f[1..k] \in Nat
  <2>1. ASSUME NEW k \in 0..i PROVE f[1..k] \in Nat
    <3>1. \A j \in 1..k : f[1..(j - 1)] \in Nat => f[1..j] \in Nat
      BY <1>1, <1>4
    <3>2. k \in Nat /\ f[{}] \in Nat
      BY <1>3
    <3> QED BY <3>1, <3>2, TableKeeps
  <2> QED BY <2>1
<1>6. ASSUME i > 0, s[i] > 0 PROVE SumTo(s, i) > 0
  <2>1. f[1..i] = f[1..(i - 1)] + s[i]
    BY <1>1, <1>4, <1>6
  <2>2. f[1..(i - 1)] \in Nat
    BY <1>1, <1>5, <1>6
  <2>3. s[i] \in Nat
    BY <1>1, <1>6
  <2> QED BY <1>2, <1>6, <2>1, <2>2, <2>3
<1>7. f[1..i] \in Nat
  BY <1>1, <1>5
<1> QED BY <1>2, <1>6, <1>7

-----------------------------------------------------------------------------
(* Words in order.                                                         *)

Timed(B) == [start: B, end: B]
Following(B) ==
  {out \in Seq(Timed(B)) :
     \A i \in DOMAIN out : /\ out[i].start <= out[i].end
                           /\ i > 1 => out[i - 1].end <= out[i].start}

LEMMA NoWords == ASSUME NEW B PROVE <<>> \in Following(B)
BY DEF Following

LEMMA LastTimed ==
  ASSUME NEW B, NEW out \in Seq(Timed(B)), out # <<>>
  PROVE  Last(out) \in Timed(B) /\ Last(out).end \in B
<1>1. Len(out) \in 1..Len(out)
  BY EmptySeq
<1>2. Last(out) = out[Len(out)] /\ out[Len(out)] \in Timed(B)
  BY <1>1 DEF Last
<1> QED BY <1>2 DEF Timed

LEMMA WordMore ==
  ASSUME NEW B \in SUBSET Nat, NEW out \in Following(B), NEW x \in Timed(B), x.start <= x.end,
         out # <<>> => Last(out).end <= x.start
  PROVE  Append(out, x) \in Following(B)
<1> DEFINE more == Append(out, x)
<1>1. out \in Seq(Timed(B)) /\ Len(out) \in Nat /\ DOMAIN out = 1..Len(out)
  BY DEF Following
<1>2. /\ more \in Seq(Timed(B)) /\ Len(more) = Len(out) + 1 /\ DOMAIN more = 1..Len(more)
      /\ \A i \in 1..Len(out) : more[i] = out[i]
      /\ more[Len(out) + 1] = x
  BY <1>1, AppendProperties
<1> HIDE DEF more
<1>3. ASSUME NEW i \in DOMAIN more
      PROVE  /\ more[i].start <= more[i].end
             /\ i > 1 => more[i - 1].end <= more[i].start
  <2>1. i \in 1..Len(out) + 1
    BY <1>1, <1>2, <1>3
  <2>2. CASE i = Len(out) + 1
    <3>1. ASSUME i > 1 PROVE more[i - 1].end <= more[i].start
      <4>1. i - 1 = Len(out) /\ i - 1 \in 1..Len(out) /\ out # <<>>
        BY <1>1, <2>1, <2>2, <3>1
      <4>2. Last(out) = more[i - 1]
        BY <1>2, <4>1 DEF Last
      <4> QED BY <1>2, <2>2, <4>1, <4>2
    <3> QED BY <1>2, <2>2, <3>1
  <2>3. CASE i # Len(out) + 1
    <3>1. i \in DOMAIN out /\ more[i] = out[i]
      BY <1>1, <1>2, <2>1, <2>3
    <3>2. i > 1 => more[i - 1] = out[i - 1]
      BY <1>1, <1>2, <2>1, <2>3
    <3> QED BY <3>1, <3>2 DEF Following
  <2> QED BY <2>2, <2>3
<1> QED BY <1>2, <1>3 DEF Following, more

MonoStep(out, w) ==
  LET ahead == IF out = <<>> THEN 0 ELSE Last(out).end
      start == Larger(w.start, ahead)
  IN Append(out, [start |-> start, end |-> Larger(w.end, start)])

IsMono(f, t) ==
  f = [s \in SUBSET DOMAIN t |-> IF s = {} THEN <<>> ELSE MonoStep(f[s \ {Max(s)}], t[Max(s)])]

LEMMA MonoTable ==
  ASSUME NEW t
  PROVE  EnforceMonotonic(t) = (CHOOSE f : IsMono(f, t))[DOMAIN t]
BY DEF EnforceMonotonic, FoldLeft, MapThenFoldSet, IsMono, MonoStep

\* The times of w, and what they become beside one of B, are in B.
Fits(w, B) ==
  w \in [start: Int, end: Int] /\ Larger(w.start, 0) \in B
  /\ \A b \in B : Larger(w.start, b) \in B /\ Larger(w.end, b) \in B

LEMMA MonoStepKeeps ==
  ASSUME NEW B \in SUBSET Nat, NEW out \in Following(B), NEW w, Fits(w, B)
  PROVE  MonoStep(out, w) \in Following(B)
<1> DEFINE ahead == IF out = <<>> THEN 0 ELSE Last(out).end
           start == Larger(w.start, ahead)
           x == [start |-> start, end |-> Larger(w.end, start)]
<1>1. out \in Seq(Timed(B))
  BY DEF Following
<1>2. start \in B /\ ahead \in Nat /\ ahead <= start
  <2>1. CASE out = <<>>
    BY <2>1 DEF Fits, Larger
  <2>2. CASE out # <<>>
    <3>1. ahead \in B /\ ahead \in Nat
      BY <1>1, <2>2, LastTimed
    <3>2. start \in B
      BY <3>1 DEF Fits
    <3>3. w.start \in Int
      BY DEF Fits
    <3> QED BY <3>1, <3>2, <3>3 DEF Larger
  <2> QED BY <2>1, <2>2
<1>3. out # <<>> => Last(out).end <= start
  BY <1>2
<1> HIDE DEF ahead
<1>4. Larger(w.end, start) \in B /\ start <= Larger(w.end, start)
  <2>1. w.end \in Int
    BY DEF Fits
  <2>2. start \in Int
    <3> HIDE DEF start
    <3> QED BY <1>2
  <2> HIDE DEF start
  <2> QED BY <1>2, <2>1, <2>2 DEF Fits, Larger
<1> HIDE DEF start
<1>5. x \in Timed(B) /\ x.start <= x.end /\ x.start = start
  BY <1>2, <1>4 DEF Timed
<1> HIDE DEF x
<1>6. Append(out, x) \in Following(B)
  BY <1>3, <1>5, WordMore
<1> QED BY <1>6 DEF MonoStep, x, start, ahead

LEMMA MonoIn ==
  ASSUME NEW B \in SUBSET Nat, NEW n \in Nat, NEW t, DOMAIN t = 1..n,
         \A i \in 1..n : Fits(t[i], B)
  PROVE  EnforceMonotonic(t) \in Following(B)
<1> DEFINE V == Following(B)
           G == [p \in (1..n) \X V |-> MonoStep(p[2], t[p[1]])]
<1>1. G \in [(1..n) \X V -> V] /\ <<>> \in V
  BY MonoStepKeeps, NoWords
<1>2. \E f : IsMono(f, t)
  <2>1. PICK f \in [SUBSET (1..n) -> V] : IsTable(f, n, G, <<>>)
    <3> HIDE DEF G, V
    <3> QED BY <1>1, TableExists
  <2>2. ASSUME NEW s \in SUBSET (1..n), s # {}
        PROVE  f[s] = MonoStep(f[s \ {Max(s)}], t[Max(s)])
    <3>1. Max(s) \in s
      BY <2>2, MaxIn
    <3>2. <<Max(s), f[s \ {Max(s)}]>> \in (1..n) \X V
      BY <2>1, <3>1
    <3> QED BY <2>1, <2>2, <3>2 DEF IsTable
  <2>3. f[{}] = <<>>
    BY <2>1 DEF IsTable
  <2> HIDE DEF G
  <2>4. f = [s \in SUBSET DOMAIN t |->
               IF s = {} THEN <<>> ELSE MonoStep(f[s \ {Max(s)}], t[Max(s)])]
    BY <2>1, <2>2, <2>3
  <2> QED BY <2>4 DEF IsMono
<1> DEFINE f == CHOOSE g : IsMono(g, t)
<1>3. IsMono(f, t) /\ EnforceMonotonic(t) = f[1..n]
  BY <1>2, MonoTable
<1> HIDE DEF f
<1>4. f[{}] \in V
  BY <1>1, <1>3 DEF IsMono
<1>5. ASSUME NEW k \in 1..n, f[1..(k - 1)] \in V PROVE f[1..k] \in V
  <2>1. 1..k \in SUBSET (1..n) /\ k \in 1..k /\ k \in Nat \ {0}
    OBVIOUS
  <2>2. Max(1..k) = k /\ (1..k) \ {k} = 1..(k - 1)
    BY <2>1, MaxOfPrefix
  <2>3. f[1..k] = MonoStep(f[(1..k) \ {Max(1..k)}], t[Max(1..k)])
    BY <1>3, <2>1 DEF IsMono
  <2> QED BY <1>5, <2>2, <2>3, MonoStepKeeps
<1> HIDE DEF V
<1>6. f[1..n] \in V
  BY <1>4, <1>5, TableKeeps
<1> QED BY <1>3, <1>6 DEF V

-----------------------------------------------------------------------------
(* The validator's timings.                                                *)

TimeStep(text, out, i) ==
  LET cursor == IF out = <<>> THEN Start ELSE Last(out).end
      share == Larger(1, (Target * text[i]) \div SumTo(text, Len(text)))
  IN Append(out, [start |-> cursor,
                  end |-> IF i = Len(text) THEN Start + Target
                          ELSE Smaller(cursor + share, Start + Target)])

IsTiming(f, text, t) ==
  f = [s \in SUBSET DOMAIN t |->
         IF s = {} THEN <<>> ELSE TimeStep(text, f[s \ {Max(s)}], t[Max(s)])]

LEMMA TimingTable ==
  ASSUME NEW text
  PROVE  LET t == [i \in DOMAIN text |-> i] IN
         SynthesizeWords(text) = (CHOOSE f : IsTiming(f, text, t))[DOMAIN t]
BY DEF SynthesizeWords, FoldLeft, MapThenFoldSet, IsTiming, TimeStep

Scene == Start..(Start + Target)

LEMMA TimeStepKeeps ==
  ASSUME NEW text \in Texts, NEW out \in Following(Scene), NEW i \in DOMAIN text
  PROVE  TimeStep(text, out, i) \in Following(Scene)
<1> DEFINE cursor == IF out = <<>> THEN Start ELSE Last(out).end
           share == Larger(1, (Target * text[i]) \div SumTo(text, Len(text)))
           end == IF i = Len(text) THEN Start + Target ELSE Smaller(cursor + share, Start + Target)
           x == [start |-> cursor, end |-> end]
<1>1. Start \in Nat /\ Target \in Nat /\ Scene \in SUBSET Nat
  BY SceneAssumption DEF Scene
<1>2. text \in Seq(Nat) /\ text[i] \in Nat /\ Len(text) \in Nat /\ Len(text) > 0
      /\ text[Len(text)] > 0
  <2>1. text \in Seq(Nat \ {0}) /\ text # <<>>
    BY TextsAssumption
  <2>2. Len(text) \in Nat /\ Len(text) # 0 /\ DOMAIN text = 1..Len(text)
    BY <2>1, EmptySeq
  <2>3. text \in Seq(Nat)
    BY <2>1, <2>2
  <2> QED BY <2>1, <2>2, <2>3
<1>3. share \in Nat /\ share > 0
  <2>1. SumTo(text, Len(text)) \in Nat /\ SumTo(text, Len(text)) > 0
    BY <1>2, SumIn
  <2>2. PICK d : d = SumTo(text, Len(text))
    OBVIOUS
  <2>3. PICK a : a = Target * text[i]
    OBVIOUS
  <2>4. a \in Nat
    BY <1>1, <1>2, <2>3
  <2>5. a \div d \in Int
    BY <2>1, <2>2, <2>4
  <2> QED BY <2>2, <2>3, <2>5 DEF Larger
<1>4. cursor \in Scene
  <2>1. CASE out = <<>>
    BY <1>1, <2>1 DEF Scene
  <2>2. CASE out # <<>>
    BY <2>2, LastTimed DEF Following
  <2> QED BY <2>1, <2>2
<1>5. out # <<>> => Last(out).end <= cursor
  <2>1. out # <<>> => Last(out).end = cursor
    OBVIOUS
  <2>2. cursor <= cursor
    <3> HIDE DEF cursor
    <3> QED BY <1>1, <1>4
  <2> QED BY <2>1, <2>2
<1> HIDE DEF share, cursor
<1>6. end \in Scene /\ cursor <= end
  BY <1>1, <1>3, <1>4 DEF Scene, Smaller
<1> HIDE DEF end
<1>7. x \in Timed(Scene) /\ x.start = cursor /\ x.start <= x.end
  BY <1>4, <1>6 DEF Timed
<1> HIDE DEF x
<1>8. Append(out, x) \in Following(Scene)
  BY <1>1, <1>5, <1>7, WordMore
<1> QED BY <1>8 DEF TimeStep, x, end, cursor, share

LEMMA TimingIn ==
  ASSUME NEW text \in Texts
  PROVE  SynthesizeWords(text) \in Following(Scene)
<1> DEFINE n == Len(text)
           V == Following(Scene)
           t == [i \in DOMAIN text |-> i]
           G == [p \in (1..n) \X V |-> TimeStep(text, p[2], t[p[1]])]
<1>1. n \in Nat /\ DOMAIN text = 1..n /\ DOMAIN t = 1..n /\ \A i \in 1..n : t[i] = i
  BY TextsAssumption
<1>2. G \in [(1..n) \X V -> V] /\ <<>> \in V
  BY <1>1, TimeStepKeeps, NoWords
<1> HIDE DEF t, n
<1>3. \E f : IsTiming(f, text, t)
  <2>1. PICK f \in [SUBSET (1..n) -> V] : IsTable(f, n, G, <<>>)
    <3> HIDE DEF G, V
    <3> QED BY <1>1, <1>2, TableExists
  <2>2. ASSUME NEW s \in SUBSET (1..n), s # {}
        PROVE  f[s] = TimeStep(text, f[s \ {Max(s)}], t[Max(s)])
    <3>1. Max(s) \in s
      BY <1>1, <2>2, MaxIn
    <3>2. <<Max(s), f[s \ {Max(s)}]>> \in (1..n) \X V
      BY <2>1, <3>1
    <3> QED BY <2>1, <2>2, <3>2 DEF IsTable
  <2>3. f[{}] = <<>>
    BY <2>1 DEF IsTable
  <2> HIDE DEF G
  <2>4. f = [s \in SUBSET DOMAIN t |->
               IF s = {} THEN <<>> ELSE TimeStep(text, f[s \ {Max(s)}], t[Max(s)])]
    BY <1>1, <2>1, <2>2, <2>3
  <2> QED BY <2>4 DEF IsTiming
<1> DEFINE f == CHOOSE g : IsTiming(g, text, t)
<1>4. IsTiming(f, text, t) /\ SynthesizeWords(text) = f[1..n]
  BY <1>1, <1>3, TimingTable DEF t
<1> HIDE DEF f, G
<1>5. f[{}] \in V
  BY <1>2, <1>4 DEF IsTiming
<1>6. ASSUME NEW k \in 1..n, f[1..(k - 1)] \in V PROVE f[1..k] \in V
  <2>1. 1..k \in SUBSET (1..n) /\ k \in 1..k /\ k \in Nat \ {0}
    BY <1>1
  <2>2. Max(1..k) = k /\ (1..k) \ {k} = 1..(k - 1)
    BY <2>1, MaxOfPrefix
  <2>3. f[1..k] = TimeStep(text, f[(1..k) \ {Max(1..k)}], t[Max(1..k)])
    BY <1>1, <1>4, <2>1 DEF IsTiming
  <2>4. f[1..k] = TimeStep(text, f[1..(k - 1)], k) /\ k \in DOMAIN text
    BY <1>1, <2>2, <2>3
  <2> QED BY <1>6, <2>4, TimeStepKeeps
<1> HIDE DEF V
<1>7. f[1..n] \in V
  BY <1>1, <1>5, <1>6, TableKeeps
<1> QED BY <1>4, <1>7 DEF V

-----------------------------------------------------------------------------
(* The provider's timings, and shares of the audio.                        *)

AheadStep(t, w) == Larger(t, w.end)
IsAhead(f, t) ==
  f = [s \in SUBSET DOMAIN t |-> IF s = {} THEN 0 ELSE AheadStep(f[s \ {Max(s)}], t[Max(s)])]
Ahead(t) == (CHOOSE f : IsAhead(f, t))[DOMAIN t]

\* Rescale, with the ends ahead of a word as the fold they are.
Scaled(t, ms, span) == IF ms > 0 THEN Smaller(Round(t * ms, span), ms) ELSE t
ScaledStart(words, i, ms) ==
  Scaled(Larger(words[i].start, Ahead(SubSeq(words, 1, i - 1))), ms, Larger(Last(words).end, 1))
ScaledEnd(words, i, ms) ==
  Larger(Scaled(Larger(words[i].end, Ahead(SubSeq(words, 1, i - 1))), ms,
                Larger(Last(words).end, 1)),
         ScaledStart(words, i, ms))

LEMMA RescaleTable ==
  ASSUME NEW words, NEW ms
  PROVE  Rescale(words, ms) =
           [i \in DOMAIN words |->
              [start |-> ScaledStart(words, i, ms), end |-> ScaledEnd(words, i, ms)]]
BY DEF Rescale, FoldLeft, MapThenFoldSet, IsAhead, Ahead, AheadStep, Scaled, ScaledStart, ScaledEnd

LEMMA LargerIn ==
  ASSUME NEW a \in Nat, NEW b \in Nat
  PROVE  Larger(a, b) \in Nat /\ Larger(a, 1) > 0
BY DEF Larger

LEMMA AheadIn ==
  ASSUME NEW t \in Seq(Timed(Nat))
  PROVE  Ahead(t) \in Nat
<1> DEFINE n == Len(t)
           G == [p \in (1..n) \X Nat |-> AheadStep(p[2], t[p[1]])]
<1>1. n \in Nat /\ DOMAIN t = 1..n /\ \A j \in 1..n : t[j].end \in Nat
  <2>1. \A j \in 1..n : t[j] \in Timed(Nat)
    OBVIOUS
  <2> QED BY <2>1 DEF Timed
<1>2. \A a \in Nat : \A j \in 1..n : AheadStep(a, t[j]) \in Nat
  BY <1>1, LargerIn DEF AheadStep
<1>3. G \in [(1..n) \X Nat -> Nat]
  BY <1>1, <1>2
<1> HIDE DEF n
<1>4. \E f : IsAhead(f, t)
  <2>1. PICK f \in [SUBSET (1..n) -> Nat] : IsTable(f, n, G, 0)
    <3> HIDE DEF G
    <3> QED BY <1>1, <1>3, TableExists
  <2>2. ASSUME NEW s \in SUBSET (1..n), s # {}
        PROVE  f[s] = AheadStep(f[s \ {Max(s)}], t[Max(s)])
    <3>1. Max(s) \in s
      BY <1>1, <2>2, MaxIn
    <3>2. <<Max(s), f[s \ {Max(s)}]>> \in (1..n) \X Nat
      BY <2>1, <3>1
    <3> QED BY <2>1, <2>2, <3>2 DEF IsTable
  <2>3. f[{}] = 0
    BY <2>1 DEF IsTable
  <2> HIDE DEF G
  <2>4. f = [s \in SUBSET DOMAIN t |->
               IF s = {} THEN 0 ELSE AheadStep(f[s \ {Max(s)}], t[Max(s)])]
    BY <1>1, <2>1, <2>2, <2>3
  <2> QED BY <2>4 DEF IsAhead
<1> DEFINE f == CHOOSE g : IsAhead(g, t)
<1>5. IsAhead(f, t) /\ Ahead(t) = f[1..n]
  BY <1>1, <1>4 DEF Ahead
<1> HIDE DEF f, G
<1>6. f[{}] \in Nat
  BY <1>5 DEF IsAhead
<1>7. ASSUME NEW k \in 1..n, f[1..(k - 1)] \in Nat PROVE f[1..k] \in Nat
  <2>1. 1..k \in SUBSET (1..n) /\ k \in 1..k /\ k \in Nat \ {0}
    BY <1>1
  <2>2. Max(1..k) = k /\ (1..k) \ {k} = 1..(k - 1)
    BY <2>1, MaxOfPrefix
  <2>3. f[1..k] = AheadStep(f[(1..k) \ {Max(1..k)}], t[Max(1..k)])
    BY <1>1, <1>5, <2>1 DEF IsAhead
  <2> QED BY <1>2, <1>7, <2>2, <2>3
<1>8. f[1..n] \in Nat
  BY <1>1, <1>6, <1>7, TableKeeps
<1> QED BY <1>5, <1>8

LEMMA RoundIn ==
  ASSUME NEW n \in Nat, NEW d \in Nat, d > 0
  PROVE  Round(n, d) \in Nat
<1>1. n \div d \in Nat
  OBVIOUS
<1> QED BY <1>1 DEF Round

\* The times of a word in an audio of ms, if there is audio.
Local(ms) == IF ms > 0 THEN 0..ms ELSE Nat

LEMMA LocalFacts ==
  ASSUME NEW ms \in Nat
  PROVE  /\ Local(ms) \in SUBSET Nat
         /\ \A a, b \in Local(ms) : Larger(a, b) \in Local(ms)
BY DEF Local, Larger

LEMMA ScaledIn ==
  ASSUME NEW t \in Nat, NEW ms \in Nat, NEW span \in Nat, span > 0
  PROVE  Scaled(t, ms, span) \in Local(ms)
<1>1. CASE ms > 0
  <2>1. t * ms \in Nat
    OBVIOUS
  <2>2. Round(t * ms, span) \in Nat
    BY <2>1, RoundIn
  <2> QED BY <1>1, <2>2 DEF Scaled, Smaller, Local
<1>2. CASE ~(ms > 0)
  BY <1>2 DEF Scaled, Local
<1> QED BY <1>1, <1>2

LEMMA RescaleIn ==
  ASSUME NEW words \in Seq(Timed(Nat)), NEW ms \in Nat, NEW i \in 1..Len(words)
  PROVE  /\ DOMAIN Rescale(words, ms) = 1..Len(words)
         /\ Rescale(words, ms)[i] \in Timed(Local(ms))
<1> DEFINE span == Larger(Last(words).end, 1)
           ahead == Ahead(SubSeq(words, 1, i - 1))
<1>1. words # <<>> /\ i \in DOMAIN words /\ words[i] \in Timed(Nat)
  OBVIOUS
<1>2. span \in Nat /\ span > 0
  <2>1. Last(words).end \in Nat
    BY <1>1, LastTimed
  <2> QED BY <2>1, LargerIn
<1>3. ahead \in Nat
  <2>1. SubSeq(words, 1, i - 1) \in Seq(Timed(Nat))
    OBVIOUS
  <2> QED BY <2>1, AheadIn
<1>4. words[i].start \in Nat /\ words[i].end \in Nat
  BY <1>1 DEF Timed
<1> HIDE DEF span, ahead
<1>5. Larger(words[i].start, ahead) \in Nat /\ Larger(words[i].end, ahead) \in Nat
  BY <1>3, <1>4, LargerIn
<1>6. /\ Scaled(Larger(words[i].start, ahead), ms, span) \in Local(ms)
      /\ Scaled(Larger(words[i].end, ahead), ms, span) \in Local(ms)
  BY <1>2, <1>5, ScaledIn
<1>7. ScaledStart(words, i, ms) \in Local(ms)
  BY <1>6 DEF ScaledStart, span, ahead
<1>8. ScaledEnd(words, i, ms) \in Local(ms)
  <2>1. ScaledEnd(words, i, ms) =
          Larger(Scaled(Larger(words[i].end, ahead), ms, span), ScaledStart(words, i, ms))
    BY DEF ScaledEnd, span, ahead
  <2> QED BY <1>6, <1>7, <2>1, LocalFacts
<1>9. /\ DOMAIN Rescale(words, ms) = DOMAIN words
      /\ Rescale(words, ms)[i] =
           [start |-> ScaledStart(words, i, ms), end |-> ScaledEnd(words, i, ms)]
  BY <1>1, RescaleTable
<1> QED BY <1>7, <1>8, <1>9 DEF Timed

LEMMA ProportionalIn ==
  ASSUME NEW text \in Texts, NEW ms \in Nat, NEW i \in 1..Len(text)
  PROVE  /\ DOMAIN Proportional(text, ms) = 1..Len(text)
         /\ Proportional(text, ms)[i] \in Timed(0..ms)
<1> DEFINE weights == [j \in DOMAIN text |-> text[j] + 1]
           cursor(j) == Round(ms * SumTo(weights, j), SumTo(weights, Len(text)))
           x == IF ms = 0 THEN [start |-> 0, end |-> 0]
                ELSE [start |-> Smaller(cursor(i - 1), ms),
                      end |-> Smaller(Larger(cursor(i), cursor(i - 1) + 1), ms)]
<1>1. text \in Seq(Nat) /\ Len(text) \in Nat /\ i \in Nat /\ DOMAIN text = 1..Len(text)
      /\ Len(text) > 0
  <2>1. text \in Seq(Nat \ {0})
    BY TextsAssumption
  <2> QED BY <2>1
<1>2. weights \in Seq(Nat) /\ Len(weights) = Len(text) /\ weights[Len(text)] > 0
  <2>1. \A j \in 1..Len(text) : text[j] + 1 \in Nat /\ text[j] + 1 > 0
    BY <1>1
  <2> QED BY <1>1, <2>1
<1> HIDE DEF weights
<1>3. ASSUME NEW j \in 0..Len(text) PROVE cursor(j) \in Nat
  <2>1. SumTo(weights, j) \in Nat
    BY <1>1, <1>2, <1>3, SumIn
  <2>2. SumTo(weights, Len(text)) \in Nat /\ SumTo(weights, Len(text)) > 0
    BY <1>1, <1>2, SumIn
  <2>3. PICK a : a = ms * SumTo(weights, j)
    OBVIOUS
  <2>4. a \in Nat
    <3>1. PICK b : b = SumTo(weights, j)
      OBVIOUS
    <3> QED BY <2>1, <2>3, <3>1
  <2> QED BY <2>2, <2>3, <2>4, RoundIn
<1>4. cursor(i - 1) \in Nat /\ cursor(i) \in Nat
  BY <1>1, <1>3
<1>5. x \in Timed(0..ms)
  <2>1. PICK a, b : a = cursor(i - 1) /\ b = cursor(i)
    OBVIOUS
  <2>2. Smaller(a, ms) \in 0..ms /\ Smaller(Larger(b, a + 1), ms) \in 0..ms
    BY <1>4, <2>1 DEF Smaller, Larger
  <2>3. x = IF ms = 0 THEN [start |-> 0, end |-> 0]
            ELSE [start |-> Smaller(a, ms), end |-> Smaller(Larger(b, a + 1), ms)]
    BY <2>1
  <2> HIDE DEF x
  <2> QED BY <2>2, <2>3 DEF Timed
<1>6. DOMAIN Proportional(text, ms) = DOMAIN text /\ Proportional(text, ms)[i] = x
  BY <1>1 DEF Proportional, weights
<1> QED BY <1>1, <1>5, <1>6

-----------------------------------------------------------------------------
(* The word timings of a segment.                                          *)

\* Where the words of a voice may be: the audio, or from Start on if it has marks and no audio.
Span(marks, ms) == IF marks # <<>> /\ ms = 0 THEN {b \in Nat : b >= Start} ELSE Start..(Start + ms)

LEMMA AlignIn ==
  ASSUME NEW text \in Texts, NEW marks \in Seq(Timed(Int)), NEW ms \in Nat
  PROVE  Align(text, marks, ms) \in Following(Span(marks, ms))
<1> DEFINE words == IF marks # <<>> THEN Rescale(EnforceMonotonic(marks), ms)
                    ELSE Proportional(text, ms)
           B == Span(marks, ms)
           L == IF marks # <<>> THEN Local(ms) ELSE 0..ms
<1>1. Start \in Nat /\ B \in SUBSET Nat /\ L \in SUBSET Nat
  BY SceneAssumption, LocalFacts DEF Span
<1>2. \A a \in L : a + Start \in B
  BY <1>1 DEF Span, Local
<1>3. \A a, b \in B : Larger(a, b) \in B
  BY <1>1 DEF Larger
<1>4. PICK n \in Nat : DOMAIN words = 1..n /\ \A i \in 1..n : words[i] \in Timed(L)
  <2>1. CASE marks # <<>>
    <3>1. ASSUME NEW i \in 1..Len(marks) PROVE Fits(marks[i], Nat)
      <4>1. marks[i] \in Timed(Int)
        OBVIOUS
      <4>2. marks[i].start \in Int /\ marks[i].end \in Int
        BY <4>1 DEF Timed
      <4> QED BY <4>1, <4>2 DEF Fits, Larger, Timed
    <3>2. EnforceMonotonic(marks) \in Following(Nat)
      BY <3>1, MonoIn
    <3>3. PICK w : w = EnforceMonotonic(marks)
      OBVIOUS
    <3>4. w \in Seq(Timed(Nat))
      BY <3>2, <3>3 DEF Following
    <3>5. DOMAIN Rescale(w, ms) = 1..Len(w)
      BY <3>4, RescaleTable
    <3>6. \A i \in 1..Len(w) : Rescale(w, ms)[i] \in Timed(Local(ms))
      BY <3>4, RescaleIn
    <3>7. words = Rescale(w, ms) /\ L = Local(ms) /\ Len(w) \in Nat
      BY <2>1, <3>3, <3>4
    <3> HIDE DEF words, L
    <3> QED BY <3>5, <3>6, <3>7
  <2>2. CASE marks = <<>>
    <3>1. Len(text) \in Nat /\ 1 \in 1..Len(text)
      BY TextsAssumption, EmptySeq
    <3>2. /\ DOMAIN Proportional(text, ms) = 1..Len(text)
          /\ \A i \in 1..Len(text) : Proportional(text, ms)[i] \in Timed(0..ms)
      BY <3>1, ProportionalIn
    <3>3. words = Proportional(text, ms) /\ L = 0..ms
      BY <2>2
    <3> HIDE DEF words, L
    <3> QED BY <3>1, <3>2, <3>3
  <2> QED BY <2>1, <2>2
<1> HIDE DEF words, L
<1>5. DOMAIN Shift(words) = 1..n
  BY <1>4 DEF Shift
<1>6. ASSUME NEW i \in 1..n PROVE Fits(Shift(words)[i], B)
  <2>1. words[i].start \in L /\ words[i].end \in L
    BY <1>4 DEF Timed
  <2>2. PICK w : w = Shift(words)[i]
    OBVIOUS
  <2>3. w = [start |-> words[i].start + Start, end |-> words[i].end + Start]
    BY <1>4, <2>2 DEF Shift
  <2>4. w.start \in B /\ w.end \in B /\ w.start \in Nat /\ w \in [start: Int, end: Int]
    <3>1. w.start = words[i].start + Start /\ w.end = words[i].end + Start
      BY <2>3
    <3>2. w.start \in B /\ w.end \in B
      BY <1>2, <2>1, <3>1
    <3> HIDE DEF B
    <3>3. w.start \in Nat /\ w.end \in Nat
      BY <1>1, <3>2
    <3>4. w \in [start: Int, end: Int]
      BY <2>3, <3>1, <3>3
    <3> QED BY <3>2, <3>3, <3>4
  <2>5. Larger(w.start, 0) = w.start
    BY <2>4 DEF Larger
  <2> HIDE DEF B
  <2> QED BY <1>3, <2>2, <2>4, <2>5 DEF Fits
<1>7. EnforceMonotonic(Shift(words)) \in Following(B)
  BY <1>1, <1>5, <1>6, MonoIn
<1> QED BY <1>7 DEF Align, words

-----------------------------------------------------------------------------
(* The timings, the numbers of attempts and the stored audio.              *)

RowTimed ==
  /\ row.words \in IF row.tried = <<>> THEN Following(Scene)
                   ELSE Following(Span(row.best.voice.marks, Fitted(row.best.voice.ms)))
  /\ row.tried # <<>> => row.best \in Attempts
  /\ Len(row.tried) <= MaxIterations

\* The loop goes on only while there are attempts left.
Tried(w) ==
  /\ Len(w.tried) <= MaxIterations
  /\ w.pc \in {"synthesize", "rewrite"} => Len(w.tried) < MaxIterations

Counted == edits \in 0..MaxEdits /\ faults \in 0..MaxFaults
AudioOK == audio \in [text: Texts, ms: Nat] \cup {Unvoiced}
TimedInv == RowTimed /\ (\A r \in Replicas : Tried(work[r])) /\ Counted /\ AudioOK

LEMMA FittedIn ==
  ASSUME NEW ms \in Nat
  PROVE  Fitted(ms) \in Nat /\ (Fitted(ms) = 0 => ms = 0)
BY SceneAssumption DEF Fitted

LEMMA TimedStarts == Init => TimedInv
<1> SUFFICES ASSUME Init PROVE TimedInv
  OBVIOUS
<1>1. PICK text \in Texts :
        row = [text |-> text, words |-> SynthesizeWords(text), flagged |-> FALSE,
               best |-> NoAttempt, tried |-> <<>>]
  BY DEF Init
<1>2. row.words = SynthesizeWords(text) /\ row.tried = <<>>
  BY <1>1
<1>3. MaxIterations \in Nat /\ MaxIterations > 0 /\ MaxEdits \in Nat /\ MaxFaults \in Nat
  BY BoundsAssumption
<1>4. RowTimed
  BY <1>2, <1>3, TimingIn DEF RowTimed
<1>5. \A r \in Replicas : Tried(work[r])
  BY <1>3, IdleOK DEF Init, Tried
<1>6. Counted /\ AudioOK
  BY <1>3 DEF Init, Counted, AudioOK
<1> QED BY <1>4, <1>5, <1>6 DEF TimedInv

LEMMA RowTimedKept ==
  ASSUME NarrationInv, RowTimed, Next, \A r \in Replicas : ~Record(r)
  PROVE  RowTimed'
<1>1. RowOK
  BY DEF NarrationInv, Shape
<1>2. row'.words = row.words /\ row'.tried = row.tried /\ row'.best = row.best
  <2>1. CASE UpdateTranscript
    <3>1. PICK text \in Texts : row' = [row EXCEPT !.text = text]
      BY <2>1 DEF UpdateTranscript
    <3>2. row' = [text |-> text, words |-> row.words, flagged |-> row.flagged,
                  best |-> row.best, tried |-> row.tried]
      BY <1>1, <3>1 DEF RowOK
    <3> QED BY <3>2
  <2>2. CASE RegenerateSegment
    <3>1. row' = [text |-> row.text, words |-> row.words, flagged |-> FALSE,
                  best |-> row.best, tried |-> row.tried]
      BY <1>1, <2>2 DEF RegenerateSegment, RowOK
    <3> QED BY <3>1
  <2>3. CASE UNCHANGED row
    BY <2>3
  <2> QED BY <2>1, <2>2, <2>3 DEF Next, Take, Synthesize, Rewrite, Upload, Ack, DeadLetter, Crash,
             Disconnect, PublishEdit
<1> QED BY <1>2 DEF RowTimed

LEMMA RecordTimes ==
  ASSUME NarrationInv, TimedInv, NEW r \in Replicas, Record(r)
  PROVE  RowTimed'
<1> DEFINE w == work[r]
<1>1. WorkOK(w) /\ w.pc = "record" /\ Spoken(w) /\ Tried(w)
  BY DEF Record, At, NarrationInv, Shape, WorkOK, TimedInv
<1>2. w.best \in Attempts /\ w.best.text \in Texts /\ w.best.voice \in Voices
      /\ w.best.voice.ms \in Nat /\ w.tried # <<>>
  BY <1>1, VoiceFacts DEF Spoken
<1>3. w.best.voice.marks \in Seq(Timed(Int))
  BY <1>2, VoicesAssumption DEF Timed
<1>4. Fitted(w.best.voice.ms) \in Nat
  BY <1>2, FittedIn
<1>5. Align(w.best.text, w.best.voice.marks, Fitted(w.best.voice.ms))
        \in Following(Span(w.best.voice.marks, Fitted(w.best.voice.ms)))
  BY <1>2, <1>3, <1>4, AlignIn
<1>6. /\ row'.words = Align(w.best.text, w.best.voice.marks, Fitted(w.best.voice.ms))
      /\ row'.best = w.best /\ row'.tried = w.tried
  BY DEF Record, UpdateSegmentRecord
<1> HIDE DEF w
<1> QED BY <1>1, <1>2, <1>5, <1>6 DEF RowTimed, Tried

\* Whoever moves, the attempts stay within their limit.
LEMMA TriedKept ==
  ASSUME NarrationInv, TimedInv, Next
  PROVE  \A r \in Replicas : Tried(work'[r])
<1>1. /\ work \in [Replicas -> Job] /\ \A r \in Replicas : WorkOK(work[r]) /\ Tried(work[r])
      /\ MaxIterations \in Nat /\ MaxIterations > 0
  BY BoundsAssumption DEF NarrationInv, Shape, TimedInv
<1>2. ASSUME NEW r \in Replicas, NEW w, Tried(w), Moves(r, w)
      PROVE  \A q \in Replicas : Tried(work'[q])
  BY <1>1, <1>2 DEF Moves
<1>3. Tried(Idle)
  BY <1>1, IdleOK DEF Tried
<1>4. ASSUME NEW r \in Replicas, Take(r) PROVE \A q \in Replicas : Tried(work'[q])
  <2> DEFINE w == [Idle EXCEPT !.pc = "synthesize", !.held = TRUE,
                               !.msg = Head(queue), !.text = Head(queue)]
  <2>1. w.tried = <<>>
    BY IdleOK DEF Job
  <2>2. Moves(r, w)
    BY <1>4 DEF Take, Moves
  <2> HIDE DEF w
  <2>3. Tried(w)
    BY <1>1, <2>1 DEF Tried
  <2> QED BY <1>2, <2>2, <2>3
<1>5. ASSUME NEW r \in Replicas, Synthesize(r) PROVE \A q \in Replicas : Tried(work'[q])
  <2> DEFINE w == work[r]
  <2>1. PICK v \in Voices : \E best : Attempt(r, v, best, Len(w.tried) + 1 >= MaxIterations)
    BY <1>5 DEF Synthesize
  <2>2. PICK best : Attempt(r, v, best, Len(w.tried) + 1 >= MaxIterations)
    BY <2>1
  <2> DEFINE last == Len(w.tried) + 1 >= MaxIterations
             pc == IF v.score >= Threshold \/ last THEN "upload" ELSE "rewrite"
             u == [w EXCEPT !.tried = Append(@, v.score), !.best = best, !.pc = pc]
  <2>3. Moves(r, u)
    BY <1>1, <2>2 DEF Attempt, Moves
  <2>4. w \in Job /\ w.pc = "synthesize" /\ Len(w.tried) < MaxIterations /\ w.tried \in Seq(Nat)
    BY <1>1, <1>5 DEF Synthesize, At, WorkOK, Tried, Job
  <2>5. v.score \in Nat
    BY <2>1, VoicesAssumption
  <2>6. u.tried = Append(w.tried, v.score) /\ u.pc = pc
    BY <2>4 DEF Job
  <2>7. Len(u.tried) = Len(w.tried) + 1 /\ Len(w.tried) \in Nat
    BY <2>4, <2>5, <2>6, AppendProperties
  <2> HIDE DEF u
  <2>8. Tried(u)
    BY <1>1, <2>4, <2>6, <2>7 DEF Tried
  <2> QED BY <1>2, <2>3, <2>8
<1>6. ASSUME NEW r \in Replicas, NEW w, w = work[r], NEW pc, NEW u, Moves(r, u),
             u.tried = w.tried,
             u.pc \in {"synthesize", "rewrite"} => w.pc \in {"synthesize", "rewrite"}
      PROVE  \A q \in Replicas : Tried(work'[q])
  <2>1. Tried(u)
    BY <1>1, <1>6 DEF Tried
  <2> QED BY <1>2, <1>6, <2>1
<1>7. ASSUME NEW r \in Replicas, Rewrite(r) PROVE \A q \in Replicas : Tried(work'[q])
  <2> DEFINE w == work[r]
  <2>1. w \in Job /\ w.pc = "rewrite"
    BY <1>1, <1>7 DEF Rewrite, At, WorkOK
  <2>2. ASSUME NEW text, work' = [work EXCEPT ![r].text = text, ![r].pc = "synthesize"]
        PROVE  \A q \in Replicas : Tried(work'[q])
    <3>1. Moves(r, [w EXCEPT !.text = text, !.pc = "synthesize"])
      BY <1>1, <2>2 DEF Moves
    <3>2. [w EXCEPT !.text = text, !.pc = "synthesize"].tried = w.tried
      BY <2>1 DEF Job
    <3> QED BY <1>6, <2>1, <3>1, <3>2
  <2>3. CASE Goto(r, "upload")
    <3>1. Moves(r, [w EXCEPT !.pc = "upload"])
      BY <1>1, <2>3 DEF Goto, Moves
    <3>2. [w EXCEPT !.pc = "upload"].tried = w.tried /\ [w EXCEPT !.pc = "upload"].pc = "upload"
      BY <2>1 DEF Job
    <3> QED BY <1>6, <3>1, <3>2
  <2> QED BY <1>7, <2>2, <2>3 DEF Rewrite
<1>8. ASSUME NEW r \in Replicas, NEW pc \in {"record", "ack"}, Goto(r, pc)
      PROVE  \A q \in Replicas : Tried(work'[q])
  <2> DEFINE w == work[r]
  <2>1. w \in Job
    BY <1>1
  <2>2. Moves(r, [w EXCEPT !.pc = pc])
    BY <1>1, <1>8 DEF Goto, Moves
  <2>3. [w EXCEPT !.pc = pc].tried = w.tried /\ [w EXCEPT !.pc = pc].pc = pc
    BY <2>1 DEF Job
  <2> QED BY <1>6, <2>2, <2>3
<1>9. ASSUME NEW r \in Replicas, Disconnect(r) PROVE \A q \in Replicas : Tried(work'[q])
  <2> DEFINE w == work[r]
  <2>1. w \in Job
    BY <1>1
  <2>2. Moves(r, [w EXCEPT !.held = FALSE])
    BY <1>1, <1>9 DEF Disconnect, Moves
  <2>3. [w EXCEPT !.held = FALSE].tried = w.tried /\ [w EXCEPT !.held = FALSE].pc = w.pc
    BY <2>1 DEF Job
  <2> QED BY <1>6, <2>2, <2>3
<1>10. ASSUME NEW r \in Replicas, Ack(r) \/ DeadLetter(r) \/ Crash(r)
       PROVE  \A q \in Replicas : Tried(work'[q])
  <2>1. Moves(r, Idle)
    BY <1>10 DEF Moves, Ack, DeadLetter, Crash
  <2> QED BY <1>2, <1>3, <2>1
<1>11. CASE UNCHANGED work
  BY <1>1, <1>11
<1> QED BY <1>4, <1>5, <1>7, <1>8, <1>9, <1>10, <1>11
        DEF Next, Upload, Record, UpdateTranscript, RegenerateSegment, PublishEdit

LEMMA CountedKept ==
  ASSUME Counted, Next
  PROVE  Counted'
<1>1. MaxEdits \in Nat /\ MaxFaults \in Nat
  BY BoundsAssumption
<1>2. edits' = edits \/ (edits' = edits + 1 /\ edits < MaxEdits)
  BY DEF Next, Take, Synthesize, Rewrite, Upload, Record, Ack, DeadLetter, Crash, Disconnect,
         UpdateTranscript, RegenerateSegment, PublishEdit, Edits
<1>3. faults' = faults \/ (faults' = faults + 1 /\ faults < MaxFaults)
  BY DEF Next, Take, Synthesize, Rewrite, Upload, Record, Ack, DeadLetter, Crash, Disconnect,
         UpdateTranscript, RegenerateSegment, PublishEdit, Fault
<1> QED BY <1>1, <1>2, <1>3 DEF Counted

LEMMA AudioKept ==
  ASSUME NarrationInv, AudioOK, Next
  PROVE  AudioOK'
<1>1. ASSUME NEW r \in Replicas, Upload(r) PROVE AudioOK'
  <2>1. Spoken(work[r]) /\ audio' = Stored(work[r].best)
    BY <1>1 DEF Upload, At, NarrationInv, Shape, WorkOK
  <2>2. work[r].best.text \in Texts /\ Fitted(work[r].best.voice.ms) \in Nat
    BY <2>1, VoiceFacts, FittedIn DEF Spoken
  <2> QED BY <2>1, <2>2 DEF AudioOK, Stored
<1>2. CASE UNCHANGED audio
  BY <1>2 DEF AudioOK
<1> QED BY <1>1, <1>2 DEF Next, Take, Synthesize, Rewrite, Record, Ack, DeadLetter, Crash,
        Disconnect, UpdateTranscript, RegenerateSegment, PublishEdit

LEMMA TimedStep == NarrationInv /\ TimedInv /\ [Next]_vars => TimedInv'
<1> SUFFICES ASSUME NarrationInv, TimedInv, [Next]_vars PROVE TimedInv'
  OBVIOUS
<1>1. CASE UNCHANGED vars
  BY <1>1 DEF vars, TimedInv, RowTimed, Counted, AudioOK
<1>2. CASE Next
  <2>1. RowTimed'
    BY <1>2, RowTimedKept, RecordTimes DEF TimedInv
  <2> QED BY <1>2, <2>1, TriedKept, CountedKept, AudioKept DEF TimedInv
<1> QED BY <1>1, <1>2

LEMMA InTime == NarrationInv /\ TimedInv => WordsFollow
<1> SUFFICES ASSUME NarrationInv, TimedInv PROVE WordsFollow
  OBVIOUS
<1> DEFINE w == row.words
           voice == row.best.voice
           span == IF row.tried = <<>> THEN Target ELSE Fitted(voice.ms)
           B == IF row.tried = <<>> THEN Scene ELSE Span(voice.marks, Fitted(voice.ms))
<1>1. Start \in Nat /\ Target \in Nat
  BY SceneAssumption
<1>2. w \in Following(B)
  BY DEF TimedInv, RowTimed
<1>3. /\ span \in Nat /\ B \in SUBSET Nat /\ \A b \in B : b >= Start
      /\ \A b \in B : b <= Start + span \/ (voice.ms = 0 /\ voice.marks # <<>>)
  <2>1. CASE row.tried = <<>>
    BY <1>1, <2>1 DEF Scene
  <2>2. CASE row.tried # <<>>
    <3>1. Fitted(voice.ms) \in Nat /\ (Fitted(voice.ms) = 0 => voice.ms = 0)
      BY <2>2, VoiceFacts, FittedIn DEF TimedInv, RowTimed
    <3>2. span = Fitted(voice.ms) /\ B = Span(voice.marks, Fitted(voice.ms))
      BY <2>2
    <3> HIDE DEF span, B
    <3> QED BY <1>1, <3>1, <3>2 DEF Span
  <2> QED BY <2>1, <2>2
<1> HIDE DEF B, span
<1>4. ASSUME NEW i \in DOMAIN w PROVE w[i].start \in B /\ w[i].end \in B
  <2>1. w[i] \in Timed(B)
    BY <1>2, <1>4 DEF Following
  <2> QED BY <2>1 DEF Timed
<1>5. \A i \in DOMAIN w :
        /\ Start <= w[i].start /\ w[i].start <= w[i].end
        /\ w[i].end <= Start + span \/ (voice.ms = 0 /\ voice.marks # <<>>)
        /\ i > 1 => w[i - 1].end <= w[i].start
  BY <1>2, <1>3, <1>4 DEF Following
<1>6. w \in Timings
  <2>1. w \in Seq(Timed(B)) /\ \A i \in DOMAIN w : w[i] \in Timed(Nat)
    <3>1. w \in Seq(Timed(B))
      BY <1>2 DEF Following
    <3>2. Timed(B) \subseteq Timed(Nat)
      BY <1>3 DEF Timed
    <3> QED BY <3>1, <3>2
  <2>2. w \in Seq(Timed(Nat))
    BY <2>1
  <2> QED BY <2>2 DEF Timings, Timed
<1>7. TypeOK
  <2>1. /\ RowOK /\ queue \in Seq(Texts)
        /\ together \in BOOLEAN /\ dead \in BOOLEAN /\ editing \in BOOLEAN
    BY DEF NarrationInv, Shape
  <2>2. ASSUME NEW r \in Replicas
        PROVE  /\ work[r].pc \in {"idle", "synthesize", "rewrite", "upload", "record", "ack"}
               /\ work[r].held => work[r].msg \in Texts
               /\ Len(work[r].tried) <= MaxIterations
    <3>1. WorkOK(work[r]) /\ Tried(work[r])
      BY DEF NarrationInv, Shape, TimedInv
    <3>2. work[r].pc \in Pcs
      BY <3>1 DEF WorkOK, Job
    <3> QED BY <3>1, <3>2 DEF WorkOK, Tried, Pcs
  <2> QED BY <1>6, <2>1, <2>2 DEF TypeOK, RowOK, TimedInv, RowTimed, Counted, AudioOK
<1> QED BY <1>5, <1>7 DEF WordsFollow, span

\* The words of the row follow one another from the start of the scene to the end of what they
\* time, for every text, every voice and all marks, in the validator's whole milliseconds as in
\* the rescaled and the proportional ones (_synthesize_words, align_words_to_segment); and every
\* state is type correct, with no more attempts than the limit.
THEOREM WordsFollowHolds == Spec => []WordsFollow
<1>1. Spec => []TimedInv
  BY NarrationInvariant, TimedStarts, TimedStep, PTL DEF Spec
<1> QED BY <1>1, NarrationInvariant, InTime, PTL

=============================================================================
