-------------------------- MODULE TranscriptEditor --------------------------
(***************************************************************************)
(* The transcript editor of the job page: the texts on screen, the         *)
(* baseline they are compared with, and the requests that save them.  An   *)
(* editor lives from one mount to the next unmount; a request of it lives  *)
(* on.                                                                     *)
(*                                                                         *)
(* A text stands for the texts of all segments; 0 is the empty list of     *)
(* segments.                                                               *)
(***************************************************************************)
EXTENDS Naturals

CONSTANT MaxText  \* bound: texts typed or written by the pipeline
ASSUME TextAssumption == MaxText \in Nat \ {0}

VARIABLES
  ed,     \* the mounted editor: localSegments, baselineRef, saving
  saves,  \* requests of handleSave: the editor's number, the text sent, and the reply
  mounts  \* editors mounted so far

Texts == 0..MaxText
NoEditor == [mounted |-> FALSE, local |-> 0, baseline |-> 0, saving |-> FALSE]
Save == [by: Nat, sent: Texts, state: {"sent", "stored", "failed"}]

\* dirtyIds: a segment without a baseline is never dirty.
Dirty == ed.mounted /\ ed.baseline # 0 /\ ed.local # ed.baseline

\* The editor's own button; the page's save bar and Ctrl+S do not look at `saving`.
SaveEnabled == Dirty /\ ~ed.saving

updateText(t) == ed' = [ed EXCEPT !.local = t]

\* The effect on [segments]: whatever was on screen is replaced.
Shows(e, segments) == [e EXCEPT !.local = segments, !.baseline = segments]

\* The baseline moved when the request is sent.
eagerSave(e, n) ==
  IF e.saving THEN ed' = e /\ UNCHANGED saves
  ELSE /\ ed' = [e EXCEPT !.saving = TRUE, !.baseline = e.local]
       /\ saves' = saves \cup {[by |-> n, sent |-> e.local, state |-> "sent"]}

\* handleSave up to its await.
handleSave(e, n) ==
  IF e.saving THEN ed' = e /\ UNCHANGED saves
  ELSE /\ ed' = [e EXCEPT !.saving = TRUE]
       /\ saves' = saves \cup {[by |-> n, sent |-> e.local, state |-> "sent"]}

\* Mounting shows the segments and runs the effects of saveSignal and revertSignal, which
\* are numbers from the start: the transcript is sent back before anything was typed.
Mount(segments) ==
  /\ mounts' = mounts + 1
  /\ handleSave(Shows([NoEditor EXCEPT !.mounted = TRUE], segments), mounts')

=============================================================================
