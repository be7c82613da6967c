---------------------------- MODULE MCNarration ----------------------------
(* Instances of Narration for TLC.                                         *)
EXTENDS Narration

\* Three uneven words, and words so short beside the first that the scene has
\* no whole ms for each.
MCTexts == {<<1, 8, 3>>, <<500, 1, 1, 1, 1>>}
Mark(a, b) == [start |-> a, end |-> b]

\* For a scene of 201 ms: audio close enough to keep, with overlapping marks; a
\* bad reading that atempo fits; audio too long for atempo that scores well;
\* no audio, without marks and with.
MCVoices == {
  [ms |-> 202, marks |-> <<Mark(0, 90), Mark(60, 50), Mark(80, 260)>>, score |-> 2],
  [ms |-> 151, marks |-> <<>>, score |-> 1],
  [ms |-> 302, marks |-> <<Mark(4, 1), Mark(1, 5)>>, score |-> 2],
  [ms |-> 0, marks |-> <<>>, score |-> 0],
  [ms |-> 0, marks |-> <<Mark(0, 5), Mark(3, 9)>>, score |-> 0]}
=============================================================================
