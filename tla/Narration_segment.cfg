\* A 201 ms scene, two replicas, two attempts, an edit or regeneration and a fault.
SPECIFICATION Spec
CONSTANTS
  Texts <- MCTexts
  Replicas = {t1, t2}
  Start = 1000
  Target = 201
  Voices <- MCVoices
  Threshold = 2
  MaxIterations = 2
  MaxEdits = 1
  MaxFaults = 1
INVARIANTS WordsFollow UnflaggedIsGood TimedForItsAudio
CHECK_DEADLOCK FALSE
