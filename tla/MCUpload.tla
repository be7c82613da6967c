------------------------------ MODULE MCUpload ------------------------------
(* Instances of Upload for TLC.                                            *)
EXTENDS Upload

\* Three chunks of growing size.
ThreeChunks == [i \in {0, 1, 2} |-> i + 1]
=============================================================================
