----------------------------- MODULE MCJobPage -----------------------------
EXTENDS JobPage

\* The workers' stages around the first transcript and the two the client has no name for;
\* the Python services publish on a channel the hub does not read.
MCPath == <<"analyzing", "transcribed", "muxing", "muxed", "completed">>
MCHeard == {"muxing", "muxed", "completed"}
=============================================================================
