----------------------------- MODULE MCPipeline -----------------------------
(* Instances of Pipeline for TLC.                                          *)
EXTENDS Pipeline

\* Which queue each consumer process reads.
TwoDeliveries ==
  [mux |-> "audio", delivery1 |-> "delivery", delivery2 |-> "delivery"]
MuxThenDelivery ==
  [mux |-> "audio", delivery |-> "delivery"]
AnalyzerTts ==
  [analyzer |-> "ingestion", tts1 |-> "transcript", tts2 |-> "transcript"]

NamesOf(serves) == DOMAIN serves
DeliveryWorkers == NamesOf(TwoDeliveries)
MuxAndDelivery == NamesOf(MuxThenDelivery)
PythonWorkers == NamesOf(AnalyzerTts)
=============================================================================
