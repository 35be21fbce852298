------------------------- MODULE MCMetricsReporter -------------------------
(* Instances of MetricsReporter for TLC. *)
EXTENDS MetricsReporter

\* The first power-up finds the ring full; the second meets what the first left on the card.
MCMaxSessions == <<3, 1>>
MCMaxSamples == <<1, 0>>
=============================================================================
