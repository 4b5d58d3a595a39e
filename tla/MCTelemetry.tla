---------------------------- MODULE MCTelemetry ----------------------------
(* Streams of Telemetry: two that are retried and one that is not.          *)
EXTENDS Telemetry

MCStreams == <<"ticks", "orders", "books">>
=============================================================================
