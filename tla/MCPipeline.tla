----------------------------- MODULE MCPipeline -----------------------------
(* Small pipelines for TLC: a source feeding a chain of filters.           *)
EXTENDS Pipeline

CONSTANTS source, filter, sink

Pair == {<<source, sink>>}
Chain == {<<source, filter>>, <<filter, sink>>}
Fork == {<<source, filter>>, <<source, sink>>}
=============================================================================
