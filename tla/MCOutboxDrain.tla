--------------------------- MODULE MCOutboxDrain ----------------------------
(* Two replicas; the events outnumber a batch.                             *)
EXTENDS OutboxDrain
=============================================================================
