------------------------------ MODULE MCOutbox ------------------------------
(***************************************************************************)
(* Two events, two overlapping calls, one of which may roll back.          *)
(***************************************************************************)
EXTENDS OutboxPublisher
=============================================================================
