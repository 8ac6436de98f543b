----------------------------- MODULE UpbitRestMC -----------------------------
(* Values of UpbitRest's constants for TLC that a configuration cannot write. *)
EXTENDS UpbitRest

Intervals == [g \in Groups |-> 2]
=============================================================================
