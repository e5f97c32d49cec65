------------------------------- MODULE MCUpstream -------------------------------
(* Small instances of Upstream for TLC. *)
EXTENDS Upstream

CONSTANTS r1, r2
=================================================================================
