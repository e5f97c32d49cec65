---------------------------- MODULE MCClientIntake ----------------------------
(* Small instances of ClientIntake for TLC. *)
EXTENDS ClientIntake

CONSTANTS d1
==============================================================================
