--------------------------- MODULE MCSessionTokens ---------------------------
(* Small instances of SessionTokens for TLC. *)
EXTENDS SessionTokens, TLC

CONSTANTS u1, q1, q2

\* Handlers are interchangeable.
HandlerSymmetry == Permutations(Requests)
==============================================================================
