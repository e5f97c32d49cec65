--------------------------- MODULE MCEventDelivery ---------------------------
(* Small instances of EventDelivery for TLC. *)
EXTENDS EventDelivery, TLC

CONSTANTS j1, j2, j3, w1, w2, w3, k1, k2

\* Three jobs of one event: published, published again, replayed.
OneKey == [j \in Jobs |-> k1]

\* Two jobs share a key and a third, which is malformed, has its own.
TwoKeys == [j \in Jobs |-> IF j = j3 THEN k2 ELSE k1]

\* Every job is an event of its own.
OwnKey == (j1 :> k1) @@ (j2 :> k2)

\* Jobs of one key and worker slots are interchangeable.
SameKeySymmetry == Permutations(Workers) \cup Permutations(Jobs)
==============================================================================
