--------------------------- MODULE DeliveryContract ---------------------------
(***************************************************************************)
(* What the event backbone promises for one consumer, without queues,      *)
(* locks, attempts or faults: a published event stays pending until it is  *)
(* either acknowledged, which is allowed only once the consumer's handler  *)
(* has succeeded for its idempotency key, or failed; a failed event may be *)
(* queued again as a new job.                                              *)
(***************************************************************************)
CONSTANTS Jobs, Keys, KeyOf

VARIABLES phase,   \* the fate of each job
          handled  \* the keys whose handler has succeeded at least once

contractVars == <<phase, handled>>

ContractInit ==
    /\ phase = [j \in Jobs |-> "unpublished"]
    /\ handled = {}

\* A publisher, or a replay of a failed event, queues a job.
Queue(j) ==
    /\ phase[j] = "unpublished"
    /\ phase' = [phase EXCEPT ![j] = "pending"]
    /\ UNCHANGED handled

\* The handler succeeds for a key some published event carries.
Handle(k) ==
    /\ \E j \in Jobs : KeyOf[j] = k /\ phase[j] # "unpublished"
    /\ handled' = handled \cup {k}
    /\ UNCHANGED phase

Acknowledge(j) ==
    /\ phase[j] = "pending"
    /\ KeyOf[j] \in handled
    /\ phase' = [phase EXCEPT ![j] = "acknowledged"]
    /\ UNCHANGED handled

GiveUp(j) ==
    /\ phase[j] = "pending"
    /\ phase' = [phase EXCEPT ![j] = "failed"]
    /\ UNCHANGED handled

ContractNext ==
    \/ \E j \in Jobs : Queue(j) \/ Acknowledge(j) \/ GiveUp(j)
    \/ \E k \in Keys : Handle(k)

ContractSpec == ContractInit /\ [][ContractNext]_contractVars
===============================================================================
