------------------------------- MODULE Upstream -------------------------------
(***************************************************************************)
(* One proxied service: its circuit breaker, the registry that chooses an  *)
(* instance by turns and polls their health, and the requests in flight.   *)
(*                                                                         *)
(* The gateway runs one callback at a time; requests and health checks     *)
(* overlap because an answer is worked out in an instance, travels, and is *)
(* recorded later.  The check of a request against the breaker and the     *)
(* choice of its instance happen in one turn of the event loop.            *)
(***************************************************************************)
EXTENDS Naturals, FiniteSets

CONSTANTS
    N,           \* instances of the service, numbered in configuration order
    Requests,    \* requests that may be in flight at once
    Threshold,   \* CIRCUIT_FAILURE_THRESHOLD (5 in the code)
    MaxChanges   \* bound on how often an instance breaks or recovers

ASSUME UpstreamAssumption ==
    /\ N \in Nat \ {0}
    /\ Threshold \in Nat \ {0}
    /\ MaxChanges \in Nat

Instances == 1..N

VARIABLES
    state,      \* circuit.state
    failures,   \* circuit.failures; what exceeds Threshold makes no difference
    elapsed,    \* has CIRCUIT_RESET_TIMEOUT_MS passed since circuit.openedAt?
    status,     \* what the registry holds of each instance
    cursor,     \* service.cursor
    flight,     \* per request: idle, sent to an instance, or an answer on its way
    target,     \* the instance a sent request is at, else 0
    check,      \* per instance: the health check's answer on its way
    working,    \* does the instance answer? (environment)
    changes,    \* how often that changed
    waits       \* per instance, picks since its last one or since health changed (history)

circuit  == <<state, failures, elapsed>>
registry == <<status, cursor, waits>>
requests == <<flight, target>>
vars == <<circuit, registry, requests, check, working, changes>>

TypeOK ==
    /\ state \in {"closed", "open", "half-open"}
    /\ failures \in 0..Threshold
    /\ elapsed \in BOOLEAN
    /\ status \in [Instances -> {"UP", "DOWN"}]
    /\ cursor \in 0..N-1
    /\ flight \in [Requests -> {"idle", "sent", "success", "failure"}]
    /\ target \in [Requests -> 0..N]
    /\ \A r \in Requests : flight[r] = "sent" => target[r] \in Instances
    /\ check \in [Instances -> {"none", "ok", "failed"}]
    /\ working \in [Instances -> BOOLEAN]
    /\ changes \in 0..MaxChanges
    /\ waits \in [Instances -> Nat]

Init ==
    /\ state = "closed" /\ failures = 0 /\ elapsed = FALSE
    /\ status = [i \in Instances |-> "UP"]
    /\ cursor = 0
    /\ flight = [r \in Requests |-> "idle"]
    /\ target = [r \in Requests |-> 0]
    /\ check = [i \in Instances |-> "none"]
    /\ working \in [Instances -> BOOLEAN]
    /\ changes = 0
    /\ waits = [i \in Instances |-> 0]

-----------------------------------------------------------------------------
(* CircuitBreakerService.                                                  *)

\* canRequest: what it answers, and the state it leaves.
AdmitsNoProbe == state = "closed" \/ (state = "open" /\ elapsed)
Admits == state \in {"closed", "half-open"} \/ (state = "open" /\ elapsed)

HalfOpenForgets ==
    /\ Admits
    /\ state' = IF state = "open" THEN "half-open" ELSE state
    /\ failures' = IF state = "open" THEN 0 ELSE failures
    /\ UNCHANGED elapsed

canRequest ==
    /\ Admits
    /\ state' = IF state = "open" THEN "half-open" ELSE state
    /\ UNCHANGED <<failures, elapsed>>

recordSuccess == state' = "closed" /\ failures' = 0 /\ elapsed' = FALSE

Capped(n) == IF n < Threshold THEN n ELSE Threshold

recordFailure ==
    /\ failures' = Capped(failures + 1)
    /\ IF failures' >= Threshold
       THEN state' = "open" /\ elapsed' = FALSE
       ELSE UNCHANGED <<state, elapsed>>

ResetTimeoutPasses ==
    /\ state = "open" /\ ~elapsed
    /\ elapsed' = TRUE
    /\ UNCHANGED <<state, failures, registry, requests, check, working, changes>>

-----------------------------------------------------------------------------
(* ServiceRegistry.                                                        *)

Up == {i \in Instances : status[i] = "UP"}
Candidates == IF Up # {} THEN Up ELSE Instances

\* candidates[cursor % candidates.length].
Selected ==
    CHOOSE i \in Candidates :
        Cardinality({k \in Candidates : k < i}) = cursor % Cardinality(Candidates)

AdvanceOverAll == cursor' = (cursor + 1) % N
AdvanceWithoutEnd == cursor' = cursor + 1
Advance == cursor' = (cursor + 1) % Cardinality(Candidates)

nextTarget ==
    /\ Advance
    /\ waits' = [i \in Instances |-> IF i \in Candidates \ {Selected} THEN waits[i] + 1 ELSE 0]
    /\ UNCHANGED status

\* An instance answers its health check, or lets it time out.
HealthAnswer(i) ==
    /\ check[i] = "none"
    /\ check' = [check EXCEPT ![i] = IF working[i] THEN "ok" ELSE "failed"]
    /\ UNCHANGED <<circuit, registry, requests, working, changes>>

SetStatus(i, new) ==
    /\ status' = [status EXCEPT ![i] = new]
    /\ waits' = IF new = status[i] THEN waits ELSE [k \in Instances |-> 0]

DownForGood(i) ==
    /\ check[i] # "none"
    /\ IF check[i] = "ok" THEN UNCHANGED <<status, waits>> ELSE SetStatus(i, "DOWN")
    /\ check' = [check EXCEPT ![i] = "none"]
    /\ UNCHANGED <<circuit, cursor, requests, working, changes>>

\* The rest of checkInstance.  A round of checks is over before the next one
\* begins (1.5 s against 10 s), so an instance has one check at a time.
checkInstance(i) ==
    /\ check[i] # "none"
    /\ SetStatus(i, IF check[i] = "ok" THEN "UP" ELSE "DOWN")
    /\ check' = [check EXCEPT ![i] = "none"]
    /\ UNCHANGED <<circuit, cursor, requests, working, changes>>

-----------------------------------------------------------------------------
(* The proxied route.  A request refused by the breaker changes nothing.   *)

Forward(r) ==
    /\ flight[r] = "idle"
    /\ canRequest
    /\ nextTarget
    /\ flight' = [flight EXCEPT ![r] = "sent"]
    /\ target' = [target EXCEPT ![r] = Selected]
    /\ UNCHANGED <<check, working, changes>>

\* An instance works out an answer; one that does not work fails the
\* connection.  A working one may answer 5xx.
Serve(r) ==
    /\ flight[r] = "sent"
    /\ \E answer \in IF working[target[r]] THEN {"success", "failure"} ELSE {"failure"} :
           flight' = [flight EXCEPT ![r] = answer]
    /\ target' = [target EXCEPT ![r] = 0]
    /\ UNCHANGED <<circuit, registry, check, working, changes>>

Finish(r) ==
    /\ flight' = [flight EXCEPT ![r] = "idle"]
    /\ target' = [target EXCEPT ![r] = 0]
    /\ UNCHANGED <<registry, check, working, changes>>

proxyRes(r) == flight[r] = "success" /\ recordSuccess /\ Finish(r)

\* proxyRes with a 5xx, or the error callback.
proxyError(r) == flight[r] = "failure" /\ recordFailure /\ Finish(r)

\* The caller disconnects: neither callback runs.
Abandon(r) == flight[r] # "idle" /\ Finish(r) /\ UNCHANGED circuit

Change(i) ==
    /\ changes < MaxChanges
    /\ changes' = changes + 1
    /\ working' = [working EXCEPT ![i] = ~@]
    /\ UNCHANGED <<circuit, registry, requests, check>>

-----------------------------------------------------------------------------
Next ==
    \/ ResetTimeoutPasses
    \/ \E i \in Instances : HealthAnswer(i) \/ checkInstance(i) \/ Change(i)
    \/ \E r \in Requests : Forward(r) \/ Serve(r) \/ proxyRes(r) \/ proxyError(r) \/ Abandon(r)

Spec == Init /\ [][Next]_vars

\* Time passes, and the poller checks every instance again and again.  Nothing
\* is assumed of callers, nor that an instance ever answers a request: the
\* proxy sets no timeout.
Fairness ==
    /\ WF_vars(ResetTimeoutPasses)
    /\ \A i \in Instances : WF_vars(HealthAnswer(i)) /\ WF_vars(checkInstance(i))

FairSpec == Spec /\ Fairness

-----------------------------------------------------------------------------
(* Properties.                                                             *)

\* A half-open circuit is one failure from opening again, however many
\* requests it let through and in whatever order they are answered: canRequest
\* keeps the failures that opened it, and only a success clears them.
HalfOpenIsOneStrike == state # "closed" => failures = Threshold

\* While the known health does not change, an instance the registry may choose
\* is chosen within as many requests as there are to choose from, also when
\* the cursor was left by a larger or smaller set (nextTarget).
TurnsAreFair == \A i \in Candidates : waits[i] < Cardinality(Candidates)

\* The breaker never shuts a service out for good, whatever its answers and
\* though the requests let through on trial may never be answered (canRequest).
NeverShutForGood == []<>Admits

\* The registry comes to know of an instance that fails for good, and of one
\* that recovers for good, although it may record outdated answers (poll).
HealthIsLearned ==
    \A i \in Instances :
        /\ <>[]working[i] => <>[](status[i] = "UP")
        /\ <>[]~working[i] => <>[](status[i] = "DOWN")
==============================================================================
