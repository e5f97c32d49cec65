----------------------------- MODULE RateLimiter -----------------------------
(***************************************************************************)
(* The rate limiter of the gateways, for one identity (a user id or an IP  *)
(* address; identities share nothing).  The gateways count requests in one *)
(* Redis key with three commands, INCR, PEXPIRE for whoever found the key  *)
(* absent, and PTTL; a gateway that gets an error from any of them counts  *)
(* the request in a bucket of its own memory instead.                      *)
(*                                                                         *)
(* Time is counted down: the key and the buckets hold what is left of      *)
(* their windows, and a counted request the time since it was counted.     *)
(***************************************************************************)
EXTENDS Integers, FiniteSets

CONSTANTS
    Gateways,     \* gateway processes that share the Redis
    Requests,     \* requests in flight or counted less than a window ago
    MaxRequests,  \* RATE_LIMIT_MAX
    Window,       \* RATE_LIMIT_WINDOW_MS, in ticks
    MaxFaults     \* bound on Redis errors and gateway crashes

NoTtl == -1
Redis == "redis"
Nobody == "nobody"

ASSUME LimiterAssumption ==
    /\ Redis \notin Gateways
    /\ MaxRequests \in Nat \ {0}
    /\ Window \in Nat \ {0}
    /\ MaxFaults \in Nat

VARIABLES
    usesRedis,\* is options.redis given? (not to the limiter of the auth routes)
    count,    \* the Redis key's value, 0 when there is no key
    ttl,      \* what PTTL answers for the key, NoTtl when it does not expire
    buckets,  \* per gateway: count (0: no entry) and what is left until resetAt
    req,      \* per request: step, gateway, counter that took it, age
    orphaned, \* was a PEXPIRE lost, so that the key never expires? (history)
    faults    \* errors and crashes so far

redis == <<usesRedis, count, ttl>>
vars == <<usesRedis, count, ttl, buckets, req, orphaned, faults>>

\* A request that is nowhere.
NoRequest == [pc |-> "none", gw |-> Nobody, source |-> Nobody, over |-> FALSE, age |-> 0]

\* Above MaxRequests every count is treated alike, so counting stops there.
Bump(n) == IF n > MaxRequests THEN n ELSE n + 1

TypeOK ==
    /\ usesRedis \in BOOLEAN
    /\ count \in 0..MaxRequests + 1
    /\ ttl \in NoTtl..Window
    /\ buckets \in [Gateways -> [count : 0..MaxRequests + 1, left : 0..Window]]
    /\ req \in [Requests ->
          [pc : {"none", "pexpire", "pttl", "admitted", "rejected"},
           gw : Gateways \cup {Nobody}, source : Gateways \cup {Redis, Nobody},
           over : BOOLEAN, age : 0..Window]]
    /\ orphaned \in BOOLEAN
    /\ faults \in 0..MaxFaults

Init ==
    /\ usesRedis \in BOOLEAN
    /\ count = 0 /\ ttl = NoTtl
    /\ buckets = [g \in Gateways |-> [count |-> 0, left |-> 0]]
    /\ req = [r \in Requests |-> NoRequest]
    /\ orphaned = FALSE
    /\ faults = 0

-----------------------------------------------------------------------------
(* The middleware with Redis: one action per command.                      *)

Fault == faults < MaxFaults /\ faults' = faults + 1

OverLimitLate(n) == n > MaxRequests + 1
OverLimit(n) == n > MaxRequests

EachOfKey == TRUE
SecondOfKey == count = 1
FirstOfKey == count = 0

Incr(r, g) ==
    /\ usesRedis
    /\ req[r].pc = "none"
    /\ count' = Bump(count)
    /\ req' = [req EXCEPT ![r] =
          [pc |-> IF FirstOfKey THEN "pexpire" ELSE "pttl", gw |-> g, source |-> Redis,
           over |-> OverLimit(count + 1), age |-> 0]]
    /\ UNCHANGED <<usesRedis, ttl, buckets, orphaned, faults>>

Expire == ttl' = IF count > 0 THEN Window ELSE ttl

Pexpire(r) ==
    /\ req[r].pc = "pexpire"
    /\ Expire
    /\ req' = [req EXCEPT ![r] = [@ EXCEPT !.pc = "pttl"]]
    /\ UNCHANGED <<usesRedis, count, buckets, orphaned, faults>>

\* PTTL only feeds the reset header; then the count decides.
Pttl(r) ==
    /\ req[r].pc = "pttl"
    /\ req' = [req EXCEPT ![r] = [@ EXCEPT !.pc = IF req[r].over THEN "rejected" ELSE "admitted"]]
    /\ UNCHANGED <<redis, buckets, orphaned, faults>>

-----------------------------------------------------------------------------
(* The middleware without Redis, or after an error of it.                  *)

Current(g) == IF buckets[g].left > 0 THEN buckets[g] ELSE [count |-> 0, left |-> Window]

CountLocally(r, g) ==
    LET bucket == Current(g) IN
    /\ buckets' = [buckets EXCEPT ![g] = [count |-> Bump(bucket.count), left |-> bucket.left]]
    /\ req' = [req EXCEPT ![r] =
          [pc |-> IF OverLimit(bucket.count + 1) THEN "rejected" ELSE "admitted",
           gw |-> g, source |-> g, over |-> OverLimit(bucket.count + 1), age |-> 0]]

LocalOnly(r, g) ==
    /\ ~usesRedis
    /\ req[r].pc = "none"
    /\ CountLocally(r, g)
    /\ UNCHANGED <<redis, orphaned, faults>>

\* INCR fails: Redis may have counted the request all the same.
IncrFails(r, g) ==
    /\ usesRedis /\ req[r].pc = "none"
    /\ Fault
    /\ \/ UNCHANGED <<count, orphaned>>
       \/ count' = Bump(count) /\ orphaned' = (orphaned \/ count = 0)
    /\ CountLocally(r, g)
    /\ UNCHANGED <<usesRedis, ttl>>

\* PEXPIRE fails, before or after Redis set the expiry.
PexpireFails(r) ==
    /\ req[r].pc = "pexpire"
    /\ Fault
    /\ \/ Expire /\ UNCHANGED orphaned
       \/ orphaned' = TRUE /\ UNCHANGED ttl
    /\ CountLocally(r, req[r].gw)
    /\ UNCHANGED <<usesRedis, count>>

PttlFails(r) ==
    /\ req[r].pc = "pttl"
    /\ Fault
    /\ CountLocally(r, req[r].gw)
    /\ UNCHANGED <<redis, orphaned>>

-----------------------------------------------------------------------------
(* The sweeper, crashes and time.                                          *)

\* The interval timer drops entries whose window is over.
Expired(g) == buckets[g].left = 0

Sweep(g) ==
    /\ buckets[g].count > 0 /\ Expired(g)
    /\ buckets' = [buckets EXCEPT ![g] = [count |-> 0, left |-> 0]]
    /\ UNCHANGED <<redis, req, orphaned, faults>>

\* A gateway stops: its requests are gone, and what it counted in memory.
Crash(g) ==
    /\ Fault
    /\ buckets' = [buckets EXCEPT ![g] = [count |-> 0, left |-> 0]]
    /\ req' = [r \in Requests |->
          IF \/ req[r].gw = g /\ req[r].pc \in {"pexpire", "pttl"}
             \/ req[r].source = g
          THEN NoRequest ELSE req[r]]
    /\ orphaned' = (orphaned \/ \E r \in Requests : req[r].gw = g /\ req[r].pc = "pexpire")
    /\ UNCHANGED redis

Down(n) == IF n > 0 THEN n - 1 ELSE n

\* Redis deletes the key when its time is up.
Tick ==
    /\ count' = IF ttl = 1 THEN 0 ELSE count
    /\ ttl' = IF ttl = 1 THEN NoTtl ELSE Down(ttl)
    /\ buckets' = [g \in Gateways |-> [buckets[g] EXCEPT !.left = Down(@)]]
    /\ req' = [r \in Requests |->
          IF req[r].pc # "none" /\ req[r].age < Window
          THEN [req[r] EXCEPT !.age = @ + 1] ELSE req[r]]
    /\ UNCHANGED <<usesRedis, orphaned, faults>>

\* An answered request is of no more interest: rejected, or a window old.
Retire(r) ==
    /\ \/ req[r].pc = "rejected"
       \/ req[r].pc = "admitted" /\ req[r].age = Window
    /\ req' = [req EXCEPT ![r] = NoRequest]
    /\ UNCHANGED <<redis, buckets, orphaned, faults>>

-----------------------------------------------------------------------------

Next ==
    \/ \E r \in Requests, g \in Gateways :
          Incr(r, g) \/ LocalOnly(r, g) \/ IncrFails(r, g)
    \/ \E r \in Requests :
          Pexpire(r) \/ Pttl(r) \/ PexpireFails(r) \/ PttlFails(r) \/ Retire(r)
    \/ \E g \in Gateways : Sweep(g) \/ Crash(g)
    \/ Tick

\* A command sent to Redis is answered; time passes.  Nobody has to call.
Fairness ==
    /\ \A r \in Requests : WF_vars(Pexpire(r)) /\ WF_vars(Pttl(r))
    /\ WF_vars(Tick)

Spec == Init /\ [][Next]_vars
FairSpec == Spec /\ Fairness

-----------------------------------------------------------------------------
(* Properties.                                                             *)

\* Requests one counter took and let pass within the last window.
Passed(s) ==
    {r \in Requests : req[r].pc = "admitted" /\ req[r].source = s /\ req[r].age < Window}

\* Fixed windows let at most two of them fall into any interval as long as
\* one: no counter, Redis or a gateway's memory, lets more than twice
\* MaxRequests of the requests it counted in such an interval pass, however
\* slowly the three commands of different requests are answered (rateLimit.ts:41-89).
AtMostTwoWindows ==
    \A s \in Gateways \cup {Redis} : Cardinality(Passed(s)) <= 2 * MaxRequests

\* A key that does not expire still has the request that created it on its way
\* to PEXPIRE, or that PEXPIRE was lost with an error or a crash
\* (rateLimit.ts:44-47): nothing else leaves the counter without an end.
NoTtlIsAccounted ==
    count > 0 /\ ttl = NoTtl =>
        orphaned \/ \E r \in Requests : req[r].pc = "pexpire"

\* Every counter starts again and again, so that nobody who keeps calling is
\* rejected for good: calls do not extend the window they fall into.  The
\* exception is a Redis key whose PEXPIRE was lost, which stays for ever
\* (rateLimit.ts:44-47, 70-76).
CountersRestart ==
    /\ []<>(count = 0 \/ orphaned)
    /\ \A g \in Gateways : []<>(buckets[g].left = 0)

=============================================================================
