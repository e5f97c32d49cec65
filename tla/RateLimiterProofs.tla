-------------------------- MODULE RateLimiterProofs --------------------------
(***************************************************************************)
(* Proofs about RateLimiter for any number of gateways and requests, any   *)
(* limit, any window, and any number of Redis errors and crashes.          *)
(***************************************************************************)
EXTENDS RateLimiter, FiniteSetTheorems, TLAPS

Sources == Gateways \cup {Redis}

\* The counters of Redis and of the gateways, seen alike.
Count(s) == IF s = Redis THEN count ELSE buckets[s].count
Left(s) == IF s = Redis THEN ttl ELSE buckets[s].left

\* What a request's step says of it, and that only a counter that counts
\* something has a window.
StepInv ==
    /\ \A r \in Requests :
          /\ req[r].pc = "admitted" => ~req[r].over
          /\ req[r].pc \in {"pexpire", "pttl"} => req[r].source = Redis /\ req[r].gw \in Gateways
    /\ count = 0 => ttl = NoTtl
    /\ \A g \in Gateways : buckets[g].count = 0 => buckets[g].left = 0

\* Requests that a counter took less than a window ago and that pass, or will.
Taken(s) ==
    {r \in Requests : /\ req[r].source = s /\ ~req[r].over /\ req[r].age < Window
                      /\ req[r].pc \in {"pexpire", "pttl", "admitted"}}

\* They were counted in the counter's present window, S, or before it, O: those
\* are as old as the present window at least.
Split(s, S, O) ==
    /\ IsFiniteSet(S) /\ IsFiniteSet(O)
    /\ S \cup O = Taken(s)
    /\ Cardinality(S) <= Count(s)
    /\ Cardinality(S) <= MaxRequests
    /\ Cardinality(O) <= MaxRequests
    /\ Count(s) > 0 /\ Left(s) # NoTtl => \A r \in O : req[r].age >= Window - Left(s)

WindowsInv ==
    \A s \in Sources : \E S \in SUBSET Requests, O \in SUBSET Requests : Split(s, S, O)

-----------------------------------------------------------------------------
(* Types.                                                                  *)

LEMMA BumpType == \A n \in 0..MaxRequests + 1 : Bump(n) \in 1..MaxRequests + 1
  BY LimiterAssumption DEF Bump

LEMMA InitType == Init => TypeOK /\ StepInv
<1> SUFFICES ASSUME Init PROVE TypeOK /\ StepInv
  OBVIOUS
<1>1. 0 \in 0..Window /\ 0 \in 0..MaxRequests + 1 /\ 0 \in 0..MaxFaults /\ NoTtl \in NoTtl..Window
  BY LimiterAssumption DEF NoTtl
<1>2. NoRequest \in [pc : {"none", "pexpire", "pttl", "admitted", "rejected"},
                    gw : Gateways \cup {Nobody}, source : Gateways \cup {Redis, Nobody},
                    over : BOOLEAN, age : 0..Window] /\ NoRequest.pc = "none"
  BY <1>1 DEF NoRequest
<1>3. TypeOK  BY <1>1, <1>2 DEF Init, TypeOK
<1>4. StepInv  BY <1>2 DEF Init, StepInv
<1> QED  BY <1>3, <1>4

LEMMA LocalType ==
    ASSUME TypeOK, StepInv, NEW r \in Requests, NEW g \in Gateways, CountLocally(r, g)
    PROVE  /\ buckets' \in [Gateways -> [count : 0..MaxRequests + 1, left : 0..Window]]
           /\ req' \in [Requests ->
                [pc : {"none", "pexpire", "pttl", "admitted", "rejected"},
                 gw : Gateways \cup {Nobody}, source : Gateways \cup {Redis, Nobody},
                 over : BOOLEAN, age : 0..Window]]
           /\ req'[r].pc \in {"admitted", "rejected"}
           /\ req'[r].pc = "admitted" => ~req'[r].over
           /\ req'[r].source = g /\ (~req'[r].over <=> Current(g).count + 1 <= MaxRequests)
           /\ buckets'[g].count = Bump(Current(g).count) /\ buckets'[g].left = Current(g).left
           /\ buckets'[g].count > 0
           /\ \A q \in Requests \ {r} : req'[q] = req[q]
           /\ \A h \in Gateways \ {g} : buckets'[h] = buckets[h]
<1> DEFINE bucket == Current(g)
<1>1. bucket \in [count : 0..MaxRequests + 1, left : 0..Window]
  BY LimiterAssumption DEF Current, TypeOK
<1>2. Bump(bucket.count) \in 1..MaxRequests + 1  BY <1>1, BumpType
<1>3. OverLimit(bucket.count + 1) \in BOOLEAN
      /\ (~OverLimit(bucket.count + 1) <=> bucket.count + 1 <= MaxRequests)
  BY <1>1, LimiterAssumption DEF OverLimit
<1>4. buckets' = [buckets EXCEPT ![g] = [count |-> Bump(bucket.count), left |-> bucket.left]]
  BY DEF CountLocally
<1>5. req' = [req EXCEPT ![r] =
          [pc |-> IF OverLimit(bucket.count + 1) THEN "rejected" ELSE "admitted",
           gw |-> g, source |-> g, over |-> OverLimit(bucket.count + 1), age |-> 0]]
  BY DEF CountLocally
<1>6. 0 \in 0..Window  BY LimiterAssumption
<1> HIDE DEF bucket
<1>7. /\ buckets' \in [Gateways -> [count : 0..MaxRequests + 1, left : 0..Window]]
      /\ buckets'[g].count = Bump(bucket.count) /\ buckets'[g].left = bucket.left
      /\ buckets'[g].count > 0
      /\ \A h \in Gateways \ {g} : buckets'[h] = buckets[h]
  BY <1>1, <1>2, <1>4, LimiterAssumption DEF TypeOK
<1>8. /\ req' \in [Requests ->
                [pc : {"none", "pexpire", "pttl", "admitted", "rejected"},
                 gw : Gateways \cup {Nobody}, source : Gateways \cup {Redis, Nobody},
                 over : BOOLEAN, age : 0..Window]]
      /\ req'[r].pc \in {"admitted", "rejected"}
      /\ req'[r].pc = "admitted" => ~req'[r].over
      /\ req'[r].source = g /\ (~req'[r].over <=> bucket.count + 1 <= MaxRequests)
      /\ \A q \in Requests \ {r} : req'[q] = req[q]
  BY <1>3, <1>5, <1>6 DEF TypeOK
<1> QED  BY <1>7, <1>8 DEF bucket

LEMMA ExpireType == ASSUME TypeOK, StepInv, Expire
                    PROVE  ttl' \in NoTtl..Window /\ (count = 0 => ttl' = NoTtl)
  BY LimiterAssumption DEF Expire, TypeOK, StepInv, NoTtl

LEMMA FaultType == ASSUME TypeOK, Fault PROVE faults' \in 0..MaxFaults
  BY LimiterAssumption DEF TypeOK, Fault

LEMMA StepTypes == ASSUME TypeOK, StepInv, [Next]_vars PROVE TypeOK' /\ StepInv'
<1> DEFINE Rec == [pc : {"none", "pexpire", "pttl", "admitted", "rejected"},
                   gw : Gateways \cup {Nobody}, source : Gateways \cup {Redis, Nobody},
                   over : BOOLEAN, age : 0..Window]
<1>0. 0 \in 0..Window /\ 0 \in 0..MaxRequests + 1 /\ NoTtl \in NoTtl..Window
  BY LimiterAssumption DEF NoTtl
<1>n. NoRequest \in Rec /\ NoRequest.pc = "none"  BY <1>0 DEF NoRequest
<1>1. ASSUME NEW r \in Requests, NEW g \in Gateways, Incr(r, g) PROVE TypeOK' /\ StepInv'
  <2>1. count' \in 1..MaxRequests + 1  BY <1>1, BumpType DEF Incr, TypeOK
  <2>2. OverLimit(count + 1) \in BOOLEAN  BY DEF OverLimit
  <2>3. [pc |-> IF FirstOfKey THEN "pexpire" ELSE "pttl", gw |-> g, source |-> Redis,
         over |-> OverLimit(count + 1), age |-> 0] \in Rec
    BY <2>2, <1>0
  <2>4. TypeOK'  BY <1>1, <2>1, <2>3 DEF Incr, TypeOK
  <2>5. StepInv'  BY <1>1, <2>1 DEF Incr, StepInv, TypeOK
  <2> QED  BY <2>4, <2>5
<1>2. ASSUME NEW r \in Requests, Pexpire(r) PROVE TypeOK' /\ StepInv'
  <2>1. TypeOK'  BY <1>2, ExpireType DEF Pexpire, TypeOK
  <2>2. StepInv'  BY <1>2, ExpireType DEF Pexpire, StepInv, TypeOK
  <2> QED  BY <2>1, <2>2
<1>3. ASSUME NEW r \in Requests, Pttl(r) PROVE TypeOK' /\ StepInv'
  <2>1. TypeOK'  BY <1>3 DEF Pttl, TypeOK, redis
  <2>2. StepInv'  BY <1>3 DEF Pttl, StepInv, TypeOK, redis
  <2> QED  BY <2>1, <2>2
<1>4. ASSUME NEW r \in Requests, NEW g \in Gateways, CountLocally(r, g),
             count' \in 0..MaxRequests + 1, ttl' \in NoTtl..Window,
             count' = 0 => ttl' = NoTtl,
             orphaned' \in BOOLEAN, faults' \in 0..MaxFaults, usesRedis' = usesRedis
      PROVE  TypeOK' /\ StepInv'
  <2>1. TypeOK'  BY <1>4, LocalType DEF TypeOK
  <2>2. \A q \in Requests :
           /\ req'[q].pc = "admitted" => ~req'[q].over
           /\ req'[q].pc \in {"pexpire", "pttl"} => req'[q].source = Redis /\ req'[q].gw \in Gateways
    <3> SUFFICES ASSUME NEW q \in Requests
                 PROVE  /\ req'[q].pc = "admitted" => ~req'[q].over
                        /\ req'[q].pc \in {"pexpire", "pttl"} =>
                              req'[q].source = Redis /\ req'[q].gw \in Gateways
      OBVIOUS
    <3>1. CASE q = r
      <4>1. req'[r].pc \in {"admitted", "rejected"} /\ (req'[r].pc = "admitted" => ~req'[r].over)
        BY <1>4, LocalType
      <4> QED  BY <4>1, <3>1
    <3>2. CASE q # r
      <4>1. req'[q] = req[q]  BY <1>4, <3>2, LocalType
      <4> QED  BY <4>1 DEF StepInv
    <3> QED  BY <3>1, <3>2
  <2>3. \A h \in Gateways : buckets'[h].count = 0 => buckets'[h].left = 0
    <3>1. /\ buckets'[g].count > 0
          /\ \A h \in Gateways \ {g} : buckets'[h] = buckets[h]
      BY <1>4, LocalType
    <3> QED  BY <3>1 DEF StepInv
  <2> QED  BY <1>4, <2>1, <2>2, <2>3 DEF StepInv
<1>5. ASSUME NEW r \in Requests, NEW g \in Gateways, LocalOnly(r, g) PROVE TypeOK' /\ StepInv'
  BY <1>4, <1>5 DEF LocalOnly, redis, TypeOK, StepInv
<1>6. ASSUME NEW r \in Requests, NEW g \in Gateways, IncrFails(r, g) PROVE TypeOK' /\ StepInv'
  <2>1. Bump(count) \in 1..MaxRequests + 1  BY BumpType DEF TypeOK
  <2>2. \/ count' = count /\ orphaned' = orphaned
        \/ count' = Bump(count) /\ orphaned' = (orphaned \/ count = 0)
    BY <1>6 DEF IncrFails
  <2>3. count' \in 0..MaxRequests + 1  BY <2>1, <2>2 DEF TypeOK
  <2>4. orphaned' \in BOOLEAN  BY <2>2 DEF TypeOK
  <2>5. ttl' = ttl /\ usesRedis' = usesRedis /\ CountLocally(r, g) /\ Fault
    BY <1>6 DEF IncrFails
  <2>6. count' = 0 => ttl' = NoTtl  BY <2>1, <2>2, <2>5 DEF StepInv
  <2>7. ttl' \in NoTtl..Window /\ faults' \in 0..MaxFaults  BY <2>5, FaultType DEF TypeOK
  <2> QED  BY <1>4, <2>3, <2>4, <2>5, <2>6, <2>7
<1>7. ASSUME NEW r \in Requests, PexpireFails(r) PROVE TypeOK' /\ StepInv'
  BY <1>4, <1>7, ExpireType, FaultType DEF PexpireFails, TypeOK, StepInv
<1>8. ASSUME NEW r \in Requests, PttlFails(r) PROVE TypeOK' /\ StepInv'
  BY <1>4, <1>8, FaultType DEF PttlFails, TypeOK, StepInv, redis
<1>9. ASSUME NEW g \in Gateways, Sweep(g) PROVE TypeOK' /\ StepInv'
  BY <1>0, <1>9 DEF Sweep, TypeOK, StepInv, redis
<1>10. ASSUME NEW g \in Gateways, Crash(g) PROVE TypeOK' /\ StepInv'
  <2>1. faults' \in 0..MaxFaults  BY <1>10, FaultType DEF Crash
  <2>2. req' \in [Requests -> Rec]
        /\ \A r \in Requests : req'[r] = req[r] \/ req'[r] = NoRequest
    BY <1>10, <1>n DEF Crash, TypeOK
  <2>3. TypeOK'  BY <1>0, <1>10, <2>1, <2>2 DEF Crash, TypeOK, redis
  <2>4. StepInv'  BY <1>10, <1>n, <2>2 DEF Crash, StepInv, redis, TypeOK
  <2> QED  BY <2>3, <2>4
<1>11. ASSUME Tick PROVE TypeOK' /\ StepInv'
  <2>1. \A g \in Gateways : Down(buckets[g].left) \in 0..Window
                             /\ (buckets[g].left = 0 => Down(buckets[g].left) = 0)
    BY LimiterAssumption DEF Down, TypeOK
  <2>2. buckets' \in [Gateways -> [count : 0..MaxRequests + 1, left : 0..Window]]
        /\ \A g \in Gateways : buckets'[g].count = buckets[g].count
                               /\ buckets'[g].left = Down(buckets[g].left)
    BY <1>11, <2>1 DEF Tick, TypeOK
  <2>3. req' \in [Requests -> Rec]
        /\ \A r \in Requests : /\ req'[r].pc = req[r].pc /\ req'[r].gw = req[r].gw
                                /\ req'[r].source = req[r].source /\ req'[r].over = req[r].over
    <3>1. \A r \in Requests : req[r] \in Rec  BY DEF TypeOK
    <3>2. \A r \in Requests : req[r].age < Window => req[r].age + 1 \in 0..Window
      BY <3>1, LimiterAssumption
    <3>3. req' = [r \in Requests |->
             IF req[r].pc # "none" /\ req[r].age < Window
             THEN [req[r] EXCEPT !.age = @ + 1] ELSE req[r]]
      BY <1>11 DEF Tick
    <3> QED  BY <3>1, <3>2, <3>3
  <2>4. count' \in 0..MaxRequests + 1 /\ ttl' \in NoTtl..Window /\ (count' = 0 => ttl' = NoTtl)
    BY <1>11, LimiterAssumption DEF Tick, TypeOK, StepInv, Down, NoTtl
  <2>5. TypeOK'  BY <1>11, <2>2, <2>3, <2>4 DEF Tick, TypeOK
  <2>6. StepInv'  BY <2>1, <2>2, <2>3, <2>4 DEF StepInv
  <2> QED  BY <2>5, <2>6
<1>12. ASSUME NEW r \in Requests, Retire(r) PROVE TypeOK' /\ StepInv'
  BY <1>12, <1>n DEF Retire, TypeOK, StepInv, redis
<1>13. CASE UNCHANGED vars  BY <1>13 DEF vars, TypeOK, StepInv
<1> QED
  BY <1>1, <1>2, <1>3, <1>5, <1>6, <1>7, <1>8, <1>9, <1>10, <1>11, <1>12, <1>13, Zenon DEF Next

\* Every reachable state is well-typed (rateLimit.ts:23-97), and a request
\* waiting for an answer of Redis is one that Redis counted.
THEOREM LimiterTypes == Spec => [](TypeOK /\ StepInv)
  BY InitType, StepTypes, PTL DEF Spec

-----------------------------------------------------------------------------
(* The end of the Redis counter.                                           *)

LEMMA StepAccounts ==
    ASSUME TypeOK, StepInv, NoTtlIsAccounted, [Next]_vars
    PROVE  NoTtlIsAccounted'
<1> SUFFICES ASSUME count' > 0, ttl' = NoTtl, ~orphaned'
             PROVE  \E r \in Requests : req'[r].pc = "pexpire"
  BY DEF NoTtlIsAccounted
<1> DEFINE Waiting == \E r \in Requests : req[r].pc = "pexpire"
<1>1. ASSUME NEW r \in Requests, NEW g \in Gateways, Incr(r, g)
      PROVE  \E q \in Requests : req'[q].pc = "pexpire"
  <2>1. CASE count = 0
    <3>1. req'[r].pc = "pexpire"  BY <1>1, <2>1 DEF Incr, FirstOfKey, TypeOK
    <3> QED  BY <3>1
  <2>2. CASE count # 0
    <3>1. Waiting  BY <1>1, <2>2 DEF Incr, NoTtlIsAccounted, TypeOK
    <3>2. PICK q \in Requests : req[q].pc = "pexpire"  BY <3>1
    <3>3. req'[q] = req[q]  BY <1>1, <3>2 DEF Incr, TypeOK
    <3> QED  BY <3>2, <3>3
  <2> QED  BY <2>1, <2>2
<1>2. ASSUME count' = count, ttl' = ttl, orphaned' = orphaned,
             \A q \in Requests : req[q].pc = "pexpire" => req'[q].pc = "pexpire"
      PROVE  \E q \in Requests : req'[q].pc = "pexpire"
  BY <1>2 DEF NoTtlIsAccounted
<1>3. ASSUME NEW r \in Requests, Pexpire(r)
      PROVE  \E q \in Requests : req'[q].pc = "pexpire"
  \* The key has an end now, or there is none.
  BY <1>3, LimiterAssumption DEF Pexpire, Expire, TypeOK, NoTtl
<1>4. ASSUME NEW r \in Requests, Pttl(r)
      PROVE  \E q \in Requests : req'[q].pc = "pexpire"
  BY <1>2, <1>4 DEF Pttl, TypeOK, redis
<1>5. ASSUME NEW r \in Requests, NEW g \in Gateways, CountLocally(r, g), req[r].pc # "pexpire"
      PROVE  \A q \in Requests : req[q].pc = "pexpire" => req'[q].pc = "pexpire"
  BY <1>5 DEF CountLocally, TypeOK
<1>6. ASSUME NEW r \in Requests, NEW g \in Gateways, LocalOnly(r, g)
      PROVE  \E q \in Requests : req'[q].pc = "pexpire"
  BY <1>2, <1>5, <1>6 DEF LocalOnly, redis
<1>7. ASSUME NEW r \in Requests, NEW g \in Gateways, IncrFails(r, g)
      PROVE  \E q \in Requests : req'[q].pc = "pexpire"
  <2>1. \A q \in Requests : req[q].pc = "pexpire" => req'[q].pc = "pexpire"
    BY <1>5, <1>7 DEF IncrFails
  <2>2. count > 0 /\ ttl = NoTtl /\ ~orphaned
    <3>1. \/ count' = count /\ orphaned' = orphaned
          \/ count' = Bump(count) /\ orphaned' = (orphaned \/ count = 0)
      BY <1>7 DEF IncrFails
    <3>2. ttl' = ttl  BY <1>7 DEF IncrFails
    <3>3. count \in 0..MaxRequests + 1  BY DEF TypeOK
    <3>4. count # 0
      <4>1. CASE count' = count  BY <4>1, <3>3, LimiterAssumption
      <4>2. CASE orphaned' = (orphaned \/ count = 0)  BY <4>2, Zenon
      <4> QED  BY <3>1, <4>1, <4>2
    <3>5. ~orphaned  BY <3>1, Zenon
    <3> QED  BY <3>2, <3>3, <3>4, <3>5
  <2> QED  BY <2>1, <2>2 DEF NoTtlIsAccounted
<1>8. ASSUME NEW r \in Requests, PexpireFails(r)
      PROVE  \E q \in Requests : req'[q].pc = "pexpire"
  BY <1>8, LimiterAssumption DEF PexpireFails, Expire, TypeOK, NoTtl
<1>9. ASSUME NEW r \in Requests, PttlFails(r)
      PROVE  \E q \in Requests : req'[q].pc = "pexpire"
  <2>1. req[r].gw \in Gateways  BY <1>9 DEF PttlFails, StepInv
  <2> QED  BY <1>2, <1>5, <1>9, <2>1 DEF PttlFails, redis
<1>10. ASSUME NEW g \in Gateways, Crash(g)
       PROVE  \E q \in Requests : req'[q].pc = "pexpire"
  <2>1. PICK q \in Requests : req[q].pc = "pexpire"
    BY <1>10 DEF Crash, redis, NoTtlIsAccounted, TypeOK
  <2>2. req[q].gw # g /\ req[q].source = Redis  BY <1>10, <2>1 DEF Crash, StepInv, TypeOK
  <2>3. req'[q] = req[q]  BY <1>10, <2>2, LimiterAssumption DEF Crash
  <2> QED  BY <2>1, <2>3
<1>11. ASSUME Tick
       PROVE  \E q \in Requests : req'[q].pc = "pexpire"
  <2>1. count > 0 /\ ttl = NoTtl /\ ~orphaned
    BY <1>11, LimiterAssumption DEF Tick, Down, TypeOK, NoTtl
  <2>2. PICK q \in Requests : req[q].pc = "pexpire"  BY <2>1 DEF NoTtlIsAccounted
  <2>3. req'[q].pc = req[q].pc  BY <1>11 DEF Tick, TypeOK
  <2> QED  BY <2>2, <2>3
<1>12. ASSUME NEW g \in Gateways, Sweep(g)
       PROVE  \E q \in Requests : req'[q].pc = "pexpire"
  BY <1>2, <1>12 DEF Sweep, redis
<1>13. ASSUME NEW r \in Requests, Retire(r)
       PROVE  \E q \in Requests : req'[q].pc = "pexpire"
  BY <1>2, <1>13 DEF Retire, redis, TypeOK
<1>14. CASE UNCHANGED vars  BY <1>2, <1>14 DEF vars
<1> QED
  BY <1>1, <1>3, <1>4, <1>6, <1>7, <1>8, <1>9, <1>10, <1>11, <1>12, <1>13, <1>14, Zenon DEF Next

\* Whatever the gateways and Redis do and however often they fail, a key that
\* never expires is one whose PEXPIRE is still to come or was lost
\* (rateLimit.ts:44-47).
THEOREM CounterEndIsAccounted == Spec => []NoTtlIsAccounted
<1>1. Init => NoTtlIsAccounted  BY DEF Init, NoTtlIsAccounted
<1> QED  BY <1>1, StepAccounts, LimiterTypes, PTL DEF Spec

-----------------------------------------------------------------------------
(* Two windows at most.                                                    *)

\* To split what a counter took it is enough to cover it.
LEMMA SplitOf ==
    ASSUME NEW s \in Sources, NEW A, NEW B, IsFiniteSet(A), IsFiniteSet(B),
           TypeOK', Taken(s)' \subseteq A \cup B,
           Cardinality(A) <= Count(s)', Cardinality(A) <= MaxRequests,
           Cardinality(B) <= MaxRequests,
           Count(s)' > 0 /\ Left(s)' # NoTtl =>
              \A r \in B \cap Taken(s)' : req'[r].age >= Window - Left(s)'
    PROVE  \E S \in SUBSET Requests, O \in SUBSET Requests : Split(s, S, O)'
<1> DEFINE S == A \cap Taken(s)'
           O == B \cap Taken(s)'
<1>1. Taken(s)' \subseteq Requests  BY DEF Taken
<1>2. IsFiniteSet(S) /\ Cardinality(S) <= Cardinality(A)  BY FS_Subset
<1>3. IsFiniteSet(O) /\ Cardinality(O) <= Cardinality(B)  BY FS_Subset
<1>4. Cardinality(A) \in Nat /\ Cardinality(B) \in Nat
      /\ Cardinality(S) \in Nat /\ Cardinality(O) \in Nat
  BY <1>2, <1>3, FS_CardinalityType
<1>5. PICK T : T = Taken(s)'  OBVIOUS
<1>6. PICK S1, O1 : S1 = A \cap T /\ O1 = B \cap T  OBVIOUS
<1>7. S1 = S /\ O1 = O  BY <1>5, <1>6
<1>8. Count(s)' \in Nat  BY LimiterAssumption DEF Count, TypeOK, Sources
<1>9. Cardinality(S1) <= Count(s)' /\ Cardinality(S1) <= MaxRequests /\ Cardinality(O1) <= MaxRequests
  BY <1>2, <1>3, <1>4, <1>7, <1>8, LimiterAssumption
<1>10. S1 \cup O1 = Taken(s)'  BY <1>5, <1>6
<1>11. Split(s, S1, O1)'
  BY <1>2, <1>3, <1>5, <1>6, <1>7, <1>9, <1>10 DEF Split
<1>12. S1 \in SUBSET Requests /\ O1 \in SUBSET Requests  BY <1>1, <1>5, <1>6
<1> QED  BY <1>11, <1>12

LEMMA InitWindows == Init => WindowsInv
<1> SUFFICES ASSUME Init, NEW s \in Sources
             PROVE  Split(s, {}, {})
  BY DEF WindowsInv
<1>1. Taken(s) = {}  BY DEF Init, Taken, NoRequest
<1>2. IsFiniteSet({}) /\ Cardinality({}) = 0  BY FS_EmptySet
<1>3. Count(s) = 0  BY DEF Init, Count, Sources
<1> QED  BY <1>1, <1>2, <1>3, LimiterAssumption DEF Split

\* Nothing to do where a counter takes no request and its window is the same
\* or a new one.
LEMMA StaysSplit ==
    ASSUME NEW s \in Sources, TypeOK, TypeOK', WindowsInv,
           Count(s)' >= Count(s), Taken(s)' \subseteq Taken(s),
           \A r \in Taken(s)' : req'[r].age = req[r].age,
           Count(s)' > 0 /\ Left(s)' # NoTtl =>
              Left(s)' = Window \/ (Count(s) > 0 /\ Left(s)' = Left(s))
    PROVE  \E S \in SUBSET Requests, O \in SUBSET Requests : Split(s, S, O)'
<1>1. PICK A \in SUBSET Requests, B \in SUBSET Requests : Split(s, A, B)
  BY DEF WindowsInv
<1>2. Cardinality(A) \in Nat /\ Count(s) \in Nat /\ Count(s)' \in Nat
  BY <1>1, FS_CardinalityType, LimiterAssumption DEF Split, Count, TypeOK, Sources
<1>3. Cardinality(A) <= Count(s)'  BY <1>1, <1>2 DEF Split
<1>4. Count(s)' > 0 /\ Left(s)' # NoTtl =>
              \A r \in B \cap Taken(s)' : req'[r].age >= Window - Left(s)'
  <2> SUFFICES ASSUME Count(s)' > 0, Left(s)' # NoTtl, NEW r \in B \cap Taken(s)'
               PROVE  req'[r].age >= Window - Left(s)'
    OBVIOUS
  <2>1. req'[r].age = req[r].age /\ req'[r].age \in Nat
    BY LimiterAssumption DEF Taken, TypeOK
  <2>2. CASE Left(s)' = Window  BY <2>1, <2>2, LimiterAssumption
  <2>3. CASE Count(s) > 0 /\ Left(s)' = Left(s)  BY <1>1, <2>1, <2>3 DEF Split
  <2> QED  BY <2>2, <2>3
<1>5. Taken(s)' \subseteq A \cup B /\ IsFiniteSet(A) /\ IsFiniteSet(B)
      /\ Cardinality(A) <= MaxRequests /\ Cardinality(B) <= MaxRequests
  BY <1>1 DEF Split
<1> QED  BY <1>3, <1>4, <1>5, SplitOf

\* A request counted by a gateway.
LEMMA LocalSplit ==
    ASSUME TypeOK, StepInv, WindowsInv, TypeOK', NEW r \in Requests, NEW g \in Gateways,
           CountLocally(r, g), req[r].pc \in {"none", "pexpire", "pttl"}
    PROVE  \E S \in SUBSET Requests, O \in SUBSET Requests : Split(g, S, O)'
<1>0. g \in Sources /\ g # Redis  BY LimiterAssumption DEF Sources
<1>1. PICK A \in SUBSET Requests, B \in SUBSET Requests : Split(g, A, B)
  BY <1>0 DEF WindowsInv
<1>2. /\ IsFiniteSet(A) /\ IsFiniteSet(B) /\ A \cup B = Taken(g)
      /\ Cardinality(A) \in Nat /\ Cardinality(B) \in Nat
      /\ Cardinality(A) <= buckets[g].count
      /\ Cardinality(A) <= MaxRequests /\ Cardinality(B) <= MaxRequests
      /\ buckets[g].count > 0 =>
            \A q \in B : req[q].age >= Window - buckets[g].left
  <2>1. buckets[g].left # NoTtl  BY DEF TypeOK, NoTtl
  <2> QED  BY <1>0, <1>1, <2>1, FS_CardinalityType DEF Split, Count, Left
<1>3. /\ req'[r].source = g /\ (~req'[r].over <=> Current(g).count + 1 <= MaxRequests)
      /\ buckets'[g].count = Bump(Current(g).count) /\ buckets'[g].left = Current(g).left
      /\ \A q \in Requests \ {r} : req'[q] = req[q]
  BY LocalType
<1>4. r \notin Taken(g)
  BY <1>0 DEF Taken, StepInv
<1>5. Taken(g)' \subseteq Taken(g) \cup {r} /\ (req'[r].over => Taken(g)' \subseteq Taken(g))
      /\ \A q \in Taken(g) : req'[q] = req[q]
  BY <1>3, <1>4 DEF Taken
<1>6. Count(g)' = buckets'[g].count /\ Left(g)' = buckets'[g].left
  BY <1>0 DEF Count, Left
<1>7. IsFiniteSet({r}) /\ Cardinality({r}) = 1  BY FS_Singleton
<1>8. buckets[g].count \in 0..MaxRequests + 1 /\ buckets[g].left \in 0..Window
      /\ MaxRequests \in Nat \ {0} /\ Window \in Nat \ {0}
  BY LimiterAssumption DEF TypeOK
<1>9. \A q \in Requests : req'[q].age \in Nat  BY LimiterAssumption DEF TypeOK
<1>10. CASE buckets[g].left = 0
  <2>1. Current(g).count = 0 /\ Current(g).left = Window  BY <1>10 DEF Current
  <2>2. buckets'[g].count = 1 /\ buckets'[g].left = Window
    BY <1>3, <1>8, <2>1 DEF Bump
  <2>3. Cardinality({r}) <= Count(g)' /\ Cardinality({r}) <= MaxRequests
    BY <1>6, <1>7, <1>8, <2>2
  <2>4. \A q \in Requests : req'[q].age >= Window - Left(g)'
    BY <1>6, <1>8, <1>9, <2>2
  <2>5. CASE buckets[g].count = 0
    <3>1. A = {}  BY <1>2, <2>5, FS_EmptySet
    <3>2. Taken(g)' \subseteq {r} \cup B  BY <1>2, <1>5, <3>1
    <3> QED  BY <1>0, <1>2, <1>7, <2>3, <2>4, <3>2, SplitOf
  <2>6. CASE buckets[g].count # 0
    <3>1. B = {}
      <4>1. \A q \in B : req[q].age >= Window  BY <1>2, <1>8, <1>10, <2>6
      <4>2. \A q \in B : req[q].age < Window  BY <1>2 DEF Taken
      <4>3. \A q \in B : req[q].age \in Nat  BY DEF TypeOK
      <4> QED  BY <1>8, <4>1, <4>2, <4>3
    <3>2. Taken(g)' \subseteq {r} \cup A  BY <1>2, <1>5, <3>1
    <3> QED  BY <1>0, <1>2, <1>7, <2>3, <2>4, <3>2, SplitOf
  <2> QED  BY <2>5, <2>6
<1>11. CASE buckets[g].left # 0
  <2>1. Current(g) = buckets[g]  BY <1>8, <1>11 DEF Current
  <2>2. buckets[g].count > 0  BY <1>8, <1>11 DEF StepInv
  <2>3. \A q \in B \cap Taken(g)' : req'[q].age >= Window - Left(g)'
    BY <1>2, <1>3, <1>5, <1>6, <2>1, <2>2
  <2>4. CASE req'[r].over
    <3>1. Cardinality(A) <= Count(g)'
      BY <1>2, <1>3, <1>6, <1>8, <2>1 DEF Bump
    <3>2. Taken(g)' \subseteq A \cup B  BY <1>2, <1>5, <2>4
    <3> QED  BY <1>0, <1>2, <2>3, <3>1, <3>2, SplitOf
  <2>5. CASE ~req'[r].over
    <3>1. buckets[g].count + 1 <= MaxRequests /\ Count(g)' = buckets[g].count + 1
      BY <1>3, <1>6, <1>8, <2>1, <2>5 DEF Bump
    <3>2. IsFiniteSet(A \cup {r}) /\ Cardinality(A \cup {r}) = Cardinality(A) + 1
      BY <1>2, <1>4, FS_AddElement
    <3>3. Cardinality(A \cup {r}) <= Count(g)' /\ Cardinality(A \cup {r}) <= MaxRequests
      BY <1>2, <1>8, <3>1, <3>2
    <3>4. Taken(g)' \subseteq (A \cup {r}) \cup B  BY <1>2, <1>5
    <3> QED  BY <1>0, <1>2, <2>3, <3>2, <3>3, <3>4, SplitOf
  <2> QED  BY <2>4, <2>5
<1> QED  BY <1>10, <1>11

\* A step that counts in a gateway's memory, for all the counters.
LEMMA LocalWindows ==
    ASSUME TypeOK, StepInv, WindowsInv, TypeOK', NEW r \in Requests, NEW g \in Gateways,
           CountLocally(r, g), req[r].pc \in {"none", "pexpire", "pttl"},
           count' >= count,
           count' > 0 /\ ttl' # NoTtl => ttl' = Window \/ (count > 0 /\ ttl' = ttl)
    PROVE  WindowsInv'
<1>1. /\ req'[r].source = g
      /\ \A q \in Requests \ {r} : req'[q] = req[q]
      /\ \A h \in Gateways \ {g} : buckets'[h] = buckets[h]
  BY LocalType
<1>2. ASSUME NEW s \in Sources
      PROVE  \E S \in SUBSET Requests, O \in SUBSET Requests : Split(s, S, O)'
  <2>1. CASE s = g  BY <2>1, LocalSplit
  <2>2. CASE s # g
    <3>1. Taken(s)' \subseteq Taken(s) /\ \A q \in Taken(s)' : req'[q].age = req[q].age
      BY <1>1, <2>2 DEF Taken
    <3>2. CASE s = Redis
      <4>1. Count(s) = count /\ Count(s)' = count' /\ Left(s) = ttl /\ Left(s)' = ttl'
        BY <3>2 DEF Count, Left
      <4> QED  BY <3>1, <4>1, StaysSplit
    <3>3. CASE s # Redis
      <4>1. Count(s) = buckets[s].count /\ Count(s)' = buckets[s].count
            /\ Left(s) = buckets[s].left /\ Left(s)' = buckets[s].left
        BY <1>1, <2>2, <3>3 DEF Count, Left, Sources
      <4>2. buckets[s].count \in Nat  BY <3>3, LimiterAssumption DEF Sources, TypeOK
      <4> QED  BY <3>1, <4>1, <4>2, StaysSplit
    <3> QED  BY <3>2, <3>3
  <2> QED  BY <2>1, <2>2
<1> QED  BY <1>2 DEF WindowsInv

\* A step that takes no request, for the counters that it leaves alone.
LEMMA OthersStay ==
    ASSUME TypeOK, TypeOK', WindowsInv, NEW s \in Sources,
           \A q \in Requests : req'[q].source = s /\ q \in Taken(s)' =>
                                   q \in Taken(s) /\ req'[q].age = req[q].age,
           Count(s)' = Count(s), Left(s)' = Left(s) \/ Left(s)' = Window
    PROVE  \E S \in SUBSET Requests, O \in SUBSET Requests : Split(s, S, O)'
<1>1. Count(s) \in Nat  BY LimiterAssumption DEF Count, TypeOK, Sources
<1>2. Taken(s)' \subseteq Taken(s) /\ \A q \in Taken(s)' : req'[q].age = req[q].age
  BY DEF Taken
<1>3. Count(s)' >= Count(s)  BY <1>1
<1>4. Count(s)' > 0 /\ Left(s)' # NoTtl =>
         Left(s)' = Window \/ (Count(s) > 0 /\ Left(s)' = Left(s))
  OBVIOUS
<1> QED  BY <1>2, <1>3, <1>4, StaysSplit

LEMMA IncrWindows ==
    ASSUME TypeOK, StepInv, WindowsInv, TypeOK', NEW r \in Requests, NEW g \in Gateways,
           Incr(r, g), NEW s \in Sources
    PROVE  \E S \in SUBSET Requests, O \in SUBSET Requests : Split(s, S, O)'
<1>1. /\ req[r].pc = "none" /\ req'[r].source = Redis /\ req'[r].over = OverLimit(count + 1)
      /\ req'[r].age = 0
      /\ \A q \in Requests \ {r} : req'[q] = req[q]
      /\ count' = Bump(count) /\ ttl' = ttl /\ buckets' = buckets
  BY DEF Incr, TypeOK
<1>2. r \notin Taken(s)  BY <1>1 DEF Taken
<1>3. count \in 0..MaxRequests + 1 /\ MaxRequests \in Nat \ {0} /\ Window \in Nat \ {0}
  BY LimiterAssumption DEF TypeOK
<1>4. CASE s # Redis
  <2>1. \A q \in Requests : req'[q].source = s /\ q \in Taken(s)' =>
                                q \in Taken(s) /\ req'[q].age = req[q].age
    BY <1>1, <1>4 DEF Taken
  <2>2. Count(s)' = Count(s) /\ Left(s)' = Left(s)  BY <1>1, <1>4 DEF Count, Left
  <2> QED  BY <2>1, <2>2, OthersStay
<1>5. CASE s = Redis
  <2>1. Count(s) = count /\ Count(s)' = count' /\ Left(s) = ttl /\ Left(s)' = ttl
    BY <1>1, <1>5 DEF Count, Left
  <2>2. Taken(s)' \subseteq Taken(s) \cup {r} /\ (req'[r].over => Taken(s)' \subseteq Taken(s))
        /\ \A q \in Taken(s) : req'[q] = req[q]
    BY <1>1, <1>2 DEF Taken
  <2>3. PICK A \in SUBSET Requests, B \in SUBSET Requests : Split(s, A, B)
    BY DEF WindowsInv
  <2>4. /\ IsFiniteSet(A) /\ IsFiniteSet(B) /\ A \cup B = Taken(s)
        /\ Cardinality(A) \in Nat /\ Cardinality(B) \in Nat
        /\ Cardinality(A) <= count
        /\ Cardinality(A) <= MaxRequests /\ Cardinality(B) <= MaxRequests
        /\ count > 0 /\ ttl # NoTtl => \A q \in B : req[q].age >= Window - ttl
    BY <2>1, <2>3, FS_CardinalityType DEF Split
  <2>5. count = 0 => ttl = NoTtl  BY DEF StepInv
  <2>6. Left(s)' # NoTtl => \A q \in B \cap Taken(s)' : req'[q].age >= Window - Left(s)'
    BY <1>3, <2>1, <2>2, <2>4, <2>5
  <2>7. CASE req'[r].over
    <3>1. Taken(s)' \subseteq A \cup B  BY <2>2, <2>4, <2>7
    <3>2. Cardinality(A) <= Count(s)'  BY <1>1, <1>3, <2>1, <2>4 DEF Bump
    <3> QED  BY <2>4, <2>6, <3>1, <3>2, SplitOf
  <2>8. CASE ~req'[r].over
    <3>1. ~OverLimit(count + 1)  BY <1>1, <2>8
    <3>2. count + 1 <= MaxRequests /\ Count(s)' = count + 1
      BY <1>1, <1>3, <2>1, <3>1 DEF OverLimit, Bump
    <3>3. IsFiniteSet(A \cup {r}) /\ Cardinality(A \cup {r}) = Cardinality(A) + 1
      BY <1>2, <2>4, FS_AddElement
    <3>4. Cardinality(A \cup {r}) <= Count(s)' /\ Cardinality(A \cup {r}) <= MaxRequests
      BY <1>3, <2>4, <3>2, <3>3
    <3>5. Taken(s)' \subseteq (A \cup {r}) \cup B  BY <2>2, <2>4
    <3> QED  BY <2>4, <2>6, <3>3, <3>4, <3>5, SplitOf
  <2> QED  BY <2>7, <2>8
<1> QED  BY <1>4, <1>5

\* Time passes: a window that ends makes its requests those of the last one.
LEMMA TickWindows ==
    ASSUME TypeOK, StepInv, WindowsInv, TypeOK', Tick, NEW s \in Sources
    PROVE  \E S \in SUBSET Requests, O \in SUBSET Requests : Split(s, S, O)'
<1>1. PICK A \in SUBSET Requests, B \in SUBSET Requests : Split(s, A, B)
  BY DEF WindowsInv
<1>2. /\ IsFiniteSet(A) /\ IsFiniteSet(B) /\ A \cup B = Taken(s)
      /\ Cardinality(A) \in Nat /\ Cardinality(B) \in Nat
      /\ Cardinality(A) <= Count(s)
      /\ Cardinality(A) <= MaxRequests /\ Cardinality(B) <= MaxRequests
      /\ Count(s) > 0 /\ Left(s) # NoTtl => \A q \in B : req[q].age >= Window - Left(s)
  BY <1>1, FS_CardinalityType DEF Split
<1>3. \A q \in Requests :
         /\ req'[q].pc = req[q].pc /\ req'[q].source = req[q].source /\ req'[q].over = req[q].over
         /\ req[q].pc # "none" /\ req[q].age < Window => req'[q].age = req[q].age + 1
         /\ req[q].age \in 0..Window
         /\ ~(req[q].age < Window) => req'[q].age = req[q].age
  BY DEF Tick, TypeOK
<1>4. Taken(s)' \subseteq Taken(s) /\ \A q \in Taken(s) : req'[q].age = req[q].age + 1
  <2>1. \A q \in Taken(s) : req'[q].age = req[q].age + 1  BY <1>3 DEF Taken
  <2>2. ASSUME NEW q \in Taken(s)' PROVE q \in Taken(s)
    <3>1. q \in Requests /\ req'[q].age < Window  BY DEF Taken
    <3>2. req[q].age < Window  BY <1>3, <3>1
    <3> QED  BY <1>3, <3>1, <3>2 DEF Taken
  <2> QED  BY <2>1, <2>2
<1>5. Window \in Nat \ {0} /\ MaxRequests \in Nat \ {0} /\ Count(s) \in 0..MaxRequests + 1
      /\ Left(s) \in NoTtl..Window /\ (Count(s) = 0 => Left(s) <= 0)
  BY LimiterAssumption DEF TypeOK, StepInv, Sources, Count, Left, NoTtl
<1>6. \/ Count(s)' = Count(s) /\ Left(s)' = Down(Left(s))
      \/ Left(s) = 1 /\ Count(s)' = 0
  <2>1. CASE s = Redis  BY <2>1 DEF Tick, Count, Left
  <2>2. CASE s # Redis
    <3>1. buckets'[s].count = buckets[s].count /\ buckets'[s].left = Down(buckets[s].left)
      BY <2>2 DEF Tick, TypeOK, Sources
    <3> QED  BY <2>2, <3>1 DEF Count, Left
  <2> QED  BY <2>1, <2>2
<1>7. \A q \in Requests : req[q].age \in Nat  BY <1>3, <1>5
<1>8. CASE Count(s)' = Count(s) /\ Left(s)' = Down(Left(s))
  <2>1. ASSUME Count(s)' > 0, Left(s)' # NoTtl, NEW q \in B \cap Taken(s)'
        PROVE  req'[q].age >= Window - Left(s)'
    <3>1. Left(s) # NoTtl  BY <1>8, <2>1 DEF Down, NoTtl
    <3>2. req[q].age >= Window - Left(s)  BY <1>2, <1>8, <2>1, <3>1
    <3>3. req'[q].age = req[q].age + 1 /\ q \in Requests /\ req[q].age < Window
      BY <1>4 DEF Taken
    <3>4. Left(s) > 0  BY <1>5, <1>7, <3>1, <3>2, <3>3 DEF NoTtl
    <3>5. Left(s)' = Left(s) - 1  BY <1>8, <3>4 DEF Down
    <3> QED  BY <1>5, <1>7, <3>2, <3>3, <3>5 DEF NoTtl
  <2>2. Taken(s)' \subseteq A \cup B  BY <1>2, <1>4
  <2> QED  BY <1>2, <1>8, <2>1, <2>2, SplitOf
<1>9. CASE Left(s) = 1 /\ Count(s)' = 0
  <2>1. Count(s) > 0  BY <1>5, <1>9
  <2>2. Taken(s)' \subseteq A
    <3> SUFFICES ASSUME NEW q \in Taken(s)', q \in B PROVE FALSE
      BY <1>2, <1>4
    <3>1. req[q].age >= Window - 1  BY <1>2, <1>9, <2>1 DEF NoTtl
    <3>2. q \in Requests /\ req'[q].age < Window /\ req'[q].age = req[q].age + 1
      BY <1>4 DEF Taken
    <3> QED  BY <1>5, <1>7, <3>1, <3>2
  <2>3. IsFiniteSet({}) /\ Cardinality({}) = 0  BY FS_EmptySet
  <2>4. Cardinality({}) <= Count(s)' /\ Cardinality({}) <= MaxRequests
    BY <1>5, <1>9, <2>3
  <2>5. ~(Count(s)' > 0)  BY <1>9
  <2>6. Taken(s)' \subseteq {} \cup A  BY <2>2
  <2> QED  BY <1>2, <2>3, <2>4, <2>5, <2>6, SplitOf
<1> QED  BY <1>6, <1>8, <1>9

LEMMA StepWindows ==
    ASSUME TypeOK, StepInv, WindowsInv, TypeOK', [Next]_vars
    PROVE  WindowsInv'
<1> DEFINE Splits(s) == \E S \in SUBSET Requests, O \in SUBSET Requests : Split(s, S, O)'
<1>0. count \in Nat /\ count' \in Nat /\ Bump(count) >= count
  BY LimiterAssumption DEF TypeOK, Bump
<1>1. ASSUME NEW r \in Requests, NEW g \in Gateways, Incr(r, g), NEW s \in Sources
      PROVE  Splits(s)
  BY <1>1, IncrWindows
\* Steps that only move a request on.
<1>2. ASSUME NEW r \in Requests, NEW s \in Sources,
             req'[r].source = req[r].source, req'[r].over = req[r].over, req'[r].age = req[r].age,
             \/ req'[r].pc \notin {"pexpire", "pttl", "admitted"}
             \/ req[r].pc \in {"pexpire", "pttl"},
             \A q \in Requests \ {r} : req'[q] = req[q],
             Count(s)' = Count(s), Left(s)' = Left(s) \/ Left(s)' = Window
      PROVE  Splits(s)
  <2>1. \A q \in Requests : req'[q].source = s /\ q \in Taken(s)' =>
                                q \in Taken(s) /\ req'[q].age = req[q].age
    BY <1>2 DEF Taken
  <2> QED  BY <1>2, <2>1, OthersStay
<1>3. ASSUME NEW r \in Requests, Pexpire(r), NEW s \in Sources PROVE Splits(s)
  <2>1. Count(s)' = Count(s) /\ (Left(s)' = Left(s) \/ Left(s)' = Window)
    BY <1>3 DEF Pexpire, Expire, Count, Left
  <2>2. /\ req'[r].source = req[r].source /\ req'[r].over = req[r].over
        /\ req'[r].age = req[r].age /\ req[r].pc = "pexpire"
        /\ \A q \in Requests \ {r} : req'[q] = req[q]
    BY <1>3 DEF Pexpire, TypeOK
  <2> QED  BY <1>2, <2>1, <2>2
<1>4. ASSUME NEW r \in Requests, Pttl(r), NEW s \in Sources PROVE Splits(s)
  <2>1. Count(s)' = Count(s) /\ Left(s)' = Left(s)
    BY <1>4 DEF Pttl, Count, Left, redis
  <2>2. /\ req'[r].source = req[r].source /\ req'[r].over = req[r].over
        /\ req'[r].age = req[r].age /\ req[r].pc = "pttl"
        /\ \A q \in Requests \ {r} : req'[q] = req[q]
    BY <1>4 DEF Pttl, TypeOK
  <2> QED  BY <1>2, <2>1, <2>2
<1>5. ASSUME NEW r \in Requests, NEW g \in Gateways, LocalOnly(r, g) PROVE WindowsInv'
  <2>1. count' = count /\ ttl' = ttl /\ CountLocally(r, g) /\ req[r].pc = "none"
    BY <1>5 DEF LocalOnly, redis
  <2> QED  BY <1>0, <2>1, LocalWindows
<1>6. ASSUME NEW r \in Requests, NEW g \in Gateways, IncrFails(r, g) PROVE WindowsInv'
  <2>1. ttl' = ttl /\ CountLocally(r, g) /\ req[r].pc = "none"
        /\ (count' = count \/ count' = Bump(count))
    BY <1>6 DEF IncrFails
  <2>2. count = 0 => ttl = NoTtl  BY DEF StepInv
  <2> QED  BY <1>0, <2>1, <2>2, LocalWindows
<1>7. ASSUME NEW r \in Requests, PexpireFails(r) PROVE WindowsInv'
  <2>1. /\ CountLocally(r, req[r].gw) /\ req[r].pc = "pexpire" /\ count' = count
        /\ ttl' = ttl \/ ttl' = Window
    BY <1>7 DEF PexpireFails, Expire
  <2>2. req[r].gw \in Gateways  BY <2>1 DEF StepInv
  <2> QED  BY <1>0, <2>1, <2>2, LocalWindows
<1>8. ASSUME NEW r \in Requests, PttlFails(r) PROVE WindowsInv'
  <2>1. CountLocally(r, req[r].gw) /\ req[r].pc = "pttl" /\ count' = count /\ ttl' = ttl
    BY <1>8 DEF PttlFails, redis
  <2>2. req[r].gw \in Gateways  BY <2>1 DEF StepInv
  <2> QED  BY <1>0, <2>1, <2>2, LocalWindows
<1>9. ASSUME NEW g \in Gateways, Sweep(g), NEW s \in Sources PROVE Splits(s)
  <2>0. g # Redis  BY LimiterAssumption
  <2>1. \A q \in Taken(s)' : q \in Taken(s) /\ req'[q].age = req[q].age
    BY <1>9 DEF Sweep, Taken
  <2>2. CASE s # g
    <3>1. Count(s)' = Count(s) /\ Left(s)' = Left(s)
      BY <1>9, <2>0, <2>2 DEF Sweep, Count, Left, redis, TypeOK, Sources
    <3> QED  BY <2>1, <3>1, OthersStay
  <2>3. CASE s = g
    <3>1. PICK A \in SUBSET Requests, B \in SUBSET Requests : Split(s, A, B)
      BY DEF WindowsInv
    <3>2. Count(s) > 0 /\ Left(s) = 0 /\ Count(s)' = 0
      BY <1>9, <2>0, <2>3 DEF Sweep, Expired, Count, Left, TypeOK
    <3>3. \A q \in Taken(s) : req[q].age < Window /\ req[q].age \in Nat
      BY LimiterAssumption DEF Taken, TypeOK
    <3>4. B = {}
      <4>1. B \subseteq Taken(s) /\ \A q \in B : req[q].age >= Window - 0
        BY <3>1, <3>2 DEF Split, NoTtl
      <4> QED  BY <3>3, <4>1, LimiterAssumption
    <3>5. /\ Taken(s)' \subseteq {} \cup A /\ IsFiniteSet(A) /\ Cardinality(A) <= MaxRequests
      BY <2>1, <3>1, <3>4 DEF Split
    <3>6. IsFiniteSet({}) /\ Cardinality({}) <= Count(s)' /\ Cardinality({}) <= MaxRequests
      BY <3>2, FS_EmptySet, LimiterAssumption
    <3> QED  BY <3>2, <3>5, <3>6, SplitOf
  <2> QED  BY <2>2, <2>3
<1>10. ASSUME NEW g \in Gateways, Crash(g), NEW s \in Sources PROVE Splits(s)
  <2>0. g # Redis  BY LimiterAssumption
  <2>1. \A q \in Requests : \/ req'[q] = req[q] /\ req[q].source # g
                            \/ req'[q].pc = "none"
    BY <1>10 DEF Crash, NoRequest
  <2>2. Taken(s)' \subseteq Taken(s) /\ (s = g => Taken(s)' = {})
        /\ \A q \in Taken(s)' : req'[q].age = req[q].age
    BY <2>1 DEF Taken
  <2>3. CASE s # g
    <3>1. Count(s)' = Count(s) /\ Left(s)' = Left(s)
      BY <1>10, <2>0, <2>3 DEF Crash, Count, Left, redis, TypeOK, Sources
    <3> QED  BY <2>2, <3>1, OthersStay
  <2>4. CASE s = g
    <3>1. Count(s)' = 0  BY <1>10, <2>0, <2>4 DEF Crash, Count, TypeOK
    <3>2. IsFiniteSet({}) /\ Cardinality({}) <= Count(s)' /\ Cardinality({}) <= MaxRequests
      BY <3>1, FS_EmptySet, LimiterAssumption
    <3>3. Taken(s)' \subseteq {} \cup {}  BY <2>2, <2>4
    <3> QED  BY <3>1, <3>2, <3>3, SplitOf
  <2> QED  BY <2>3, <2>4
<1>11. ASSUME Tick, NEW s \in Sources PROVE Splits(s)
  BY <1>11, TickWindows
<1>12. ASSUME NEW r \in Requests, Retire(r), NEW s \in Sources PROVE Splits(s)
  <2>1. \A q \in Requests : req'[q] = req[q] \/ req'[q].pc = "none"
    BY <1>12 DEF Retire, TypeOK, NoRequest
  <2>2. \A q \in Taken(s)' : q \in Taken(s) /\ req'[q].age = req[q].age
    BY <2>1 DEF Taken
  <2>3. Count(s)' = Count(s) /\ Left(s)' = Left(s)
    BY <1>12 DEF Retire, Count, Left, redis
  <2> QED  BY <2>2, <2>3, OthersStay
<1>13. ASSUME UNCHANGED vars, NEW s \in Sources PROVE Splits(s)
  <2>1. Taken(s)' = Taken(s) /\ req' = req /\ Count(s)' = Count(s) /\ Left(s)' = Left(s)
    BY <1>13 DEF vars, Taken, Count, Left
  <2> QED  BY <2>1, OthersStay
<1>14. (\A s \in Sources : Splits(s)) => WindowsInv'  BY DEF WindowsInv
<1> HIDE DEF Splits
<1> QED
  BY <1>1, <1>3, <1>4, <1>5, <1>6, <1>7, <1>8, <1>9, <1>10, <1>11, <1>12, <1>13, <1>14,
     Zenon DEF Next

\* No counter lets more than two windows' worth of the requests it counted
\* within one window's length pass, for any number of gateways and however
\* their INCR, PEXPIRE and PTTL interleave (rateLimit.ts:41-89).
THEOREM TwoWindowsAtMost == Spec => []AtMostTwoWindows
<1>1. ASSUME TypeOK, StepInv, WindowsInv PROVE AtMostTwoWindows
  <2> SUFFICES ASSUME NEW s \in Gateways \cup {Redis}
               PROVE  Cardinality(Passed(s)) <= 2 * MaxRequests
    BY DEF AtMostTwoWindows
  <2>1. PICK A \in SUBSET Requests, B \in SUBSET Requests : Split(s, A, B)
    BY <1>1 DEF WindowsInv, Sources
  <2>2. /\ IsFiniteSet(A) /\ IsFiniteSet(B) /\ A \cup B = Taken(s)
        /\ Cardinality(A) \in Nat /\ Cardinality(B) \in Nat
        /\ Cardinality(A) <= MaxRequests /\ Cardinality(B) <= MaxRequests
    BY <2>1, FS_CardinalityType DEF Split
  <2>3. IsFiniteSet(A \cup B) /\ Cardinality(A \cup B) <= Cardinality(A) + Cardinality(B)
    <3>1. /\ IsFiniteSet(A \cup B) /\ IsFiniteSet(A \cap B)
          /\ Cardinality(A \cup B) =
                Cardinality(A) + Cardinality(B) - Cardinality(A \cap B)
      BY <2>2, FS_Union, FS_Intersection
    <3>2. Cardinality(A \cap B) \in Nat  BY <3>1, FS_CardinalityType
    <3> QED  BY <2>2, <3>1, <3>2
  <2>4. Passed(s) \subseteq A \cup B  BY <1>1, <2>2 DEF Passed, Taken, StepInv
  <2>5. Cardinality(Passed(s)) <= Cardinality(A \cup B)  BY <2>3, <2>4, FS_Subset
  <2>6. Cardinality(Passed(s)) \in Nat /\ Cardinality(A \cup B) \in Nat
    BY <2>3, <2>4, FS_Subset, FS_CardinalityType
  <2> QED  BY <2>2, <2>3, <2>5, <2>6, LimiterAssumption
<1>2. Spec => []WindowsInv
  BY InitWindows, StepWindows, LimiterTypes, PTL DEF Spec
<1> QED  BY <1>1, <1>2, LimiterTypes, PTL
=============================================================================
