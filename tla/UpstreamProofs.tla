---------------------------- MODULE UpstreamProofs ----------------------------
(***************************************************************************)
(* Proofs about Upstream for any threshold, any number of instances and of *)
(* requests in flight: the circuit breaker first, then the turns of the    *)
(* registry, which rest on arithmetic and on counting the candidates.      *)
(***************************************************************************)
EXTENDS Upstream, Integers, FiniteSetTheorems, TLAPS

\* The breaker's own types, and its inductive invariant: failures are cleared
\* only together with the state, so a circuit that is not closed keeps those
\* that opened it.
CircuitInv ==
    /\ state \in {"closed", "open", "half-open"}
    /\ failures \in 0..Threshold
    /\ HalfOpenIsOneStrike

\* The three methods of CircuitBreakerService that write the circuit, and the
\* passing of its timeout.
CircuitStep ==
    canRequest \/ recordSuccess \/ recordFailure
    \/ (UNCHANGED <<state, failures>>)

LEMMA CircuitStepKeeps ==
    ASSUME CircuitInv, CircuitStep
    PROVE  CircuitInv'
<1> USE UpstreamAssumption DEF CircuitInv, HalfOpenIsOneStrike
<1>1. CASE canRequest
  BY <1>1 DEF canRequest, Admits
<1>2. CASE recordSuccess
  BY <1>2 DEF recordSuccess
<1>3. CASE recordFailure
  <2>1. failures + 1 <= Threshold \/ failures = Threshold
    OBVIOUS
  <2>2. failures' = IF failures + 1 < Threshold THEN failures + 1 ELSE Threshold
    BY <1>3 DEF recordFailure, Capped
  <2>3. CASE failures + 1 < Threshold
    <3>1. state' = state /\ failures' = failures + 1
      BY <1>3, <2>2, <2>3 DEF recordFailure
    <3>2. state = "closed"
      BY <2>3
    <3> QED  BY <2>3, <3>1, <3>2
  <2>4. CASE ~(failures + 1 < Threshold)
    <3>1. failures' = Threshold /\ state' = "open"
      BY <1>3, <2>2, <2>4 DEF recordFailure
    <3> QED  BY <3>1
  <2> QED  BY <2>3, <2>4
<1>4. CASE UNCHANGED <<state, failures>>
  BY <1>4
<1> QED  BY <1>1, <1>2, <1>3, <1>4 DEF CircuitStep

\* Every step of the gateway, its upstreams and its callers is one of those.
LEMMA StepsOfTheCircuit ==
    ASSUME [Next]_vars
    PROVE  CircuitStep
<1> USE DEF CircuitStep, circuit
<1>1. CASE ResetTimeoutPasses
  BY <1>1 DEF ResetTimeoutPasses
<1>2. ASSUME NEW i \in Instances, HealthAnswer(i) \/ checkInstance(i) \/ Change(i)
      PROVE  CircuitStep
  BY <1>2 DEF HealthAnswer, checkInstance, Change
<1>3. ASSUME NEW r \in Requests, Forward(r) \/ Serve(r) \/ Abandon(r)
      PROVE  CircuitStep
  BY <1>3 DEF Forward, Serve, Abandon
<1>4. ASSUME NEW r \in Requests, proxyRes(r) \/ proxyError(r)
      PROVE  CircuitStep
  BY <1>4 DEF proxyRes, proxyError
<1>5. CASE UNCHANGED vars
  BY <1>5 DEF vars
<1> QED  BY <1>1, <1>2, <1>3, <1>4, <1>5 DEF Next

\* HalfOpenIsOneStrike for every threshold and however many requests, answers
\* and timeouts overlap (canRequest, recordSuccess, recordFailure).
THEOREM HalfOpenKeepsItsFailures == Spec => []HalfOpenIsOneStrike
<1>1. Init => CircuitInv
  BY UpstreamAssumption DEF Init, CircuitInv, HalfOpenIsOneStrike
<1>2. CircuitInv /\ [Next]_vars => CircuitInv'
  BY CircuitStepKeeps, StepsOfTheCircuit
<1>3. CircuitInv => HalfOpenIsOneStrike
  BY DEF CircuitInv
<1> QED  BY <1>1, <1>2, <1>3, PTL DEF Spec

-----------------------------------------------------------------------------
(* Counting modulo the number of candidates.                               *)

LEMMA ModRange ==
    ASSUME NEW a \in Nat, NEW c \in Nat \ {0}
    PROVE  a % c \in 0..c-1
OBVIOUS

LEMMA DivMod ==
    ASSUME NEW a \in Nat, NEW c \in Nat \ {0}
    PROVE  a = c * (a \div c) + (a % c) /\ a \div c \in Nat
OBVIOUS

\* A division has one remainder.
LEMMA OneRemainder ==
    ASSUME NEW q \in Int, NEW p \in Int, NEW c \in Nat \ {0},
           NEW r \in 0..c-1, NEW s \in 0..c-1, c * q + r = c * p + s
    PROVE  r = s
<1>1. ASSUME NEW x \in Int, NEW y \in Int, x > y
      PROVE  c * x >= c * y + c
  <2>1. PICK d \in Nat : x = y + 1 + d
    <3>1. x - y - 1 \in Nat
      BY <1>1
    <3> QED  BY <3>1
  <2>2. c * x = c * y + c + c * d
    BY <2>1
  <2>3. c * d \in Nat /\ c * y \in Int
    BY <2>1
  <2> QED  BY <2>2, <2>3
<1>2. c * q \in Int /\ c * p \in Int
  OBVIOUS
<1>3. ~(q > p)
  BY <1>1, <1>2
<1>4. ~(p > q)
  BY <1>1, <1>2
<1>5. q = p
  BY <1>3, <1>4
<1> QED  BY <1>2, <1>5

\* The cursor goes round: a turn moves its remainder by one, or back to 0.
LEMMA ModStep ==
    ASSUME NEW a \in Nat, NEW c \in Nat \ {0}
    PROVE  (a + 1) % c = IF (a % c) + 1 < c THEN (a % c) + 1 ELSE 0
<1> DEFINE wraps == ~((a % c) + 1 < c)
           r == IF wraps THEN 0 ELSE (a % c) + 1
           q == IF wraps THEN (a \div c) + 1 ELSE a \div c
<1>1. a % c \in 0..c-1 /\ (a + 1) % c \in 0..c-1
  BY ModRange
<1>2. r \in 0..c-1 /\ q \in Int
  BY <1>1, DivMod
<1>3. a + 1 = c * q + r
  <2>1. a = c * (a \div c) + (a % c) /\ a \div c \in Nat
    BY DivMod
  <2>2. CASE ~wraps
    BY <2>1, <2>2, <1>1
  <2>3. CASE wraps
    <3>1. (a % c) + 1 = c
      BY <2>3, <1>1
    <3>2. c * ((a \div c) + 1) = c * (a \div c) + c
      BY <2>1
    <3> QED  BY <2>1, <2>3, <3>1, <3>2
  <2> QED  BY <2>2, <2>3
<1>4. a + 1 = c * ((a + 1) \div c) + ((a + 1) % c) /\ (a + 1) \div c \in Nat
  BY DivMod
<1> HIDE DEF r, q, wraps
<1>5. c * q + r = c * ((a + 1) \div c) + ((a + 1) % c) /\ (a + 1) \div c \in Int
  BY <1>3, <1>4
<1>6. r = (a + 1) % c
  BY <1>1, <1>2, <1>5, OneRemainder, Zenon
<1> QED  BY <1>6 DEF r, wraps

-----------------------------------------------------------------------------
(* The candidates, in configuration order.                                 *)

\* The place of instance i among the members of S.
Rank(S, i) == Cardinality({k \in S : k < i})

LEMMA CandidatesType ==
    /\ Candidates \in SUBSET Instances /\ Candidates # {}
    /\ IsFiniteSet(Candidates) /\ IsFiniteSet(Instances)
    /\ Cardinality(Candidates) \in Nat \ {0} /\ Cardinality(Candidates) <= N
<1>1. Candidates \in SUBSET Instances
  BY DEF Candidates, Up
<1>2. Candidates # {}
  BY UpstreamAssumption DEF Candidates, Instances
<1>3. IsFiniteSet(Instances) /\ Cardinality(Instances) = N
  BY UpstreamAssumption, FS_Interval DEF Instances
<1> HIDE DEF Instances, Candidates
<1>4. IsFiniteSet(Candidates) /\ Cardinality(Candidates) <= N
  BY <1>1, <1>3, FS_Subset
<1>5. Cardinality(Candidates) \in Nat /\ Cardinality(Candidates) # 0
  BY <1>2, <1>4, FS_CardinalityType, FS_EmptySet
<1> QED  BY <1>1, <1>2, <1>3, <1>4, <1>5

LEMMA InstancesAreNaturals == Instances \subseteq Nat
BY UpstreamAssumption DEF Instances

\* An instance's rank is smaller than the number of members, and grows with
\* its own number.
LEMMA RankRange ==
    ASSUME NEW S, S \subseteq Instances, IsFiniteSet(S), NEW i \in S
    PROVE  Rank(S, i) \in 0..Cardinality(S) - 1
<1> DEFINE B == {k \in S : k < i}
<1>1. B \subseteq S /\ i \notin B
  BY InstancesAreNaturals
<1>2. Rank(S, i) = Cardinality(B)
  BY DEF Rank
<1> HIDE DEF B
<1>3. IsFiniteSet(B) /\ Cardinality(B) <= Cardinality(S) /\ Cardinality(S) # Cardinality(B)
  BY <1>1, FS_Subset
<1>4. Cardinality(B) \in Nat /\ Cardinality(S) \in Nat
  BY <1>3, FS_CardinalityType
<1> QED  BY <1>2, <1>3, <1>4

LEMMA RankGrows ==
    ASSUME NEW S, S \subseteq Instances, IsFiniteSet(S), NEW i \in S, NEW j \in S, i < j
    PROVE  Rank(S, i) < Rank(S, j)
<1> DEFINE B == {k \in S : k < i}
           C == {k \in S : k < j}
<1>0. i \in Nat /\ j \in Nat
  BY InstancesAreNaturals
<1>1. B \subseteq C /\ C \subseteq S /\ i \in C /\ i \notin B
  <2>1. ASSUME NEW k \in B
        PROVE  k \in C
    BY <1>0, <2>1, InstancesAreNaturals
  <2>2. i \in C /\ i \notin B
    BY <1>0
  <2> QED  BY <2>1, <2>2
<1>2. Rank(S, i) = Cardinality(B) /\ Rank(S, j) = Cardinality(C)
  BY DEF Rank
<1> HIDE DEF B, C
<1>3. IsFiniteSet(C)
  BY <1>1, FS_Subset
<1>4. IsFiniteSet(B) /\ Cardinality(B) <= Cardinality(C) /\ Cardinality(C) # Cardinality(B)
  BY <1>1, <1>3, FS_Subset
<1>5. Cardinality(B) \in Nat /\ Cardinality(C) \in Nat
  BY <1>3, <1>4, FS_CardinalityType
<1> QED  BY <1>2, <1>4, <1>5

\* Every place is some member's: the ranks are an injection into as many
\* numbers as there are members.
LEMMA EveryRankIsTaken ==
    ASSUME NEW S, S \subseteq Instances, S # {}, IsFiniteSet(S),
           NEW n \in 0..Cardinality(S) - 1
    PROVE  \E i \in S : Rank(S, i) = n
<1> DEFINE T == 0..Cardinality(S) - 1
           f == [i \in S |-> Rank(S, i)]
<1>1. Cardinality(S) \in Nat /\ Cardinality(S) # 0
  BY FS_CardinalityType, FS_EmptySet
<1>2. IsFiniteSet(T) /\ Cardinality(T) = Cardinality(S)
  BY <1>1, FS_Interval
<1>3. f \in [S -> T]
  BY RankRange
<1>4. ASSUME NEW i \in S, NEW j \in S, i # j
      PROVE  f[i] # f[j]
  <2>1. Rank(S, i) \in Nat /\ Rank(S, j) \in Nat
    BY <1>1, RankRange
  <2>2. CASE i < j
    BY <2>1, <2>2, RankGrows
  <2>3. CASE j < i
    BY <2>1, <2>3, RankGrows
  <2> QED  BY <1>4, <2>2, <2>3, InstancesAreNaturals
<1> HIDE DEF T, f
<1>5. f \in Injection(S, T)
  BY <1>3, <1>4 DEF Injection, IsInjective
<1>6. f \in Surjection(S, T)
  BY <1>2, <1>5, FS_Injection
<1>7. \E i \in S : f[i] = n
  BY <1>6 DEF Surjection, T
<1> QED  BY <1>7 DEF f

\* nextTarget finds an instance, and only one: the candidate whose place is the
\* cursor's remainder.
LEMMA SelectedIsTheOne ==
    ASSUME cursor \in Nat
    PROVE  /\ Selected \in Candidates
           /\ Rank(Candidates, Selected) = cursor % Cardinality(Candidates)
<1>1. cursor % Cardinality(Candidates) \in 0..Cardinality(Candidates) - 1
  BY CandidatesType, ModRange
<1>2. \E i \in Candidates : Rank(Candidates, i) = cursor % Cardinality(Candidates)
  BY <1>1, CandidatesType, EveryRankIsTaken
<1>3. Selected = CHOOSE i \in Candidates :
          Rank(Candidates, i) = cursor % Cardinality(Candidates)
  BY DEF Selected, Rank
<1> QED  BY <1>2, <1>3

-----------------------------------------------------------------------------
(* Turns.                                                                  *)

\* The turns before member i of S comes up, when the cursor is at n.
TurnsBefore(S, n, i) ==
    LET place == Rank(S, i)
        next == n % Cardinality(S)
    IN  IF next <= place THEN place - next ELSE Cardinality(S) + place - next

LEMMA TurnsBeforeRange ==
    ASSUME NEW S, S \subseteq Instances, S # {}, IsFiniteSet(S), NEW i \in S, NEW n \in Nat
    PROVE  TurnsBefore(S, n, i) \in 0..Cardinality(S) - 1
<1>1. Cardinality(S) \in Nat \ {0}
  BY FS_CardinalityType, FS_EmptySet
<1>2. n % Cardinality(S) \in 0..Cardinality(S) - 1
  BY <1>1, ModRange
<1>3. Rank(S, i) \in 0..Cardinality(S) - 1
  BY RankRange
<1> QED  BY <1>1, <1>2, <1>3 DEF TurnsBefore

\* A turn brings every member but the one whose turn it is one turn nearer, and
\* sends that one to the end.
LEMMA TurnsBeforeStep ==
    ASSUME NEW S, S \subseteq Instances, S # {}, IsFiniteSet(S), NEW n \in Nat,
           NEW i \in S, NEW s \in S, Rank(S, s) = n % Cardinality(S)
    PROVE  TurnsBefore(S, (n + 1) % Cardinality(S), i) =
               IF i = s THEN Cardinality(S) - 1 ELSE TurnsBefore(S, n, i) - 1
<1> DEFINE c == Cardinality(S)
           p == n % c
           q == (n + 1) % c
<1>1. c \in Nat \ {0}
  BY FS_CardinalityType, FS_EmptySet
<1>2. p \in 0..c-1 /\ q \in 0..c-1 /\ q = IF p + 1 < c THEN p + 1 ELSE 0
  <2>1. n + 1 \in Nat /\ p \in 0..c-1
    BY <1>1, ModRange
  <2>2. q \in 0..c-1
    BY <2>1, <1>1, ModRange
  <2>3. q = IF p + 1 < c THEN p + 1 ELSE 0
    BY <1>1, ModStep
  <2> QED  BY <2>1, <2>2, <2>3
<1>3. q % c = q
  BY <1>1, <1>2
<1>4. Rank(S, i) \in 0..c-1 /\ Rank(S, s) = p
  BY RankRange
<1>5. Rank(S, i) = p => i = s
  <2>1. i \in Nat /\ s \in Nat
    BY InstancesAreNaturals
  <2>2. i < s => Rank(S, i) < Rank(S, s)
    BY RankGrows
  <2>3. s < i => Rank(S, s) < Rank(S, i)
    BY RankGrows
  <2> QED  BY <2>1, <2>2, <2>3, <1>2, <1>4
<1>6. /\ TurnsBefore(S, n, i) = IF p <= Rank(S, i) THEN Rank(S, i) - p ELSE c + Rank(S, i) - p
      /\ TurnsBefore(S, q, i) = IF q <= Rank(S, i) THEN Rank(S, i) - q ELSE c + Rank(S, i) - q
  BY <1>3 DEF TurnsBefore
<1> HIDE DEF c, p, q
<1>7. TurnsBefore(S, q, i) = IF i = s THEN c - 1 ELSE TurnsBefore(S, n, i) - 1
  <2>1. CASE i = s
    BY <2>1, <1>1, <1>2, <1>4, <1>6
  <2>2. CASE i # s
    BY <2>2, <1>1, <1>2, <1>4, <1>5, <1>6
  <2> QED  BY <2>1, <2>2
<1> QED  BY <1>7 DEF c, q

\* What makes the turns fair: a candidate has not waited longer than what a
\* full round leaves it, the turns still before it counted.
TurnsInv ==
    \A i \in Candidates :
        waits[i] + TurnsBefore(Candidates, cursor, i) < Cardinality(Candidates)

IInv == TypeOK /\ CircuitInv /\ TurnsInv

\* nextTarget keeps the registry's types and its turns.
LEMMA nextTargetKeeps ==
    ASSUME IInv, nextTarget
    PROVE  /\ Selected \in Instances
           /\ cursor' \in 0..N-1 /\ waits' \in [Instances -> Nat]
           /\ TurnsInv'
<1>1. PICK C : C = Candidates
  OBVIOUS
<1>2. PICK s : s = Selected
  OBVIOUS
<1>3. PICK n : n = cursor
  OBVIOUS
<1>4. /\ n \in 0..N-1 /\ n \in Nat /\ N \in Nat \ {0}
      /\ waits \in [Instances -> Nat]
  BY <1>3, UpstreamAssumption DEF IInv, TypeOK
<1>5. /\ C \subseteq Instances /\ C # {} /\ IsFiniteSet(C)
      /\ Cardinality(C) \in Nat \ {0} /\ Cardinality(C) <= N
  BY <1>1, CandidatesType
<1>6. s \in C /\ Rank(C, s) = n % Cardinality(C)
  BY <1>1, <1>2, <1>3, <1>4, SelectedIsTheOne
<1>7. cursor' = (n + 1) % Cardinality(C) /\ Candidates' = C
  BY <1>1, <1>3 DEF nextTarget, Advance, Candidates, Up
<1>8. waits' = [i \in Instances |-> IF i \in C \ {s} THEN waits[i] + 1 ELSE 0]
  BY <1>1, <1>2 DEF nextTarget
<1>9. cursor' \in 0..N-1
  <2>1. n + 1 \in Nat
    BY <1>4
  <2>2. (n + 1) % Cardinality(C) \in 0..Cardinality(C) - 1
    BY <2>1, <1>5, ModRange
  <2> QED  BY <2>2, <1>4, <1>5, <1>7
<1>10. waits' \in [Instances -> Nat]
  BY <1>4, <1>8
<1>11. ASSUME NEW i \in C
       PROVE  waits'[i] + TurnsBefore(C, cursor', i) < Cardinality(C)
  <2>1. TurnsBefore(C, cursor', i) =
            IF i = s THEN Cardinality(C) - 1 ELSE TurnsBefore(C, n, i) - 1
    BY <1>4, <1>5, <1>6, <1>7, TurnsBeforeStep
  <2>2. waits[i] + TurnsBefore(C, n, i) < Cardinality(C)
    BY <1>1, <1>3 DEF IInv, TurnsInv
  <2>3. TurnsBefore(C, n, i) \in 0..Cardinality(C) - 1
    BY <1>4, <1>5, TurnsBeforeRange
  <2>4. waits'[i] = IF i = s THEN 0 ELSE waits[i] + 1
    BY <1>5, <1>8
  <2>5. waits[i] \in Nat
    BY <1>4, <1>5
  <2> QED  BY <2>1, <2>2, <2>3, <2>4, <2>5, <1>5
<1>12. TurnsInv'
  BY <1>7, <1>11 DEF TurnsInv
<1> QED  BY <1>2, <1>5, <1>6, <1>9, <1>10, <1>12

\* checkInstance does too: where the health changes, the waits start afresh.
LEMMA SetStatusKeeps ==
    ASSUME IInv, UNCHANGED cursor,
           NEW i \in Instances, NEW new \in {"UP", "DOWN"}, SetStatus(i, new)
    PROVE  /\ status' \in [Instances -> {"UP", "DOWN"}]
           /\ waits' \in [Instances -> Nat]
           /\ TurnsInv'
<1>1. status \in [Instances -> {"UP", "DOWN"}] /\ waits \in [Instances -> Nat] /\ cursor \in Nat
  BY UpstreamAssumption DEF IInv, TypeOK
<1>2. status' \in [Instances -> {"UP", "DOWN"}] /\ waits' \in [Instances -> Nat]
  BY <1>1 DEF SetStatus
<1>3. CASE new = status[i]
  <2>1. status' = status /\ waits' = waits
    BY <1>1, <1>3 DEF SetStatus
  <2>2. Candidates' = Candidates
    BY <2>1 DEF Candidates, Up
  <2>3. TurnsInv'
    BY <2>1, <2>2 DEF IInv, TurnsInv
  <2> QED  BY <1>2, <2>3
<1>4. CASE new # status[i]
  <2>1. PICK C : C = Candidates'
    OBVIOUS
  <2>2. PICK n : n = cursor
    OBVIOUS
  <2>3. /\ (Candidates \in SUBSET Instances)'
        /\ (Candidates # {} /\ IsFiniteSet(Candidates) /\ Cardinality(Candidates) \in Nat \ {0})'
    BY CandidatesType, PTL
  <2>4. C \subseteq Instances /\ C # {} /\ IsFiniteSet(C) /\ Cardinality(C) \in Nat
    BY <2>1, <2>3
  <2>5. ASSUME NEW k \in C
        PROVE  waits'[k] + TurnsBefore(C, n, k) < Cardinality(C)
    <3>1. TurnsBefore(C, n, k) \in 0..Cardinality(C) - 1
      BY <1>1, <2>2, <2>4, TurnsBeforeRange
    <3>2. waits'[k] = 0
      BY <1>4, <2>4 DEF SetStatus
    <3> QED  BY <3>1, <3>2, <2>4
  <2>6. TurnsInv'
    BY <2>1, <2>2, <2>5 DEF TurnsInv
  <2> QED  BY <1>2, <2>6
<1> QED  BY <1>3, <1>4

LEMMA InitIInv == Init => IInv
<1> SUFFICES ASSUME Init
             PROVE  IInv
  OBVIOUS
<1> USE UpstreamAssumption
<1>1. TypeOK
  <2>1. cursor \in 0..N-1 /\ failures \in 0..Threshold /\ changes \in 0..MaxChanges
    BY DEF Init
  <2>2. target \in [Requests -> 0..N]
    BY DEF Init
  <2>3. \A r \in Requests : flight[r] # "sent"
    BY DEF Init
  <2>4. waits \in [Instances -> Nat]
    BY DEF Init
  <2> QED  BY <2>1, <2>2, <2>3, <2>4 DEF Init, TypeOK
<1>2. TurnsInv
  <2>1. PICK C : C = Candidates
    OBVIOUS
  <2>2. C \subseteq Instances /\ C # {} /\ IsFiniteSet(C) /\ Cardinality(C) \in Nat
    BY <2>1, CandidatesType
  <2>3. ASSUME NEW i \in C
        PROVE  waits[i] + TurnsBefore(C, 0, i) < Cardinality(C)
    <3>1. TurnsBefore(C, 0, i) \in 0..Cardinality(C) - 1
      BY <2>2, TurnsBeforeRange
    <3>2. waits[i] = 0
      BY <2>2 DEF Init
    <3> QED  BY <3>1, <3>2, <2>2
  <2>4. cursor = 0
    BY DEF Init
  <2> QED  BY <2>1, <2>3, <2>4 DEF TurnsInv
<1>3. CircuitInv
  BY DEF Init, CircuitInv, HalfOpenIsOneStrike
<1> QED  BY <1>1, <1>2, <1>3 DEF IInv

\* A step that leaves the registry alone leaves the turns alone.
LEMMA TurnsStutter ==
    ASSUME TurnsInv, UNCHANGED registry
    PROVE  TurnsInv'
<1>1. Candidates' = Candidates
  BY DEF registry, Candidates, Up
<1> QED  BY <1>1 DEF TurnsInv, registry

LEMMA StepIInv == IInv /\ [Next]_vars => IInv'
<1> SUFFICES ASSUME IInv, [Next]_vars
             PROVE  TypeOK' /\ TurnsInv'
  BY CircuitStepKeeps, StepsOfTheCircuit DEF IInv
<1> USE UpstreamAssumption
<1>1. CircuitInv'
  BY CircuitStepKeeps, StepsOfTheCircuit DEF IInv
<1>2. TypeOK /\ TurnsInv
  BY DEF IInv
<1>3. CASE ResetTimeoutPasses
  BY <1>1, <1>2, <1>3, TurnsStutter DEF ResetTimeoutPasses, CircuitInv, TypeOK, registry, requests
<1>4. ASSUME NEW i \in Instances, HealthAnswer(i)
      PROVE  TypeOK' /\ TurnsInv'
  BY <1>2, <1>4, TurnsStutter DEF HealthAnswer, TypeOK, circuit, registry, requests
<1>5. ASSUME NEW i \in Instances, checkInstance(i)
      PROVE  TypeOK' /\ TurnsInv'
  <2>1. PICK new \in {"UP", "DOWN"} : SetStatus(i, new)
    BY <1>5 DEF checkInstance
  <2>2. /\ UNCHANGED cursor
        /\ status' \in [Instances -> {"UP", "DOWN"}] /\ waits' \in [Instances -> Nat] /\ TurnsInv'
    BY <1>5, <2>1, SetStatusKeeps DEF checkInstance
  <2> QED  BY <1>2, <1>5, <2>2 DEF checkInstance, TypeOK, circuit, requests
<1>6. ASSUME NEW i \in Instances, Change(i)
      PROVE  TypeOK' /\ TurnsInv'
  BY <1>2, <1>6, TurnsStutter DEF Change, TypeOK, circuit, registry, requests
<1>7. ASSUME NEW r \in Requests, Forward(r)
      PROVE  TypeOK' /\ TurnsInv'
  <2>1. /\ Selected \in Instances /\ cursor' \in 0..N-1 /\ waits' \in [Instances -> Nat]
        /\ TurnsInv'
    BY <1>7, nextTargetKeeps DEF Forward
  <2>2. UNCHANGED <<status, elapsed>>
    BY <1>7 DEF Forward, nextTarget, canRequest
  <2> QED  BY <1>1, <1>2, <1>7, <2>1, <2>2 DEF Forward, TypeOK, CircuitInv, Instances
<1>8. ASSUME NEW r \in Requests, Serve(r)
      PROVE  TypeOK' /\ TurnsInv'
  BY <1>2, <1>8, TurnsStutter DEF Serve, TypeOK, circuit, registry
<1>9. ASSUME NEW r \in Requests, proxyRes(r) \/ proxyError(r) \/ Abandon(r)
      PROVE  TypeOK' /\ TurnsInv'
  <2>1. Finish(r) /\ elapsed' \in BOOLEAN
    BY <1>2, <1>9 DEF proxyRes, proxyError, Abandon, recordSuccess, recordFailure, circuit, TypeOK
  <2> QED  BY <1>1, <1>2, <2>1, TurnsStutter DEF Finish, TypeOK, CircuitInv, registry
<1>10. CASE UNCHANGED vars
  BY <1>2, <1>10, TurnsStutter DEF vars, TypeOK, circuit, registry, requests
<1> QED  BY <1>3, <1>4, <1>5, <1>6, <1>7, <1>8, <1>9, <1>10 DEF Next

LEMMA InvariantIInv == Spec => []IInv
BY InitIInv, StepIInv, PTL DEF Spec

\* The types, for every number of instances and requests: in particular the
\* registry always finds an instance to send a request to (nextTarget).
THEOREM UpstreamTypes == Spec => []TypeOK
<1>1. IInv => TypeOK
  BY DEF IInv
<1> QED  BY <1>1, InvariantIInv, PTL

\* TurnsAreFair for every number of instances, whatever set of them is up and
\* wherever an earlier set left the cursor (nextTarget, checkInstance).
THEOREM TurnsStayFair == Spec => []TurnsAreFair
<1>1. IInv => TurnsAreFair
  <2> SUFFICES ASSUME IInv, NEW i \in Candidates
               PROVE  waits[i] < Cardinality(Candidates)
    BY DEF TurnsAreFair
  <2>1. PICK C : C = Candidates
    OBVIOUS
  <2>2. PICK n : n = cursor
    OBVIOUS
  <2>3. /\ C \subseteq Instances /\ C # {} /\ IsFiniteSet(C) /\ Cardinality(C) \in Nat
        /\ n \in Nat /\ waits[i] \in Nat
    BY <2>1, <2>2, CandidatesType, UpstreamAssumption DEF IInv, TypeOK
  <2>4. TurnsBefore(C, n, i) \in 0..Cardinality(C) - 1
    BY <2>1, <2>3, TurnsBeforeRange
  <2>5. waits[i] + TurnsBefore(C, n, i) < Cardinality(C)
    BY <2>1, <2>2 DEF IInv, TurnsInv
  <2> QED  BY <2>1, <2>3, <2>4, <2>5
<1> QED  BY <1>1, InvariantIInv, PTL
===============================================================================
