--------------------------- MODULE OnboardingProofs ---------------------------
(***************************************************************************)
(* Proofs about OnboardingProgress for any number of events, slots,        *)
(* attempts and failures, whether or not the upsert locks the row.         *)
(***************************************************************************)
EXTENDS OnboardingProgress, FiniteSetTheorems, TLAPS

\* Where a job stands tells what it has established.
ProtocolInv ==
    \A e \in Events :
        /\ at[e] # "dead" => attempts[e] < MaxAttempts
        /\ at[e] = "found" => progress # None
        /\ at[e] = "counted" => seen[e].status # "pending"

Earned == steps = StepKeys \/ approved

\* What a handler is about to write is earned: by the recorded steps, or, in
\* an open transaction, by those and its own.
SeenEarned ==
    \A e \in Events :
        seen[e].status = "completed" =>
            \/ Earned
            \/ at[e] = "counted" /\ steps \cup {StepOf[e]} = StepKeys

-----------------------------------------------------------------------------
(* Facts about the five steps.                                             *)

LEMMA StepKeysCardinality == IsFiniteSet(StepKeys) /\ Cardinality(StepKeys) = 5
<1> DEFINE S1 == {"identity"}
           S2 == S1 \cup {"company_documents"}
           S3 == S2 \cup {"financial_documents"}
           S4 == S3 \cup {"compliance"}
           S5 == S4 \cup {"review"}
<1>1. IsFiniteSet(S1) /\ Cardinality(S1) = 1
  BY FS_Singleton
<1>2. IsFiniteSet(S2) /\ Cardinality(S2) = 2
  <2>1. "company_documents" \notin S1  OBVIOUS
  <2> QED  BY <1>1, <2>1, FS_AddElement
<1>3. IsFiniteSet(S3) /\ Cardinality(S3) = 3
  <2>1. "financial_documents" \notin S2  OBVIOUS
  <2> HIDE DEF S2
  <2> QED  BY <1>2, <2>1, FS_AddElement
<1>4. IsFiniteSet(S4) /\ Cardinality(S4) = 4
  <2>1. "compliance" \notin S3  OBVIOUS
  <2> HIDE DEF S3
  <2> QED  BY <1>3, <2>1, FS_AddElement
<1>5. IsFiniteSet(S5) /\ Cardinality(S5) = 5
  <2>1. "review" \notin S4  OBVIOUS
  <2> HIDE DEF S4
  <2> QED  BY <1>4, <2>1, FS_AddElement
<1>6. S5 = StepKeys  BY DEF StepKeys
<1> QED  BY <1>5, <1>6

LEMMA StepSubset ==
    ASSUME NEW S \in SUBSET StepKeys
    PROVE  IsFiniteSet(S) /\ Cardinality(S) \in Nat /\ (Cardinality(S) >= 5 => S = StepKeys)
<1>1. IsFiniteSet(S) /\ Cardinality(S) <= 5 /\ (Cardinality(S) = 5 => S = StepKeys)
  BY StepKeysCardinality, FS_Subset
<1>2. Cardinality(S) \in Nat
  BY <1>1, FS_CardinalityType
<1> QED  BY <1>1, <1>2

LEMMA PercentType == \A n \in Nat : Percent(n) \in 0..100
  BY DEF Percent

\* Only five steps round to 100 percent.
LEMMA PercentFull == \A n \in Nat : Percent(n) >= 100 => n >= 5
  BY DEF Percent

LEMMA CurrentStepType ==
    ASSUME NEW percent \in 0..100, NEW s
    PROVE  workflowStepOrder[CurrentIndex(percent, s)] \in StepKeys
<1> DEFINE Above == {t \in {20, 40, 60, 80} : percent >= t}
<1>1. \A i \in 1..5 : workflowStepOrder[i] \in StepKeys
  BY DEF workflowStepOrder, StepKeys
<1>2. IsFiniteSet({20, 40, 60, 80}) /\ Cardinality({20, 40, 60, 80}) = 4
  <2>2. IsFiniteSet({20}) /\ Cardinality({20}) = 1  BY FS_Singleton
  <2>3. IsFiniteSet({20} \cup {40}) /\ Cardinality({20} \cup {40}) = 2
    BY <2>2, FS_AddElement
  <2>4. IsFiniteSet({20, 40} \cup {60}) /\ Cardinality({20, 40} \cup {60}) = 3
    <3>1. {20} \cup {40} = {20, 40}  OBVIOUS
    <3>2. IsFiniteSet({20, 40}) /\ Cardinality({20, 40}) = 2  BY <2>3, <3>1
    <3> QED  BY <3>2, FS_AddElement
  <2>5. IsFiniteSet({20, 40, 60} \cup {80}) /\ Cardinality({20, 40, 60} \cup {80}) = 4
    <3>1. {20, 40} \cup {60} = {20, 40, 60}  OBVIOUS
    <3>2. IsFiniteSet({20, 40, 60}) /\ Cardinality({20, 40, 60}) = 3  BY <2>4, <3>1
    <3> QED  BY <3>2, FS_AddElement
  <2>6. {20, 40, 60} \cup {80} = {20, 40, 60, 80}  OBVIOUS
  <2> QED  BY <2>5, <2>6
<1>3. Above \subseteq {20, 40, 60, 80}  OBVIOUS
<1>4. Cardinality(Above) <= 4 /\ IsFiniteSet(Above)
  <2> HIDE DEF Above
  <2> QED  BY <1>2, <1>3, FS_Subset
<1>5. Cardinality(Above) \in Nat
  <2> HIDE DEF Above
  <2> QED  BY <1>4, FS_CardinalityType
<1>6. 1 + Cardinality(Above) \in 1..5
  <2> HIDE DEF Above
  <2> QED  BY <1>4, <1>5
<1>7. CurrentIndex(percent, s) \in 1..5
  <2>1. CurrentIndex(percent, s) = IF s = "completed" THEN 5 ELSE 1 + Cardinality(Above)
    BY DEF CurrentIndex
  <2> HIDE DEF Above
  <2> QED  BY <2>1, <1>6
<1> QED  BY <1>1, <1>7

-----------------------------------------------------------------------------
(* The invariant.                                                          *)

\* What CountSteps computes: a status and percentage of the right types, and
\* "completed" only if the steps counted are all five.
LEMMA CountedStatus ==
    ASSUME NEW S \in SUBSET StepKeys
    PROVE  LET percent == Percent(Cardinality(S))
           IN  /\ percent \in 0..100
               /\ StatusOf(percent) \in {"in_progress", "completed"}
               /\ StatusOf(percent) = "completed" => S = StepKeys
<1> DEFINE n == Cardinality(S)
<1>1. n \in Nat /\ (n >= 5 => S = StepKeys)  BY StepSubset
<1>2. Percent(n) \in 0..100 /\ (Percent(n) >= 100 => n >= 5)
  BY <1>1, PercentType, PercentFull
<1>3. StatusOf(Percent(n)) = "completed" => Percent(n) >= 100
  BY DEF StatusOf
<1>4. StatusOf(Percent(n)) \in {"in_progress", "completed"}
  BY DEF StatusOf
<1> QED  BY <1>1, <1>2, <1>3, <1>4

IInv == TypeOK /\ ProtocolInv /\ SeenEarned /\ CompletedIsEarned

LEMMA InitInvariant ==
    ASSUME Init
    PROVE  IInv
<1> USE OnboardingAssumption
<1> DEFINE percent == Percent(Cardinality(steps))
<1>1. Pending \in Mirror /\ Pending.status = "pending"
  BY DEF Pending, Mirror
<1>2. steps \in SUBSET StepKeys
  BY DEF Init
<1>3. /\ percent \in 0..100
      /\ StatusOf(percent) \in {"in_progress", "completed"}
      /\ StatusOf(percent) = "completed" => steps = StepKeys
  BY <1>2, CountedStatus
<1>4. /\ RowOf(percent) \in Row
      /\ RowOf(percent).status = StatusOf(percent)
      /\ MirrorOf(RowOf(percent)) \in Mirror
      /\ MirrorOf(RowOf(percent)).status = StatusOf(percent)
  <2>1. workflowStepOrder[CurrentIndex(percent, StatusOf(percent))] \in StepKeys
    <3> HIDE DEF percent
    <3> QED  BY <1>3, CurrentStepType
  <2> HIDE DEF percent
  <2> QED  BY <1>3, <2>1 DEF RowOf, Row, MirrorOf, Mirror
<1>5. \/ progress = None /\ client \in {None, Pending}
      \/ progress = RowOf(percent) /\ client = MirrorOf(RowOf(percent))
  BY DEF Init
<1> HIDE DEF percent
<1>6. TypeOK
  <2>1. Optional(Mirror, client) /\ Optional(Row, progress)
    BY <1>1, <1>4, <1>5 DEF Optional
  <2>2. at \in [Events -> Points] /\ seen \in [Events -> Mirror]
    BY <1>1 DEF Points, Init
  <2>3. attempts \in [Events -> 0..MaxAttempts] /\ faults \in 0..MaxFaults
    BY DEF Init
  <2>4. approved \in BOOLEAN /\ overlapped \in BOOLEAN
    BY DEF Init
  <2> QED  BY <1>2, <2>1, <2>2, <2>3, <2>4 DEF TypeOK
<1>7. ProtocolInv
  BY DEF ProtocolInv, Init
<1>8. SeenEarned
  BY <1>1 DEF SeenEarned, Init
<1>9. CompletedIsEarned
  BY <1>1, <1>3, <1>4, <1>5 DEF CompletedIsEarned
<1> QED  BY <1>6, <1>7, <1>8, <1>9 DEF IInv

LEMMA StepInvariant ==
    ASSUME IInv, [Next]_vars
    PROVE  IInv'
<1> USE OnboardingAssumption
<1> USE DEF IInv, TypeOK, ProtocolInv, SeenEarned, CompletedIsEarned, Earned, Go,
            rows, Mirror, Row, Points, Optional, Pending, MirrorOf, Forget
<1>1. ASSUME NEW e \in Events, EnsureClient(e) PROVE IInv'
  BY <1>1 DEF EnsureClient, Fetch
<1>2. ASSUME NEW e \in Events, UpsertProgress(e) PROVE IInv'
  <2>1. NewRow \in Row /\ NewRow.status = "in_progress"
    BY DEF NewRow, StepKeys
  <2>2. PICK row \in Row :
          /\ progress' = row
          /\ seen' = [seen EXCEPT ![e] = MirrorOf(row)]
          /\ row = progress \/ row.status = "in_progress"
    BY <1>2, <2>1 DEF UpsertProgress
  <2>3. MirrorOf(row) \in Mirror /\ MirrorOf(row).status = row.status
    OBVIOUS
  <2>4. row # None /\ row.status = "completed" => Earned
    BY <2>2
  <2>5. /\ at[e] = "ensured"
        /\ at' = [at EXCEPT ![e] = "committed"]
        /\ UNCHANGED <<client, steps, approved, overlapped, attempts, faults>>
    BY <1>2 DEF UpsertProgress
  <2>6. row.status = "completed" => Earned
    BY <2>2, <2>4, <1>2, <2>1 DEF UpsertProgress
  <2> HIDE DEF MirrorOf
  <2> QED  BY <2>2, <2>3, <2>5, <2>6
<1>3. ASSUME NEW e \in Events, CountSteps(e) PROVE IInv'
  <2> DEFINE S == steps \cup {StepOf[e]}
             percent == Percent(Cardinality(S))
  <2>1. S \in SUBSET StepKeys  OBVIOUS
  <2>2. /\ percent \in 0..100
        /\ StatusOf(percent) \in {"in_progress", "completed"}
        /\ StatusOf(percent) = "completed" => S = StepKeys
    <3> HIDE DEF S
    <3> QED  BY <2>1, CountedStatus
  <2>3. /\ seen' = [seen EXCEPT ![e] = [status |-> StatusOf(percent), percent |-> percent]]
        /\ at[e] = "ensured"
        /\ at' = [at EXCEPT ![e] = "counted"]
        /\ UNCHANGED <<client, progress, steps, approved, overlapped, attempts, faults>>
    BY <1>3 DEF CountSteps
  <2> HIDE DEF percent
  <2> QED  BY <2>2, <2>3
<1>4. ASSUME NEW e \in Events, Commit(e) PROVE IInv'
  <2>1. workflowStepOrder[CurrentIndex(seen[e].percent, seen[e].status)] \in StepKeys
    BY CurrentStepType
  <2>2. PICK step \in StepKeys :
          progress' = [status |-> seen[e].status, percent |-> seen[e].percent,
                       currentStep |-> step]
    BY <1>4, <2>1 DEF Commit
  <2>3. /\ at[e] = "counted"
        /\ steps' = steps \cup {StepOf[e]}
        /\ at' = [at EXCEPT ![e] = "committed"]
        /\ UNCHANGED <<client, approved, overlapped, seen, attempts, faults>>
    BY <1>4 DEF Commit
  <2>4. TypeOK' /\ ProtocolInv'
    <3>1. seen[e].status \in {"in_progress", "completed"} /\ seen[e].percent \in 0..100
      BY <2>3
    <3>2. progress' \in Row
      BY <2>2, <3>1
    <3>3. steps' \in SUBSET StepKeys
      BY <2>3
    <3>4. at' \in [Events -> Points]
      BY <2>3
    <3>5. ProtocolInv'
      <4>1. progress' # None
        BY <3>2
      <4> QED  BY <2>3, <4>1
    <3> QED  BY <2>3, <3>2, <3>3, <3>4, <3>5
  <2>5. Earned => Earned'
    BY <2>3
  <2>6. \A d \in Events : seen'[d].status = "completed" =>
            \/ Earned'
            \/ at'[d] = "counted" /\ steps' \cup {StepOf[d]} = StepKeys
    BY <2>3
  <2>7. SeenEarned' /\ CompletedIsEarned'
    BY <2>2, <2>3, <2>5, <2>6
  <2> QED  BY <2>4, <2>7
<1>5. ASSUME NEW e \in Events, FindProgress(e) PROVE IInv'
  BY <1>5 DEF FindProgress, Fetch
<1>6. ASSUME NEW e \in Events, ApproveProgress(e) PROVE IInv'
  <2>1. progress \in Row
    BY <1>6 DEF ApproveProgress
  <2>2. [status |-> "completed", percent |-> 100,
         currentStep |-> progress.currentStep] \in Row
    BY <2>1
  <2>3. [status |-> "completed", percent |-> 100] \in Mirror
    OBVIOUS
  <2>4. Earned'
    BY <1>6 DEF ApproveProgress
  <2>5. TypeOK'
    BY <1>6, <2>2, <2>3 DEF ApproveProgress
  <2>6. ProtocolInv'
    BY <1>6 DEF ApproveProgress
  <2> QED  BY <2>4, <2>5, <2>6
<1>7. ASSUME NEW e \in Events, updateClientOnboardingState(e) PROVE IInv'
  BY <1>7 DEF updateClientOnboardingState
<1>8. ASSUME NEW e \in Events, Running(e), Failed(e), UNCHANGED faults \/ faults' \in 0..MaxFaults
      PROVE  IInv'
  BY <1>8 DEF Failed, Running
<1>9. ASSUME NEW e \in Events, writeAuditLog(e) PROVE IInv'
  <2>1. CASE Failed(e)
    BY <1>8, <1>9, <2>1 DEF writeAuditLog, Running
  <2>2. CASE Go(e, "done") /\ Forget(e) /\ UNCHANGED <<rows, overlapped, attempts>>
    BY <1>9, <2>2 DEF writeAuditLog
  <2> QED  BY <1>9, <2>1, <2>2 DEF writeAuditLog
<1>10. ASSUME NEW e \in Events, Fails(e) PROVE IInv'
  BY <1>8, <1>10 DEF Fails
<1>11. CASE UNCHANGED vars
  BY <1>11 DEF vars
<1> QED
  BY <1>1, <1>2, <1>3, <1>4, <1>5, <1>6, <1>7, <1>9, <1>10, <1>11 DEF Next, Handle

LEMMA Invariant == Spec => []IInv
<1>1. Init => IInv
  BY InitInvariant
<1>2. IInv /\ [Next]_vars => IInv'
  BY StepInvariant
<1> QED  BY <1>1, <1>2, PTL DEF Spec

\* Every row and every handler's state keeps its type: percentages stay in
\* 0..100 and no job runs after its last attempt.
THEOREM OnboardingTypes == Spec => []TypeOK
<1>1. IInv => TypeOK
  BY DEF IInv
<1> QED  BY Invariant, <1>1, PTL

\* No interleaving of handlers, retries and dead letters completes a client,
\* on the progress row or on the row the frontend reads, that neither has all
\* five steps nor was approved by KYC; with or without row locks.
THEOREM CompletionIsEarned == Spec => []CompletedIsEarned
<1>1. IInv => CompletedIsEarned
  BY DEF IInv
<1> QED  BY Invariant, <1>1, PTL

-----------------------------------------------------------------------------
(* Handlers that do not overlap, and what the reader finds at rest.        *)

\* What a transaction counted and a row holds, for the set S of steps.
Counts(x, S) ==
    x.percent = Percent(Cardinality(S)) /\ x.status = StatusOf(x.percent)

\* Handlers of one client are serial, or the upsert's lock makes their
\* transactions so.
Serialised == UpsertLocks \/ ~overlapped

RunningAlone == ~overlapped => \A d, e \in Events : Running(d) /\ Running(e) => d = e

\* Transactions that are serialised count what is recorded when they commit.
CountInv ==
    /\ progress = None => steps = {}
    /\ Serialised /\ ~approved /\ progress # None => Counts(progress, steps)
    /\ Serialised => \A d, e \in OpenTransactions : d = e
    /\ Serialised => \A e \in OpenTransactions : Counts(seen[e], steps \cup {StepOf[e]})

\* A handler that has not come past its mirror, or will have to come again.
StillToMirror(e) ==
    \/ at[e] \in {"queued", "ensured", "found", "counted", "dead"}
    \/ at[e] = "committed" /\ seen[e] = MirrorOf(progress)

\* The client row of serial handlers: it exists before the progress row, and
\* where the two differ someone has still to mirror.
MirrorInv ==
    /\ progress = None => client \in {None, Pending}
    /\ progress # None => client # None
    /\ \A e \in Events : at[e] \in {"ensured", "counted", "done"} => client # None
    /\ \A e \in Events : at[e] = "committed" => progress # None
    /\ ~overlapped =>
           /\ \A e \in Events : at[e] = "committed" => seen[e] = MirrorOf(progress)
           /\ progress # None =>
                  client = MirrorOf(progress) \/ \E e \in Events : StillToMirror(e)

SerialInv == RunningAlone /\ CountInv /\ MirrorInv

\* The actions of one handler by what they leave alone.
LEMMA RunningAloneStep ==
    ASSUME IInv, RunningAlone, [Next]_vars
    PROVE  RunningAlone'
<1> USE DEF RunningAlone, IInv, TypeOK, Running, Go, Points
<1>1. ASSUME NEW e \in Events, Fetch(e), NEW point \in Points, Go(e, point)
      PROVE  RunningAlone'
  <2> SUFFICES ASSUME ~overlapped'
               PROVE  \A d \in Events : Running(d)' => d = e
    OBVIOUS
  <2>1. ~overlapped /\ \A d \in Events : ~Running(d)
    BY <1>1 DEF Fetch
  <2> QED  BY <1>1, <2>1
<1>2. ASSUME NEW e \in Events, Running(e), NEW point \in Points, Go(e, point),
             overlapped' = overlapped
      PROVE  RunningAlone'
  BY <1>2
<1>3. ASSUME NEW e \in Events, EnsureClient(e) \/ FindProgress(e) PROVE RunningAlone'
  <2>1. Fetch(e) /\ \E point \in Points : Go(e, point)
    BY <1>3 DEF EnsureClient, FindProgress
  <2> QED  BY <2>1, <1>1
<1>4. ASSUME NEW e \in Events, Running(e), Failed(e) PROVE RunningAlone'
  BY <1>2, <1>4 DEF Failed
<1>5. ASSUME NEW e \in Events,
             UpsertProgress(e) \/ CountSteps(e) \/ Commit(e) \/ ApproveProgress(e)
             \/ updateClientOnboardingState(e)
      PROVE  RunningAlone'
  <2>1. Running(e) /\ overlapped' = overlapped /\ \E point \in Points : Go(e, point)
    BY <1>5 DEF UpsertProgress, CountSteps, Commit, ApproveProgress,
                updateClientOnboardingState, rows
  <2> QED  BY <2>1, <1>2
<1>6. ASSUME NEW e \in Events, writeAuditLog(e) \/ Fails(e) PROVE RunningAlone'
  <2>1. Running(e)
    BY <1>6 DEF writeAuditLog, Fails
  <2>2. Failed(e) \/ (Go(e, "done") /\ overlapped' = overlapped)
    BY <1>6 DEF writeAuditLog, Fails
  <2> QED  BY <2>1, <2>2, <1>2, <1>4
<1>7. CASE UNCHANGED vars
  BY <1>7 DEF vars
<1> QED  BY <1>3, <1>5, <1>6, <1>7 DEF Next, Handle

\* Counting none gives what a new row says.
LEMMA NothingCounted == Percent(Cardinality({})) = 0
<1>1. Cardinality({}) = 0
  BY FS_EmptySet
<1>2. Percent(0) = 0
  BY DEF Percent
<1> QED  BY <1>1, <1>2

\* A step that writes no row and begins no transaction.
LEMMA CountFrame ==
    ASSUME IInv, CountInv, UNCHANGED <<progress, steps, approved>>,
           overlapped => overlapped',
           \A d \in Events : at'[d] = "counted" => at[d] = "counted" /\ seen'[d] = seen[d]
    PROVE  CountInv'
BY DEF CountInv, Serialised, OpenTransactions, Counts, IInv, TypeOK

\* What Commit and ApproveProgress write is a row.
LEMMA RowIsWritten ==
    ASSUME IInv, NEW e \in Events, Commit(e) \/ ApproveProgress(e)
    PROVE  progress' \in Row /\ progress' # None
<1> USE OnboardingAssumption DEF IInv, TypeOK, ProtocolInv, Optional
<1>1. CASE Commit(e)
  <2>1. at[e] = "counted" /\ seen[e].percent \in 0..100
    BY <1>1 DEF Commit, Mirror
  <2>2. seen[e].status \in {"in_progress", "completed"}
    BY <2>1 DEF Mirror
  <2>3. workflowStepOrder[CurrentIndex(seen[e].percent, seen[e].status)] \in StepKeys
    BY <2>1, CurrentStepType
  <2>4. progress' \in Row
    BY <1>1, <2>1, <2>2, <2>3 DEF Commit, Row
  <2> QED  BY <2>4
<1>2. CASE ApproveProgress(e)
  <2>1. progress \in Row
    BY <1>2 DEF ApproveProgress
  <2>2. progress' \in Row
    BY <1>2, <2>1 DEF ApproveProgress, Row
  <2> QED  BY <2>2
<1> QED  BY <1>1, <1>2

LEMMA CountInvStep ==
    ASSUME IInv, RunningAlone, CountInv, [Next]_vars
    PROVE  CountInv'
<1> USE OnboardingAssumption
<1>0. /\ at \in [Events -> Points] /\ seen \in [Events -> Mirror] /\ steps \in SUBSET StepKeys
      /\ progress \in Row \/ progress = None
      /\ approved \in BOOLEAN /\ overlapped \in BOOLEAN
  BY DEF IInv, TypeOK, Optional
<1>1. ASSUME NEW e \in Events, EnsureClient(e) \/ FindProgress(e) PROVE CountInv'
  BY <1>0, <1>1, CountFrame DEF EnsureClient, FindProgress, Fetch, Go, rows
<1>2. ASSUME NEW e \in Events, UpsertProgress(e) PROVE CountInv'
  <2>1. PICK row : row = IF progress = None THEN NewRow ELSE progress
    OBVIOUS
  <2>2. /\ progress' = row /\ seen' = [seen EXCEPT ![e] = MirrorOf(row)]
        /\ at' = [at EXCEPT ![e] = "committed"]
        /\ UNCHANGED <<client, steps, approved, overlapped, attempts, faults>>
    BY <1>2, <2>1 DEF UpsertProgress, Go
  <2>3. row # None
    <3>1. NewRow \in Row
      BY DEF NewRow, Row, StepKeys
    <3> QED  BY <2>1, <3>1
  <2>4. Serialised /\ ~approved => Counts(row, steps)
    <3>1. CASE progress = None
      <4>1. steps = {} /\ row = NewRow
        BY <2>1, <3>1 DEF CountInv
      <4>2. row.percent = 0 /\ row.status = "in_progress"
        BY <4>1 DEF NewRow
      <4>3. StatusOf(0) = "in_progress"
        BY DEF StatusOf
      <4> QED  BY <4>1, <4>2, <4>3, NothingCounted DEF Counts
    <3>2. CASE progress # None
      BY <2>1, <3>2 DEF CountInv
    <3> QED  BY <3>1, <3>2
  <2>5. \A d \in Events : at'[d] = "counted" => at[d] = "counted" /\ seen'[d] = seen[d]
    BY <1>0, <2>2
  <2> QED  BY <1>0, <2>2, <2>3, <2>4, <2>5 DEF CountInv, Serialised, OpenTransactions, Counts
<1>3. ASSUME NEW e \in Events, CountSteps(e) PROVE CountInv'
  <2> DEFINE counted == [status |-> StatusOf(Percent(Cardinality(steps \cup {StepOf[e]}))),
                         percent |-> Percent(Cardinality(steps \cup {StepOf[e]}))]
  <2>1. /\ seen' = [seen EXCEPT ![e] = counted]
        /\ at[e] = "ensured" /\ at' = [at EXCEPT ![e] = "counted"]
        /\ UNCHANGED <<client, progress, steps, approved, overlapped, attempts, faults>>
    BY <1>3 DEF CountSteps, Go, rows
  <2>2. Counts(counted, steps \cup {StepOf[e]})
    BY DEF Counts
  <2> HIDE DEF counted
  <2>3. Serialised => OpenTransactions = {}
    <3>1. CASE UpsertLocks
      BY <1>3, <3>1 DEF CountSteps
    <3>2. CASE ~overlapped
      BY <2>1, <3>2 DEF RunningAlone, Running, OpenTransactions
    <3> QED  BY <3>1, <3>2 DEF Serialised
  <2>4. Serialised => OpenTransactions' = {e}
    BY <1>0, <2>1, <2>3 DEF OpenTransactions
  <2>5. seen'[e] = counted
    BY <1>0, <2>1
  <2> QED  BY <2>1, <2>2, <2>4, <2>5 DEF CountInv, Serialised, Counts
<1>4. ASSUME NEW e \in Events, Commit(e) PROVE CountInv'
  <2>1. /\ progress'.status = seen[e].status /\ progress'.percent = seen[e].percent
        /\ at[e] = "counted" /\ at' = [at EXCEPT ![e] = "committed"]
        /\ steps' = steps \cup {StepOf[e]}
        /\ UNCHANGED <<client, approved, overlapped, seen, attempts, faults>>
    BY <1>4 DEF Commit, Go
  <2>2. progress' # None
    BY <1>4, RowIsWritten
  <2>3. Serialised => OpenTransactions' = {}
    BY <1>0, <2>1 DEF CountInv, OpenTransactions
  <2>4. Serialised => Counts(seen[e], steps')
    BY <2>1 DEF CountInv, OpenTransactions
  <2> QED  BY <2>1, <2>2, <2>3, <2>4 DEF CountInv, Serialised, Counts
<1>5. ASSUME NEW e \in Events, ApproveProgress(e) PROVE CountInv'
  <2>1. /\ progress # None /\ approved' = TRUE
        /\ UNCHANGED <<steps, overlapped>>
        /\ \A d \in Events : at'[d] = "counted" => at[d] = "counted" /\ seen'[d] = seen[d]
    BY <1>0, <1>5 DEF ApproveProgress, Go, IInv, ProtocolInv
  <2>2. progress' # None
    BY <1>5, RowIsWritten
  <2> QED  BY <2>1, <2>2 DEF CountInv, Serialised, OpenTransactions, Counts
<1>6. ASSUME NEW e \in Events, updateClientOnboardingState(e) PROVE CountInv'
  BY <1>0, <1>6, CountFrame DEF updateClientOnboardingState, Go
<1>7. ASSUME NEW e \in Events, writeAuditLog(e) \/ Fails(e) PROVE CountInv'
  <2>1. /\ UNCHANGED <<progress, steps, approved, overlapped>>
        /\ seen' = [seen EXCEPT ![e] = Pending]
        /\ \E point \in {"done", "queued", "dead"} : at' = [at EXCEPT ![e] = point]
    BY <1>7 DEF writeAuditLog, Fails, Failed, Go, Forget, rows
  <2> QED  BY <1>0, <2>1, CountFrame
<1>8. CASE UNCHANGED vars
  BY <1>0, <1>8, CountFrame DEF vars, rows
<1> QED  BY <1>1, <1>2, <1>3, <1>4, <1>5, <1>6, <1>7, <1>8 DEF Next, Handle

\* What the steps of handler e do to MirrorInv, action by action: e is the only
\* one running where nothing overlaps, so no other handler's mirror is due.
LEMMA MirrorInvStep ==
    ASSUME IInv, RunningAlone, MirrorInv, [Next]_vars
    PROVE  MirrorInv'
<1> USE OnboardingAssumption
<1>0. /\ at \in [Events -> Points] /\ seen \in [Events -> Mirror]
      /\ progress \in Row \/ progress = None
      /\ client \in Mirror \/ client = None
      /\ overlapped \in BOOLEAN /\ None \notin Mirror /\ None \notin Row
  BY DEF IInv, TypeOK, Optional
<1>1. Pending \in Mirror
  BY DEF Pending, Mirror
<1>2. ASSUME NEW e \in Events, EnsureClient(e) PROVE MirrorInv'
  <2>1. /\ at[e] = "queued" /\ at' = [at EXCEPT ![e] = "ensured"]
        /\ client' = IF client = None THEN Pending ELSE client
        /\ UNCHANGED <<progress, seen>> /\ (overlapped => overlapped')
    BY <1>0, <1>2 DEF EnsureClient, Fetch, Go
  <2>2. client' # None
    BY <2>1, <1>1, <1>0
  <2> QED  BY <1>0, <1>1, <2>1, <2>2 DEF MirrorInv, StillToMirror
<1>3. ASSUME NEW e \in Events, FindProgress(e) PROVE MirrorInv'
  <2>1. /\ at[e] = "queued"
        /\ at' = [at EXCEPT ![e] = IF progress = None THEN "mirrored" ELSE "found"]
        /\ UNCHANGED <<client, progress, seen>> /\ (overlapped => overlapped')
    BY <1>0, <1>3 DEF FindProgress, Fetch, Go, rows
  <2> QED  BY <1>0, <2>1 DEF MirrorInv, StillToMirror
<1>4. ASSUME NEW e \in Events, Running(e), at[e] \in {"ensured", "found", "counted"},
             client # None, progress' # None, at' = [at EXCEPT ![e] = "committed"],
             seen' \in [Events -> Mirror], seen'[e] = MirrorOf(progress'),
             UNCHANGED <<client, overlapped>>
      PROVE  MirrorInv'
  <2>1. ~overlapped => \A d \in Events : at'[d] = "committed" => d = e
    BY <1>0, <1>4 DEF RunningAlone, Running
  <2>2. StillToMirror(e)'
    BY <1>0, <1>4 DEF StillToMirror
  <2> QED  BY <1>0, <1>4, <2>1, <2>2 DEF MirrorInv
<1>5. ASSUME NEW e \in Events, UpsertProgress(e) PROVE MirrorInv'
  <2>1. PICK row : row = IF progress = None THEN NewRow ELSE progress
    OBVIOUS
  <2>2. /\ at[e] = "ensured" /\ at' = [at EXCEPT ![e] = "committed"]
        /\ progress' = row /\ seen' = [seen EXCEPT ![e] = MirrorOf(row)]
        /\ UNCHANGED <<client, overlapped>>
    BY <1>5, <2>1 DEF UpsertProgress, Go
  <2>3. row \in Row
    <3>1. NewRow \in Row
      BY DEF NewRow, Row, StepKeys
    <3> QED  BY <1>0, <2>1, <3>1
  <2>4. MirrorOf(row) \in Mirror
    BY <2>3 DEF MirrorOf, Row, Mirror
  <2>5. client # None /\ Running(e)
    BY <2>2 DEF MirrorInv, Running
  <2>6. progress' # None /\ seen' \in [Events -> Mirror] /\ seen'[e] = MirrorOf(progress')
    BY <1>0, <2>2, <2>3, <2>4
  <2> QED  BY <1>4, <2>2, <2>5, <2>6
<1>6. ASSUME NEW e \in Events, CountSteps(e) PROVE MirrorInv'
  <2>1. /\ at[e] = "ensured" /\ at' = [at EXCEPT ![e] = "counted"]
        /\ \A d \in Events \ {e} : seen'[d] = seen[d]
        /\ UNCHANGED <<client, progress, overlapped>>
    BY <1>0, <1>6 DEF CountSteps, Go, rows
  <2> QED  BY <1>0, <2>1 DEF MirrorInv, StillToMirror
<1>7. ASSUME NEW e \in Events, Commit(e) PROVE MirrorInv'
  <2>1. /\ at[e] = "counted" /\ at' = [at EXCEPT ![e] = "committed"]
        /\ progress'.status = seen[e].status /\ progress'.percent = seen[e].percent
        /\ UNCHANGED <<client, seen, overlapped>>
    BY <1>7 DEF Commit, Go
  <2>2. progress' # None
    BY <1>7, RowIsWritten
  <2>3. seen'[e] = MirrorOf(progress')
    <3>1. seen[e] \in Mirror
      BY <1>0
    <3>2. seen[e] = [status |-> seen[e].status, percent |-> seen[e].percent]
      BY <3>1 DEF Mirror
    <3> QED  BY <2>1, <3>2 DEF MirrorOf
  <2>4. client # None /\ Running(e)
    BY <2>1 DEF MirrorInv, Running
  <2> QED  BY <1>0, <1>4, <2>1, <2>2, <2>3, <2>4
<1>8. ASSUME NEW e \in Events, ApproveProgress(e) PROVE MirrorInv'
  <2> DEFINE done == [status |-> "completed", percent |-> 100]
  <2>1. /\ at[e] = "found" /\ at' = [at EXCEPT ![e] = "committed"]
        /\ progress'.status = "completed" /\ progress'.percent = 100
        /\ seen' = [seen EXCEPT ![e] = done]
        /\ UNCHANGED <<client, overlapped>>
    BY <1>8 DEF ApproveProgress, Go
  <2>2. progress' # None
    BY <1>8, RowIsWritten
  <2>3. done \in Mirror /\ done = MirrorOf(progress')
    BY <2>1 DEF Mirror, MirrorOf
  <2>4. client # None /\ Running(e)
    BY <2>1 DEF MirrorInv, Running, IInv, ProtocolInv
  <2> HIDE DEF done
  <2>5. seen' \in [Events -> Mirror] /\ seen'[e] = MirrorOf(progress')
    BY <1>0, <2>1, <2>3
  <2> QED  BY <1>4, <2>1, <2>2, <2>4, <2>5
<1>9. ASSUME NEW e \in Events, updateClientOnboardingState(e) PROVE MirrorInv'
  <2>1. /\ at[e] = "committed" /\ at' = [at EXCEPT ![e] = "mirrored"]
        /\ client' = IF client = None THEN None ELSE seen[e]
        /\ UNCHANGED <<progress, seen, overlapped>>
    BY <1>9 DEF updateClientOnboardingState, Go, rows
  <2>2. progress # None /\ client # None /\ client' = seen[e] /\ client' # None
    BY <1>0, <2>1 DEF MirrorInv
  <2>3. ~overlapped => client' = MirrorOf(progress)
    BY <2>1, <2>2 DEF MirrorInv
  <2> QED  BY <1>0, <2>1, <2>2, <2>3 DEF MirrorInv
<1>10. ASSUME NEW e \in Events, writeAuditLog(e) \/ Fails(e) PROVE MirrorInv'
  <2>1. /\ UNCHANGED <<client, progress, overlapped>>
        /\ seen' = [seen EXCEPT ![e] = Pending]
        /\ \/ at' = [at EXCEPT ![e] = "done"] /\ at[e] = "mirrored" /\ client # None
           \/ \E point \in {"queued", "dead"} : at' = [at EXCEPT ![e] = point]
    BY <1>10 DEF writeAuditLog, Fails, Failed, Go, Forget, rows
  <2> QED  BY <1>0, <2>1 DEF MirrorInv, StillToMirror
<1>11. CASE UNCHANGED vars
  BY <1>11 DEF vars, rows, MirrorInv, StillToMirror
<1> QED  BY <1>2, <1>3, <1>5, <1>6, <1>7, <1>8, <1>9, <1>10, <1>11 DEF Next, Handle

LEMMA SerialInit ==
    ASSUME Init
    PROVE  SerialInv
<1> USE OnboardingAssumption
<1> DEFINE percent == Percent(Cardinality(steps))
           row == RowOf(percent)
<1>1. RunningAlone /\ OpenTransactions = {}
  BY DEF RunningAlone, Running, OpenTransactions, Init
<1>2. at = [e \in Events |-> "queued"]
  BY DEF Init
<1>3. CASE steps = {}
  <2>1. progress = None /\ client \in {None, Pending}
    BY <1>3 DEF Init
  <2> QED  BY <1>1, <1>2, <1>3, <2>1 DEF SerialInv, CountInv, MirrorInv
<1>4. CASE steps # {}
  <2>1. progress = row /\ client = MirrorOf(row)
    BY <1>4 DEF Init
  <2>2. steps \in SUBSET StepKeys
    BY DEF Init
  <2>3. percent \in 0..100 /\ StatusOf(percent) \in {"in_progress", "completed"}
    BY <2>2, CountedStatus
  <2>4. workflowStepOrder[CurrentIndex(percent, StatusOf(percent))] \in StepKeys
    <3> HIDE DEF percent
    <3> QED  BY <2>3, CurrentStepType
  <2>5. /\ row \in Row /\ MirrorOf(row) \in Mirror
        /\ row.percent = percent /\ row.status = StatusOf(percent)
    <3> HIDE DEF percent
    <3> QED  BY <2>3, <2>4 DEF RowOf, Row, MirrorOf, Mirror
  <2>6. progress # None /\ client # None /\ Counts(progress, steps)
    BY <2>1, <2>5 DEF Counts
  <2> QED  BY <1>1, <1>2, <2>1, <2>6 DEF SerialInv, CountInv, MirrorInv
<1> QED  BY <1>3, <1>4

LEMMA SerialInvariant == Spec => [](IInv /\ SerialInv)
<1>1. Init => IInv /\ SerialInv
  BY InitInvariant, SerialInit
<1>2. IInv /\ SerialInv /\ [Next]_vars => (IInv /\ SerialInv)'
  BY StepInvariant, RunningAloneStep, CountInvStep, MirrorInvStep DEF SerialInv
<1> QED  BY <1>1, <1>2, PTL DEF Spec

-----------------------------------------------------------------------------
(* What the frontend shows of a percentage.                                *)

\* Of n steps n are shown: the thresholds of progressToCurrentStep fall on the
\* rounded percentages.
LEMMA ThresholdsMet ==
    ASSUME NEW n \in 0..4
    PROVE  /\ Percent(n) = 20 * n
           /\ Cardinality({t \in {20, 40, 60, 80} : Percent(n) >= t}) = n
<1>1. Percent(n) = 20 * n
  BY DEF Percent
<1>2. \A x : IsFiniteSet({x}) /\ Cardinality({x}) = 1
  BY FS_Singleton
<1>3. IsFiniteSet({20, 40}) /\ Cardinality({20, 40}) = 2
  <2>1. {20, 40} = {20} \cup {40} /\ 40 \notin {20}  OBVIOUS
  <2>2. IsFiniteSet({20}) /\ Cardinality({20}) = 1  BY <1>2
  <2>3. IsFiniteSet({20} \cup {40}) /\ Cardinality({20} \cup {40}) = 2
    BY <2>1, <2>2, FS_AddElement
  <2> QED  BY <2>1, <2>3
<1>4. IsFiniteSet({20, 40, 60}) /\ Cardinality({20, 40, 60}) = 3
  <2>1. {20, 40, 60} = {20, 40} \cup {60}  OBVIOUS
  <2> QED  BY <1>3, <2>1, FS_AddElement
<1>5. Cardinality({20, 40, 60, 80}) = 4
  <2>1. {20, 40, 60, 80} = {20, 40, 60} \cup {80}  OBVIOUS
  <2> QED  BY <1>4, <2>1, FS_AddElement
<1>6. Cardinality({}) = 0
  BY FS_EmptySet
<1> DEFINE Met == {t \in {20, 40, 60, 80} : 20 * n >= t}
<1>7. \/ n = 0 /\ Met = {}
      \/ n = 1 /\ Met = {20}
      \/ n = 2 /\ Met = {20, 40}
      \/ n = 3 /\ Met = {20, 40, 60}
      \/ n = 4 /\ Met = {20, 40, 60, 80}
  OBVIOUS
<1> HIDE DEF Met
<1>8. Cardinality(Met) = n
  BY <1>2, <1>3, <1>4, <1>5, <1>6, <1>7
<1> QED  BY <1>1, <1>8 DEF Met

LEMMA ShownOfCounted ==
    ASSUME NEW S \in SUBSET StepKeys, client # None, Counts(client, S)
    PROVE  Cardinality(ShownCompleted) = Cardinality(S)
<1> DEFINE n == Cardinality(S)
<1>1. n \in 0..5
  <2>1. n \in Nat /\ n <= 5
    BY StepKeysCardinality, FS_Subset, StepSubset
  <2> QED  BY <2>1
<1>2. CASE n = 5
  <2>1. Percent(5) = 100
    BY DEF Percent
  <2>2. client.status = "completed"
    BY <1>2, <2>1 DEF Counts, StatusOf
  <2>3. ShownCompleted = 1..5
    BY <2>2 DEF ShownCompleted
  <2>4. 1 \in Int /\ 5 \in Int
    OBVIOUS
  <2>5. Cardinality(1..5) = IF 1 > 5 THEN 0 ELSE 5 - 1 + 1
    BY ONLY <2>4, FS_Interval
  <2>6. Cardinality(1..5) = 5
    BY <2>5
  <2> QED  BY <1>2, <2>3, <2>6
<1>3. CASE n \in 0..4
  <2>1. /\ client.percent = 20 * n /\ client.status = "in_progress"
        /\ CurrentIndex(client.percent, client.status) = 1 + n
    <3>1. Percent(n) = 20 * n /\ Cardinality({t \in {20, 40, 60, 80} : Percent(n) >= t}) = n
      BY <1>3, ThresholdsMet
    <3>2. client.percent = Percent(n) /\ client.status = StatusOf(Percent(n))
      BY DEF Counts
    <3>3. StatusOf(Percent(n)) = "in_progress"
      BY <1>3, <3>1 DEF StatusOf
    <3> QED  BY <3>1, <3>2, <3>3 DEF CurrentIndex
  <2>2. ShownCompleted = 1..n
    BY <1>3, <2>1 DEF ShownCompleted
  <2> QED  BY <1>3, <2>2, FS_Interval
<1> QED  BY <1>1, <1>2, <1>3

\* ProgressCountsSteps for any number of document events, slots, attempts and
\* failures: a serialised transaction neither misses a step nor counts one twice
\* (updateOnboardingProgress).
THEOREM ProgressIsTheCount == Spec => []ProgressCountsSteps
<1>1. SerialInv => ProgressCountsSteps
  BY DEF SerialInv, CountInv, Serialised, Counts, ProgressCountsSteps
<1> QED  BY SerialInvariant, <1>1, PTL

\* ReadersAgree for any number of events, of attempts and of failures between a
\* commit and its mirror, for a client that has an event at all: handlers that
\* do not overlap leave the frontend with what is recorded
\* (updateClientOnboardingState, getOnboardingProgress).
THEOREM ReadersAgreeAtRest ==
    ASSUME Events # {}
    PROVE  Spec => []ReadersAgree
<1>1. IInv /\ SerialInv => ReadersAgree
  <2> SUFFICES ASSUME IInv, SerialInv, AllDone, ~overlapped
               PROVE  ClientAgreesAtRest /\ ShownCountsSteps
    BY DEF ReadersAgree
  <2>1. client # None /\ steps \in SUBSET StepKeys
    BY DEF AllDone, SerialInv, MirrorInv, IInv, TypeOK
  <2>2. ClientAgreesAtRest
    BY DEF AllDone, ClientAgreesAtRest, SerialInv, MirrorInv, StillToMirror
  <2>3. CASE progress = None
    <3>1. client = Pending /\ steps = {}
      BY <2>1, <2>3 DEF SerialInv, MirrorInv, CountInv
    <3>2. CurrentIndex(0, "pending") = 1
      <4>1. {t \in {20, 40, 60, 80} : 0 >= t} = {}
        OBVIOUS
      <4> QED  BY <4>1, FS_EmptySet DEF CurrentIndex
    <3>3. ShownCompleted = {}
      BY <3>1, <3>2 DEF ShownCompleted, Pending
    <3> QED  BY <2>2, <3>1, <3>3 DEF ShownCountsSteps
  <2>4. CASE progress # None
    <3>1. ~approved => Counts(client, steps)
      BY <2>2, <2>4 DEF ClientAgreesAtRest, SerialInv, CountInv, Serialised, Counts, MirrorOf
    <3> QED  BY <2>1, <2>2, <3>1, ShownOfCounted DEF ShownCountsSteps
  <2> QED  BY <2>3, <2>4
<1> QED  BY SerialInvariant, <1>1, PTL

-----------------------------------------------------------------------------
(* What an acknowledged event leaves behind.                               *)

Settled == {"committed", "mirrored", "done"}

\* Where a job stands tells what kind it is and what it has recorded.
RecordedInv ==
    \A e \in Events :
        /\ at[e] = "counted" => Kind[e] = "document"
        /\ at[e] = "found" => Kind[e] = "kyc"
        /\ Kind[e] = "document" /\ at[e] \in Settled => StepOf[e] \in steps /\ progress # None
        /\ Kind[e] = "created" /\ at[e] \in Settled => progress # None
        /\ at[e] = "done" => client # None

\* An acknowledged document has its step, whoever overlapped; an acknowledged
\* event of any kind has the Client row its audit entry refers to.
AcknowledgedIsRecorded ==
    \A e \in Events : at[e] = "done" =>
        /\ client # None
        /\ Kind[e] = "document" => StepOf[e] \in steps /\ progress # None
        /\ Kind[e] = "created" => progress # None

LEMMA RecordedStep == IInv /\ RecordedInv /\ [Next]_vars => RecordedInv'
<1> SUFFICES ASSUME IInv, RecordedInv, [Next]_vars PROVE RecordedInv'  OBVIOUS
<1>1. at \in [Events -> Points]  BY DEF IInv, TypeOK
<1>2. None # Pending /\ None # NewRow /\ \A e \in Events : seen[e] # None
  <2>1. Pending \in Mirror /\ NewRow \in Row  BY DEF Pending, Mirror, NewRow, Row, StepKeys
  <2> QED  BY <2>1, OnboardingAssumption DEF IInv, TypeOK
<1> USE <1>1, <1>2 DEF RecordedInv, Settled, Go, rows
<1>3. CASE UNCHANGED vars
  BY <1>3 DEF vars
<1>4. ASSUME NEW e \in Events, EnsureClient(e) PROVE RecordedInv'
  BY <1>4 DEF EnsureClient, Fetch
<1>5. ASSUME NEW e \in Events, UpsertProgress(e) PROVE RecordedInv'
  BY <1>5 DEF UpsertProgress
<1>6. ASSUME NEW e \in Events, CountSteps(e) PROVE RecordedInv'
  BY <1>6 DEF CountSteps
<1>7. ASSUME NEW e \in Events, Commit(e) PROVE RecordedInv'
  <2>1. progress' # None  BY <1>7, RowIsWritten
  <2> QED  BY <1>7, <2>1 DEF Commit
<1>8. ASSUME NEW e \in Events, FindProgress(e) PROVE RecordedInv'
  BY <1>8, OnboardingAssumption DEF FindProgress, Fetch
<1>9. ASSUME NEW e \in Events, ApproveProgress(e) PROVE RecordedInv'
  <2>1. progress' # None  BY <1>9, RowIsWritten
  <2> QED  BY <1>9, <2>1 DEF ApproveProgress
<1>10. ASSUME NEW e \in Events, updateClientOnboardingState(e) PROVE RecordedInv'
  BY <1>10 DEF updateClientOnboardingState
<1>11. ASSUME NEW e \in Events, writeAuditLog(e) \/ Fails(e) PROVE RecordedInv'
  BY <1>11 DEF writeAuditLog, Fails, Failed
<1> QED  BY <1>3, <1>4, <1>5, <1>6, <1>7, <1>8, <1>9, <1>10, <1>11 DEF Next, Handle

\* The safety under EveryDocumentCounts, true of overlapping handlers, failures
\* and retries in any order: no acknowledged document is missing among the
\* steps, and none is audited for a client without its row
\* (updateOnboardingProgress, writeAuditLog).
THEOREM AcknowledgedLeavesItsRecord == Spec => []AcknowledgedIsRecorded
<1>1. Init => RecordedInv
  BY DEF Init, RecordedInv, Settled
<1>2. RecordedInv => AcknowledgedIsRecorded
  BY DEF RecordedInv, AcknowledgedIsRecorded, Settled
<1> QED  BY <1>1, <1>2, RecordedStep, InitInvariant, StepInvariant, PTL DEF Spec
==============================================================================
