------------------------- MODULE EventDeliveryProofs -------------------------
(***************************************************************************)
(* Machine-checked proofs about EventDelivery, for any sets of jobs, keys, *)
(* workers and replay requests, any limit on attempts and any number of    *)
(* faults.                                                                 *)
(***************************************************************************)
EXTENDS EventDelivery, FiniteSetTheorems, TLAPS

(* Inductive strengthenings of the invariants of EventDelivery.            *)

\* A job with attempts left is never finished, and only active jobs are locked.
QueueInv ==
    \A j \in Jobs :
        /\ status[j] = "absent" => attemptsMade[j] = 0
        /\ status[j] \in {"waiting", "delayed", "active"} => attemptsMade[j] < MaxAttempts
        /\ lock[j] # None => status[j] = "active"

\* A worker that passed SET NX and has not yet given the key back.
Holding(w) == pc[w] \in {"handling", "marking", "releasing"}

\* A worker between SET NX and DEL finds its key in Redis, and is alone there.
LockInv ==
    /\ \A w \in Workers : Holding(w) => Key(w) \in processing
    /\ \A v, w \in Workers : v # w /\ Holding(v) /\ Holding(w) => Key(v) # Key(w)

\* What process(job) has established by the time it is about to acknowledge.
AppliedInv ==
    /\ \A k \in processed : applied[k] > 0
    /\ \A w \in Workers : pc[w] \in {"marking", "completing"} => applied[Key(w)] > 0

\* A replay job is in the queue and carries the event of the entry it replays;
\* a request that has added it finds it there.
ReplayInv ==
    /\ \A n \in Jobs : origin[n] # None => status[n] # "absent" /\ SameEvent(n, origin[n])
    /\ \A r \in Requests : replay[r].at = "added" => \E n \in Jobs : origin[n] = replay[r].entry

\* Workers run published jobs only.
RunningInv == \A w \in Workers : pc[w] # "idle" => status[job[w]] # "absent"

-----------------------------------------------------------------------------
(* Typing.                                                                 *)

\* The typing invariant is inductive together with QueueInv: an attempt is
\* counted only while attempts are left, which needs the lock to be that of
\* an active job.
LEMMA TypingStep ==
    ASSUME TypeOK, QueueInv, [Next]_vars
    PROVE  TypeOK' /\ QueueInv'
<1> USE DeliveryAssumption
<1> USE DEF TypeOK, QueueInv, queueVars, workerVars, storeVars, Status, Points,
            Go, Key, Fault, Leave
<1>1. ASSUME NEW j \in Jobs, Publish(j) PROVE TypeOK' /\ QueueInv'
  BY <1>1 DEF Publish
<1>2. ASSUME NEW j \in Jobs, Promote(j) PROVE TypeOK' /\ QueueInv'
  BY <1>2 DEF Promote
<1>3. ASSUME NEW j \in Jobs, Stalled(j) PROVE TypeOK' /\ QueueInv'
  BY <1>3 DEF Stalled
<1>4. ASSUME NEW w \in Workers, Parse(w) PROVE TypeOK' /\ QueueInv'
  BY <1>4 DEF Parse
<1>5. ASSUME NEW w \in Workers, HasProcessed(w) PROVE TypeOK' /\ QueueInv'
  BY <1>5 DEF HasProcessed, IsProcessed
<1>6. ASSUME NEW w \in Workers, Acquire(w) PROVE TypeOK' /\ QueueInv'
  BY <1>6 DEF Acquire
<1>7. ASSUME NEW w \in Workers, HandlerSucceeds(w) PROVE TypeOK' /\ QueueInv'
  BY <1>7 DEF HandlerSucceeds
<1>8. ASSUME NEW w \in Workers, HandlerFails(w) PROVE TypeOK' /\ QueueInv'
  BY <1>8 DEF HandlerFails
<1>9. ASSUME NEW w \in Workers, MarkProcessed(w) PROVE TypeOK' /\ QueueInv'
  BY <1>9 DEF MarkProcessed
<1>10. ASSUME NEW w \in Workers, MarkProcessedThrows(w) PROVE TypeOK' /\ QueueInv'
  BY <1>10 DEF MarkProcessedThrows
<1>11. ASSUME NEW w \in Workers, Release(w) PROVE TypeOK' /\ QueueInv'
  BY <1>11 DEF Release
<1>12. ASSUME NEW w \in Workers, Complete(w) PROVE TypeOK' /\ QueueInv'
  BY <1>12 DEF Complete
<1>13. ASSUME NEW w \in Workers, Retry(w) PROVE TypeOK' /\ QueueInv'
  BY <1>13 DEF Retry, AttemptsAfter, AttemptsLeft
<1>14. ASSUME NEW w \in Workers, FailFinally(w) PROVE TypeOK' /\ QueueInv'
  BY <1>14 DEF FailFinally, AttemptsAfter, AttemptsLeft, Exhausted
<1>15. ASSUME NEW w \in Workers, OutcomeRefused(w) PROVE TypeOK' /\ QueueInv'
  BY <1>15 DEF OutcomeRefused
<1>16. ASSUME NEW w \in Workers, Crash(w) PROVE TypeOK' /\ QueueInv'
  BY <1>16 DEF Crash
<1>17. ASSUME NEW w \in Workers, NEW j \in Jobs, Fetch(w, j) PROVE TypeOK' /\ QueueInv'
  BY <1>17 DEF Fetch
<1>18. ASSUME NEW w \in Workers, NEW j \in Jobs, DeadLetter(w, j) PROVE TypeOK' /\ QueueInv'
  BY <1>18 DEF DeadLetter
<1>19. ASSUME NEW k \in Keys, Expire(k) PROVE TypeOK' /\ QueueInv'
  BY <1>19 DEF Expire
<1>20. ASSUME NEW r \in Requests, ReplayRemove(r) PROVE TypeOK' /\ QueueInv'
  BY <1>20 DEF ReplayRemove
<1>21. ASSUME NEW r \in Requests, ReplayDies(r) PROVE TypeOK' /\ QueueInv'
  BY <1>21 DEF ReplayDies
<1>22. ASSUME NEW r \in Requests, NEW j \in Jobs, ReplayGetJob(r, j) PROVE TypeOK' /\ QueueInv'
  BY <1>22 DEF ReplayGetJob
<1>23. ASSUME NEW r \in Requests, NEW j \in Jobs, ReplayAdd(r, j) PROVE TypeOK' /\ QueueInv'
  BY <1>23 DEF ReplayAdd
<1>24. CASE UNCHANGED vars
  BY <1>24 DEF vars
<1>25. QED
  BY <1>1, <1>2, <1>3, <1>4, <1>5, <1>6, <1>7, <1>8, <1>9, <1>10, <1>11, <1>12,
     <1>13, <1>14, <1>15, <1>16, <1>17, <1>18, <1>19, <1>20, <1>21, <1>22, <1>23,
     <1>24 DEF Next, Run

LEMMA Typing == Spec => [](TypeOK /\ QueueInv)
<1>1. Init => TypeOK /\ QueueInv
  BY DeliveryAssumption DEF Init, TypeOK, QueueInv, Status, Points
<1>2. TypeOK /\ QueueInv /\ [Next]_vars => TypeOK' /\ QueueInv'
  BY TypingStep
<1>3. QED
  BY <1>1, <1>2, PTL DEF Spec

\* Every variable keeps its type: no attempt beyond the limit is ever counted,
\* and a worker that is not idle always has a job (QueueManager, EventSubscriber).
THEOREM TypeCorrect == Spec => []TypeOK
<1>1. QED
  BY Typing, PTL

-----------------------------------------------------------------------------
\* The idempotency lock.  Only a MULTI whose reply is lost lets a worker go on
\* to DEL a key it no longer owns, so that fault is excluded.
LEMMA LockStep ==
    ASSUME "lost_reply" \notin Faults, TypeOK, LockInv, [Next]_vars
    PROVE  LockInv'
<1> USE DEF TypeOK, LockInv, Holding, queueVars, workerVars, storeVars, Points,
            Go, Key, Fault, Leave
<1>1. ASSUME NEW j \in Jobs, Publish(j) PROVE LockInv'
  BY <1>1 DEF Publish
<1>2. ASSUME NEW j \in Jobs, Promote(j) PROVE LockInv'
  BY <1>2 DEF Promote
<1>3. ASSUME NEW j \in Jobs, Stalled(j) PROVE LockInv'
  BY <1>3 DEF Stalled
<1>4. ASSUME NEW w \in Workers, Parse(w) PROVE LockInv'
  BY <1>4 DEF Parse
<1>5. ASSUME NEW w \in Workers, HasProcessed(w) PROVE LockInv'
  BY <1>5 DEF HasProcessed, IsProcessed
<1>6. ASSUME NEW w \in Workers, Acquire(w) PROVE LockInv'
  BY <1>6 DEF Acquire
<1>7. ASSUME NEW w \in Workers, HandlerSucceeds(w) PROVE LockInv'
  BY <1>7 DEF HandlerSucceeds
<1>8. ASSUME NEW w \in Workers, HandlerFails(w) PROVE LockInv'
  BY <1>8 DEF HandlerFails
<1>9. ASSUME NEW w \in Workers, MarkProcessed(w) PROVE LockInv'
  BY <1>9 DEF MarkProcessed
<1>10. ASSUME NEW w \in Workers, MarkProcessedThrows(w) PROVE LockInv'
  BY <1>10 DEF MarkProcessedThrows
<1>11. ASSUME NEW w \in Workers, Release(w) PROVE LockInv'
  BY <1>11 DEF Release
<1>12. ASSUME NEW w \in Workers, Complete(w) PROVE LockInv'
  BY <1>12 DEF Complete
<1>13. ASSUME NEW w \in Workers, Retry(w) PROVE LockInv'
  BY <1>13 DEF Retry, AttemptsAfter, AttemptsLeft
<1>14. ASSUME NEW w \in Workers, FailFinally(w) PROVE LockInv'
  BY <1>14 DEF FailFinally, AttemptsAfter, AttemptsLeft, Exhausted
<1>15. ASSUME NEW w \in Workers, OutcomeRefused(w) PROVE LockInv'
  BY <1>15 DEF OutcomeRefused
<1>16. ASSUME NEW w \in Workers, Crash(w) PROVE LockInv'
  BY <1>16 DEF Crash
<1>17. ASSUME NEW w \in Workers, NEW j \in Jobs, Fetch(w, j) PROVE LockInv'
  BY <1>17 DEF Fetch
<1>18. ASSUME NEW w \in Workers, NEW j \in Jobs, DeadLetter(w, j) PROVE LockInv'
  BY <1>18 DEF DeadLetter
<1>19. ASSUME NEW k \in Keys, Expire(k) PROVE LockInv'
  BY <1>19 DEF Expire, Settled
<1>20. ASSUME NEW r \in Requests, ReplayRemove(r) PROVE LockInv'
  BY <1>20 DEF ReplayRemove
<1>21. ASSUME NEW r \in Requests, ReplayDies(r) PROVE LockInv'
  BY <1>21 DEF ReplayDies
<1>22. ASSUME NEW r \in Requests, NEW j \in Jobs, ReplayGetJob(r, j) PROVE LockInv'
  BY <1>22 DEF ReplayGetJob
<1>23. ASSUME NEW r \in Requests, NEW j \in Jobs, ReplayAdd(r, j) PROVE LockInv'
  BY <1>23 DEF ReplayAdd
<1>24. CASE UNCHANGED vars
  BY <1>24 DEF vars
<1>25. QED
  BY <1>1, <1>2, <1>3, <1>4, <1>5, <1>6, <1>7, <1>8, <1>9, <1>10, <1>11,
     <1>12, <1>13, <1>14, <1>15, <1>16, <1>17, <1>18, <1>19, <1>20, <1>21,
     <1>22, <1>23, <1>24 DEF Next, Run

\* HandlerExclusion for every number of workers, jobs and faults: two runs of
\* the handler for one idempotency key never overlap, as long as no reply to a
\* MULTI is lost (IdempotencyStore.acquire, markProcessed, release).
THEOREM HandlersExclude ==
    ASSUME "lost_reply" \notin Faults
    PROVE  Spec => []HandlerExclusion
<1>1. Init => LockInv
  BY DEF Init, LockInv, Holding
<1>2. TypeOK /\ LockInv /\ [Next]_vars => LockInv'
  BY LockStep
<1>3. LockInv => HandlerExclusion
  BY DEF LockInv, HandlerExclusion, Holding
<1>4. QED
  BY <1>1, <1>2, <1>3, Typing, PTL DEF Spec

-----------------------------------------------------------------------------
\* Acknowledgement.
LEMMA AppliedStep ==
    ASSUME TypeOK, AppliedInv, AcknowledgedMeansApplied, [Next]_vars
    PROVE  AppliedInv' /\ AcknowledgedMeansApplied'
<1> USE DeliveryAssumption
<1> USE DEF TypeOK, AppliedInv, AcknowledgedMeansApplied, queueVars, workerVars,
            storeVars, Points, Go, Key, Fault, Leave
<1>1. ASSUME NEW j \in Jobs, Publish(j) PROVE AppliedInv' /\ AcknowledgedMeansApplied'
  BY <1>1 DEF Publish
<1>2. ASSUME NEW j \in Jobs, Promote(j) PROVE AppliedInv' /\ AcknowledgedMeansApplied'
  BY <1>2 DEF Promote
<1>3. ASSUME NEW j \in Jobs, Stalled(j) PROVE AppliedInv' /\ AcknowledgedMeansApplied'
  BY <1>3 DEF Stalled
<1>4. ASSUME NEW w \in Workers, Parse(w) PROVE AppliedInv' /\ AcknowledgedMeansApplied'
  BY <1>4 DEF Parse
<1>5. ASSUME NEW w \in Workers, HasProcessed(w) PROVE AppliedInv' /\ AcknowledgedMeansApplied'
  BY <1>5 DEF HasProcessed, IsProcessed
<1>6. ASSUME NEW w \in Workers, Acquire(w) PROVE AppliedInv' /\ AcknowledgedMeansApplied'
  BY <1>6 DEF Acquire
<1>7. ASSUME NEW w \in Workers, HandlerSucceeds(w) PROVE AppliedInv' /\ AcknowledgedMeansApplied'
  BY <1>7 DEF HandlerSucceeds
<1>8. ASSUME NEW w \in Workers, HandlerFails(w) PROVE AppliedInv' /\ AcknowledgedMeansApplied'
  BY <1>8 DEF HandlerFails
<1>9. ASSUME NEW w \in Workers, MarkProcessed(w) PROVE AppliedInv' /\ AcknowledgedMeansApplied'
  BY <1>9 DEF MarkProcessed
<1>10. ASSUME NEW w \in Workers, MarkProcessedThrows(w) PROVE AppliedInv' /\ AcknowledgedMeansApplied'
  BY <1>10 DEF MarkProcessedThrows
<1>11. ASSUME NEW w \in Workers, Release(w) PROVE AppliedInv' /\ AcknowledgedMeansApplied'
  BY <1>11 DEF Release
<1>12. ASSUME NEW w \in Workers, Complete(w) PROVE AppliedInv' /\ AcknowledgedMeansApplied'
  BY <1>12 DEF Complete
<1>13. ASSUME NEW w \in Workers, Retry(w) PROVE AppliedInv' /\ AcknowledgedMeansApplied'
  BY <1>13 DEF Retry, AttemptsAfter, AttemptsLeft
<1>14. ASSUME NEW w \in Workers, FailFinally(w) PROVE AppliedInv' /\ AcknowledgedMeansApplied'
  BY <1>14 DEF FailFinally, AttemptsAfter, AttemptsLeft, Exhausted
<1>15. ASSUME NEW w \in Workers, OutcomeRefused(w) PROVE AppliedInv' /\ AcknowledgedMeansApplied'
  BY <1>15 DEF OutcomeRefused
<1>16. ASSUME NEW w \in Workers, Crash(w) PROVE AppliedInv' /\ AcknowledgedMeansApplied'
  BY <1>16 DEF Crash
<1>17. ASSUME NEW w \in Workers, NEW j \in Jobs, Fetch(w, j) PROVE AppliedInv' /\ AcknowledgedMeansApplied'
  BY <1>17 DEF Fetch
<1>18. ASSUME NEW w \in Workers, NEW j \in Jobs, DeadLetter(w, j) PROVE AppliedInv' /\ AcknowledgedMeansApplied'
  BY <1>18 DEF DeadLetter
<1>19. ASSUME NEW k \in Keys, Expire(k) PROVE AppliedInv' /\ AcknowledgedMeansApplied'
  BY <1>19 DEF Expire
<1>20. ASSUME NEW r \in Requests, ReplayRemove(r) PROVE AppliedInv' /\ AcknowledgedMeansApplied'
  BY <1>20 DEF ReplayRemove
<1>21. ASSUME NEW r \in Requests, ReplayDies(r) PROVE AppliedInv' /\ AcknowledgedMeansApplied'
  BY <1>21 DEF ReplayDies
<1>22. ASSUME NEW r \in Requests, NEW j \in Jobs, ReplayGetJob(r, j) PROVE AppliedInv' /\ AcknowledgedMeansApplied'
  BY <1>22 DEF ReplayGetJob
<1>23. ASSUME NEW r \in Requests, NEW j \in Jobs, ReplayAdd(r, j) PROVE AppliedInv' /\ AcknowledgedMeansApplied'
  BY <1>23 DEF ReplayAdd
<1>24. CASE UNCHANGED vars
  BY <1>24 DEF vars
<1>25. QED
  BY <1>1, <1>2, <1>3, <1>4, <1>5, <1>6, <1>7, <1>8, <1>9, <1>10, <1>11,
     <1>12, <1>13, <1>14, <1>15, <1>16, <1>17, <1>18, <1>19, <1>20, <1>21,
     <1>22, <1>23, <1>24 DEF Next, Run

\* A job is acknowledged only after its handler succeeded for its key, through
\* every crash, lost lock, lost reply and duplicate (EventSubscriber.process).
THEOREM AcknowledgedIsApplied == Spec => []AcknowledgedMeansApplied
<1>1. Init => AppliedInv /\ AcknowledgedMeansApplied
  BY DEF Init, AppliedInv, AcknowledgedMeansApplied
<1>2. TypeOK /\ AppliedInv /\ AcknowledgedMeansApplied /\ [Next]_vars
      => AppliedInv' /\ AcknowledgedMeansApplied'
  BY AppliedStep
<1>3. QED
  BY <1>1, <1>2, Typing, PTL DEF Spec

-----------------------------------------------------------------------------
\* Dead letters.
LEMMA DeadLetterStep ==
    ASSUME TypeOK, QueueInv, DeadLetteredIsFinal, [Next]_vars
    PROVE  DeadLetteredIsFinal'
<1> USE DeliveryAssumption
<1> USE DEF TypeOK, QueueInv, DeadLetteredIsFinal, queueVars, workerVars, Leave
<1>1. CASE UNCHANGED <<status, attemptsMade, listening, dlq>>
  BY <1>1
<1>2. ASSUME NEW j \in Jobs, Publish(j) \/ Promote(j) \/ Stalled(j)
      PROVE  DeadLetteredIsFinal'
  BY <1>2 DEF Publish, Promote, Stalled
<1>3. ASSUME NEW w \in Workers, Complete(w) PROVE DeadLetteredIsFinal'
  BY <1>3 DEF Complete
<1>4. ASSUME NEW w \in Workers, Retry(w) PROVE DeadLetteredIsFinal'
  BY <1>4 DEF Retry, AttemptsAfter, AttemptsLeft
<1>5. ASSUME NEW w \in Workers, FailFinally(w) PROVE DeadLetteredIsFinal'
  <2> DEFINE j == job[w]
  <2>1. j \in Jobs /\ status[j] = "active" /\ attemptsMade[j] < MaxAttempts
    BY <1>5 DEF FailFinally, AttemptsAfter, AttemptsLeft, Exhausted
  <2>2. /\ status' = [status EXCEPT ![j] = "failed"]
        /\ attemptsMade' = [attemptsMade EXCEPT ![j] = attemptsMade[j] + 1]
        /\ dlq' = dlq
        /\ \/ listening' = listening
           \/ /\ attemptsMade[j] + 1 >= MaxAttempts
              /\ listening' = [listening EXCEPT ![w] = listening[w] \cup {j}]
    BY <1>5 DEF FailFinally, AttemptsAfter, AttemptsLeft, Exhausted
  <2>3. attemptsMade[j] \in Nat /\ attemptsMade[j] + 1 <= MaxAttempts
    BY <2>1
  <2> HIDE DEF j
  <2>4. SUFFICES ASSUME NEW i \in Jobs,
                        i \in dlq' \/ \E v \in Workers : i \in listening'[v]
                 PROVE  status'[i] = "failed" /\ attemptsMade'[i] = MaxAttempts
    BY DEF DeadLetteredIsFinal
  <2>5. CASE i = j
    <3>1. i \notin dlq /\ \A v \in Workers : i \notin listening[v]
      BY <2>1, <2>5
    <3>2. attemptsMade[j] + 1 >= MaxAttempts
      BY <3>1, <2>2, <2>4
    <3>3. attemptsMade[j] + 1 = MaxAttempts
      BY <3>2, <2>3
    <3>4. status'[j] = "failed" /\ attemptsMade'[j] = attemptsMade[j] + 1
      BY <2>1, <2>2
    <3>5. QED
      BY <3>3, <3>4, <2>5
  <2>6. CASE i # j
    <3>1. i \in dlq \/ \E v \in Workers : i \in listening[v]
      BY <2>2, <2>4, <2>6
    <3>2. QED
      BY <3>1, <2>2, <2>6
  <2>7. QED
    BY <2>5, <2>6
<1>6. ASSUME NEW w \in Workers, Crash(w) PROVE DeadLetteredIsFinal'
  BY <1>6 DEF Crash
<1>7. ASSUME NEW w \in Workers, NEW j \in Jobs, Fetch(w, j) PROVE DeadLetteredIsFinal'
  BY <1>7 DEF Fetch
<1>8. ASSUME NEW w \in Workers, NEW j \in Jobs, DeadLetter(w, j) PROVE DeadLetteredIsFinal'
  BY <1>8 DEF DeadLetter
<1>9. ASSUME NEW r \in Requests, ReplayRemove(r) PROVE DeadLetteredIsFinal'
  BY <1>9 DEF ReplayRemove
<1>10. ASSUME NEW r \in Requests, NEW n \in Jobs, ReplayAdd(r, n) PROVE DeadLetteredIsFinal'
  BY <1>10 DEF ReplayAdd
<1>11. QED
  BY <1>1, <1>2, <1>3, <1>4, <1>5, <1>6, <1>7, <1>8, <1>9, <1>10
     DEF Next, Run, vars, Parse, HasProcessed, Acquire, HandlerSucceeds,
         HandlerFails, MarkProcessed, MarkProcessedThrows, Release,
         OutcomeRefused, Expire, ReplayDies, ReplayGetJob

\* Whatever is dead-lettered was attempted to the limit and never runs again
\* (the "failed" listener of EventSubscriber.start).
THEOREM DeadLettersAreFinal == Spec => []DeadLetteredIsFinal
<1>1. Init => DeadLetteredIsFinal
  BY DEF Init, DeadLetteredIsFinal
<1>2. TypeOK /\ QueueInv /\ DeadLetteredIsFinal /\ [Next]_vars => DeadLetteredIsFinal'
  BY DeadLetterStep
<1>3. QED
  BY <1>1, <1>2, Typing, PTL DEF Spec

-----------------------------------------------------------------------------
\* Replay.
LEMMA ReplayStep ==
    ASSUME TypeOK, QueueInv, ReplayInv, [Next]_vars
    PROVE  ReplayInv'
<1> USE DeliveryAssumption
<1> USE DEF TypeOK, QueueInv, ReplayInv, SameEvent, queueVars, workerVars, Leave
<1>1. CASE UNCHANGED <<status, origin, replay>>
  BY <1>1
<1>2. ASSUME NEW j \in Jobs, Publish(j) \/ Promote(j) \/ Stalled(j)
      PROVE  ReplayInv'
  BY <1>2 DEF Publish, Promote, Stalled
<1>3. ASSUME NEW w \in Workers, Complete(w) \/ Retry(w) \/ FailFinally(w)
      PROVE  ReplayInv'
  BY <1>3 DEF Complete, Retry, FailFinally
<1>4. ASSUME NEW w \in Workers, NEW j \in Jobs, Fetch(w, j) PROVE ReplayInv'
  BY <1>4 DEF Fetch
<1>5. ASSUME NEW r \in Requests, ReplayRemove(r) \/ ReplayDies(r) PROVE ReplayInv'
  BY <1>5 DEF ReplayRemove, ReplayDies
<1>6. ASSUME NEW r \in Requests, NEW j \in Jobs, ReplayGetJob(r, j) PROVE ReplayInv'
  BY <1>6 DEF ReplayGetJob
<1>7. ASSUME NEW r \in Requests, NEW n \in Jobs, ReplayAdd(r, n) PROVE ReplayInv'
  BY <1>7 DEF ReplayAdd
<1>8. QED
  BY <1>1, <1>2, <1>3, <1>4, <1>5, <1>6, <1>7
     DEF Next, Run, vars, Parse, HasProcessed, Acquire, HandlerSucceeds,
         HandlerFails, MarkProcessed, MarkProcessedThrows, Release,
         OutcomeRefused, Expire, Crash, DeadLetter

\* An entry leaves the DLQ only when a copy of its event has been queued, for
\* any number of concurrent replays and gateway failures (QueueManager.replayJob).
THEOREM ReplayKeepsEvents == Spec => ReplayKeepsEvent
<1>1. Init => ReplayInv
  BY DEF Init, ReplayInv
<1>2. TypeOK /\ QueueInv /\ ReplayInv /\ [Next]_vars => ReplayInv'
  BY ReplayStep
<1>3. TypeOK /\ ReplayInv /\ ReplayInv' /\ [Next]_vars =>
      [\A j \in dlq \ dlq' : \E n \in Jobs : origin[n] = j /\ SameEvent(n, j)]_vars
  <2> SUFFICES ASSUME TypeOK, ReplayInv, Next, NEW j \in dlq \ dlq'
               PROVE  \E n \in Jobs : origin[n] = j /\ SameEvent(n, j)
    OBVIOUS
  <2>1. PICK r \in Requests : ReplayRemove(r)
    BY DEF Next, Run, Publish, Promote, Stalled, Parse, HasProcessed, Acquire,
           HandlerSucceeds, HandlerFails, MarkProcessed, MarkProcessedThrows,
           Release, Complete, Retry, FailFinally, OutcomeRefused, Crash, Fetch,
           DeadLetter, Expire, ReplayDies, ReplayGetJob, ReplayAdd
  <2>2. replay[r].at = "added" /\ j = replay[r].entry
    BY <2>1 DEF ReplayRemove
  <2>3. QED
    BY <2>2, DeliveryAssumption DEF ReplayInv, TypeOK
<1>4. QED
  BY <1>1, <1>2, <1>3, Typing, PTL DEF Spec, ReplayKeepsEvent

-----------------------------------------------------------------------------
\* Refinement of DeliveryContract.
LEMMA RunningStep ==
    ASSUME TypeOK, QueueInv, RunningInv, [Next]_vars
    PROVE  RunningInv'
<1> USE DeliveryAssumption
<1> USE DEF TypeOK, QueueInv, RunningInv, queueVars, workerVars, Go, Leave
<1>1. CASE UNCHANGED <<status, pc, job>>
  BY <1>1
<1>2. ASSUME NEW j \in Jobs, Publish(j) \/ Promote(j) \/ Stalled(j)
      PROVE  RunningInv'
  BY <1>2 DEF Publish, Promote, Stalled
<1>3. ASSUME NEW w \in Workers,
             Parse(w) \/ HasProcessed(w) \/ Acquire(w) \/ HandlerSucceeds(w)
             \/ HandlerFails(w) \/ MarkProcessed(w) \/ MarkProcessedThrows(w)
             \/ Release(w)
      PROVE  RunningInv'
  BY <1>3 DEF Parse, HasProcessed, Acquire, HandlerSucceeds, HandlerFails,
              MarkProcessed, MarkProcessedThrows, Release
<1>4. ASSUME NEW w \in Workers, Complete(w) \/ OutcomeRefused(w) \/ Crash(w)
      PROVE  RunningInv'
  BY <1>4 DEF Complete, OutcomeRefused, Crash
<1>5. ASSUME NEW w \in Workers, Retry(w) \/ FailFinally(w) PROVE RunningInv'
  BY <1>5 DEF Retry, FailFinally
<1>6. ASSUME NEW w \in Workers, NEW j \in Jobs, Fetch(w, j) PROVE RunningInv'
  BY <1>6 DEF Fetch
<1>7. ASSUME NEW r \in Requests, NEW n \in Jobs, ReplayAdd(r, n) PROVE RunningInv'
  BY <1>7 DEF ReplayAdd
<1>8. QED
  BY <1>1, <1>2, <1>3, <1>4, <1>5, <1>6, <1>7
     DEF Next, Run, vars, DeadLetter, Expire, ReplayGetJob, ReplayRemove, ReplayDies

LEMMA ContractActions ==
    /\ \A j \in Jobs : Contract!Queue(j) \/ Contract!Acknowledge(j) \/ Contract!GiveUp(j)
                       => Contract!ContractNext
    /\ \A k \in Keys : Contract!Handle(k) => Contract!ContractNext
BY DEF Contract!ContractNext

\* Every step of the queue is a step of DeliveryContract or leaves it alone.
LEMMA ContractStep ==
    ASSUME TypeOK, QueueInv, RunningInv, AppliedInv, [Next]_vars
    PROVE  [Contract!ContractNext]_(Contract!contractVars)
<1> DEFINE phase == [j \in Jobs |-> PhaseOf(j)]
           handled == {k \in Keys : applied[k] > 0}
<1> USE DeliveryAssumption
<1> USE DEF TypeOK, QueueInv, RunningInv, AppliedInv, Status, queueVars, workerVars,
            Contract!contractVars, PhaseOf
<1>1. ASSUME UNCHANGED <<status, applied>> PROVE UNCHANGED <<phase, handled>>
  BY <1>1
<1>2. ASSUME NEW j \in Jobs, Publish(j) \/ \E r \in Requests : ReplayAdd(r, j)
      PROVE  Contract!Queue(j)
  <2>1. /\ status[j] = "absent"
        /\ status' = [status EXCEPT ![j] = "waiting"]
        /\ applied' = applied
    BY <1>2 DEF Publish, ReplayAdd
  <2>2. phase' = [phase EXCEPT ![j] = "pending"] /\ phase[j] = "unpublished"
    BY <2>1
  <2>3. QED
    BY <2>1, <2>2 DEF Contract!Queue
<1>3. ASSUME NEW j \in Jobs,
             Promote(j) \/ Stalled(j) \/ \E w \in Workers : Fetch(w, j)
      PROVE  UNCHANGED <<phase, handled>>
  BY <1>3 DEF Promote, Stalled, Fetch
<1>4. ASSUME NEW w \in Workers, Retry(w) PROVE UNCHANGED <<phase, handled>>
  BY <1>4 DEF Retry, AttemptsAfter, AttemptsLeft
<1>5. ASSUME NEW w \in Workers, HandlerSucceeds(w) PROVE Contract!ContractNext
  <2>1. PICK k \in Keys : k = Key(w)
    BY <1>5 DEF HandlerSucceeds, Key
  <2>2. Contract!Handle(k)
    BY <1>5, <2>1 DEF HandlerSucceeds, Contract!Handle, Key
  <2>3. QED
    BY <2>2, ContractActions
<1>6. ASSUME NEW w \in Workers, Complete(w) PROVE Contract!ContractNext
  <2>1. PICK j \in Jobs : j = job[w]
    BY <1>6 DEF Complete, Key
  <2>2. Contract!Acknowledge(j)
    BY <1>6, <2>1 DEF Complete, Contract!Acknowledge, Key
  <2>3. QED
    BY <2>2, ContractActions
<1>7. ASSUME NEW w \in Workers, FailFinally(w) PROVE Contract!ContractNext
  <2>1. PICK j \in Jobs : j = job[w]
    BY <1>7 DEF FailFinally, Key
  <2>2. Contract!GiveUp(j)
    BY <1>7, <2>1 DEF FailFinally, Contract!GiveUp, Key
  <2>3. QED
    BY <2>2, ContractActions
<1>8. ASSUME NEW w \in Workers,
             \/ Parse(w) \/ HasProcessed(w) \/ Acquire(w) \/ HandlerFails(w)
             \/ MarkProcessed(w) \/ MarkProcessedThrows(w) \/ Release(w)
             \/ OutcomeRefused(w) \/ Crash(w)
             \/ \E j \in Jobs : DeadLetter(w, j)
      PROVE  UNCHANGED <<status, applied>>
  BY <1>8 DEF Parse, HasProcessed, Acquire, HandlerFails, MarkProcessed,
     MarkProcessedThrows, Release, OutcomeRefused, Crash, DeadLetter
<1>9. ASSUME NEW k \in Keys, Expire(k) PROVE UNCHANGED <<status, applied>>
  BY <1>9 DEF Expire
<1>10. ASSUME NEW r \in Requests,
              \/ ReplayRemove(r) \/ ReplayDies(r)
              \/ \E j \in Jobs : ReplayGetJob(r, j)
       PROVE  UNCHANGED <<status, applied>>
  BY <1>10 DEF ReplayRemove, ReplayDies, ReplayGetJob
<1> DEFINE Simulates == Contract!ContractNext \/ UNCHANGED <<phase, handled>>
<1>11. ASSUME NEW w \in Workers, Run(w) PROVE Simulates
  BY <1>11, <1>1, <1>4, <1>5, <1>6, <1>7, <1>8 DEF Run
<1>12. ASSUME NEW j \in Jobs, Publish(j) \/ Promote(j) \/ Stalled(j) PROVE Simulates
  BY <1>12, <1>2, <1>3, ContractActions
<1>13. ASSUME NEW w \in Workers, Crash(w) PROVE Simulates
  BY <1>13, <1>1, <1>8
<1>14. ASSUME NEW w \in Workers, NEW j \in Jobs, Fetch(w, j) \/ DeadLetter(w, j)
       PROVE  Simulates
  BY <1>14, <1>1, <1>3, <1>8
<1>15. ASSUME NEW k \in Keys, Expire(k) PROVE Simulates
  BY <1>15, <1>1, <1>9
<1>16. ASSUME NEW r \in Requests, ReplayRemove(r) \/ ReplayDies(r) PROVE Simulates
  BY <1>16, <1>1, <1>10
<1>17. ASSUME NEW r \in Requests, NEW j \in Jobs, ReplayGetJob(r, j) \/ ReplayAdd(r, j)
       PROVE  Simulates
  BY <1>17, <1>1, <1>2, <1>10, ContractActions
<1>18. ASSUME UNCHANGED vars PROVE Simulates
  BY <1>18, <1>1 DEF vars
<1>19. Simulates
  <2> HIDE DEF Simulates
  <2>1. QED
    BY <1>11, <1>12, <1>13, <1>14, <1>15, <1>16, <1>17, <1>18 DEF Next
<1>20. QED
  BY <1>19 DEF PhaseOf

\* The queue implements the contract for every value of the constants and under
\* every fault: no acknowledgement without a handled key, no effect without a
\* published event, no way out of "failed" but a new job.
THEOREM QueueImplementsContract == Spec => ImplementsContract
<1>1. Init => Contract!ContractInit
  BY DEF Init, Contract!ContractInit, PhaseOf
<1>2. TypeOK /\ QueueInv /\ RunningInv /\ AppliedInv /\ [Next]_vars
      => [Contract!ContractNext]_(Contract!contractVars)
  BY ContractStep
<1>3. Init => RunningInv /\ AppliedInv /\ AcknowledgedMeansApplied
  BY DEF Init, RunningInv, AppliedInv, AcknowledgedMeansApplied
<1>4. TypeOK /\ QueueInv /\ RunningInv /\ [Next]_vars => RunningInv'
  BY RunningStep
<1>5. TypeOK /\ AppliedInv /\ AcknowledgedMeansApplied /\ [Next]_vars
      => AppliedInv' /\ AcknowledgedMeansApplied'
  BY AppliedStep
<1>6. QED
  BY <1>1, <1>2, <1>3, <1>4, <1>5, Typing, PTL
     DEF Spec, ImplementsContract, Contract!ContractSpec

-----------------------------------------------------------------------------
\* Dead letters are not lost.  A listener is lost only with its process, be it
\* by its own rejected add.
LEMMA AccountedStep ==
    ASSUME Faults \cap {"crash", "redis_error"} = {},
           TypeOK, QueueInv, ReplayInv, ExhaustedIsAccounted, [Next]_vars
    PROVE  ExhaustedIsAccounted'
<1> USE DeliveryAssumption
<1> USE DEF TypeOK, QueueInv, ReplayInv, ExhaustedIsAccounted, queueVars, workerVars,
            Leave, Fault
<1>1. CASE UNCHANGED <<status, attemptsMade, origin, listening, dlq>>
  BY <1>1
<1>2. ASSUME NEW j \in Jobs, Publish(j) \/ Promote(j) \/ Stalled(j)
      PROVE  ExhaustedIsAccounted'
  BY <1>2 DEF Publish, Promote, Stalled
<1>3. ASSUME NEW w \in Workers, Complete(w) \/ Retry(w) PROVE ExhaustedIsAccounted'
  BY <1>3 DEF Complete, Retry
<1>4. ASSUME NEW w \in Workers, FailFinally(w) PROVE ExhaustedIsAccounted'
  <2>1. PICK j \in Jobs : j = job[w]
    <3>1. pc[w] # "idle"
      BY <1>4 DEF FailFinally
    <3> QED  BY <3>1
  <2>2. /\ attemptsMade' = [attemptsMade EXCEPT ![j] = AttemptsAfter(j)]
        /\ status' = [status EXCEPT ![j] = "failed"]
        /\ listening' = IF Exhausted(AttemptsAfter(j))
                        THEN [listening EXCEPT ![w] = @ \cup {j}]
                        ELSE listening
        /\ UNCHANGED <<dlq, origin>>
    BY <1>4, <2>1 DEF FailFinally
  <2>3. \A v \in Workers : listening[v] \subseteq listening'[v]
    BY <2>2
  <2>4. attemptsMade'[j] >= MaxAttempts => j \in listening'[w]
    BY <2>2 DEF Exhausted, AttemptsAfter
  <2> QED  BY <2>2, <2>3, <2>4
<1>5. ASSUME NEW w \in Workers, NEW j \in Jobs, Fetch(w, j) PROVE ExhaustedIsAccounted'
  BY <1>5 DEF Fetch
<1>6. ASSUME NEW w \in Workers, NEW j \in Jobs, DeadLetter(w, j) PROVE ExhaustedIsAccounted'
  BY <1>6 DEF DeadLetter
<1>7. ASSUME NEW r \in Requests, ReplayRemove(r) PROVE ExhaustedIsAccounted'
  BY <1>7 DEF ReplayRemove
<1>8. ASSUME NEW r \in Requests, NEW n \in Jobs, ReplayAdd(r, n) PROVE ExhaustedIsAccounted'
  <2>1. /\ status[n] = "absent" /\ status' = [status EXCEPT ![n] = "waiting"]
        /\ origin' = [origin EXCEPT ![n] = replay[r].entry]
        /\ UNCHANGED <<attemptsMade, listening, dlq>>
    BY <1>8 DEF ReplayAdd
  <2>2. origin[n] = None
    BY <2>1
  <2>3. ASSUME NEW j \in Jobs, NEW m \in Jobs, origin[m] = j
        PROVE  origin'[m] = j
    BY <2>1, <2>2, <2>3
  <2>4. ASSUME NEW j \in Jobs, status'[j] = "failed", attemptsMade'[j] >= MaxAttempts
        PROVE  \/ j \in dlq'
               \/ \E w \in Workers : j \in listening'[w]
               \/ \E m \in Jobs : origin'[m] = j
    <3>1. status[j] = "failed" /\ attemptsMade[j] >= MaxAttempts
      BY <2>1, <2>4
    <3>2. \/ j \in dlq
          \/ \E w \in Workers : j \in listening[w]
          \/ \E m \in Jobs : origin[m] = j
      BY <3>1
    <3> QED  BY <2>1, <2>3, <3>2
  <2> QED  BY <2>4
<1>9. ASSUME NEW w \in Workers, Crash(w) PROVE ExhaustedIsAccounted'
  BY <1>9 DEF Crash
<1>10. QED
  BY <1>1, <1>2, <1>3, <1>4, <1>5, <1>6, <1>7, <1>8, <1>9
     DEF Next, Run, vars, storeVars, Parse, HasProcessed, Acquire, HandlerSucceeds,
         HandlerFails, MarkProcessed, MarkProcessedThrows, Release,
         OutcomeRefused, Expire, ReplayDies, ReplayGetJob

\* ExhaustedIsAccounted through failing handlers, lost locks, lost replies, expiry
\* and any number of concurrent replays, provided no process dies and Redis
\* rejects no command: a rejected add to the DLQ ends the process, and the add
\* is all that stands between a failed job and its event's loss
\* (EventSubscriber's "failed" listener, QueueManager.replayJob).
THEOREM ExhaustedStaysAccounted ==
    ASSUME Faults \cap {"crash", "redis_error"} = {}
    PROVE  Spec => []ExhaustedIsAccounted
<1>1. Init => ReplayInv /\ ExhaustedIsAccounted
  BY DEF Init, ReplayInv, ExhaustedIsAccounted
<1>2. TypeOK /\ QueueInv /\ ReplayInv /\ [Next]_vars => ReplayInv'
  BY ReplayStep
<1>3. TypeOK /\ QueueInv /\ ReplayInv /\ ExhaustedIsAccounted /\ [Next]_vars
          => ExhaustedIsAccounted'
  BY AccountedStep
<1>4. QED
  BY <1>1, <1>2, <1>3, Typing, PTL DEF Spec

-----------------------------------------------------------------------------
\* At most once.  Where every key has one job, no worker loses a lock it needs
\* and Redis does not refuse the MULTI, the keys that guard a handler outlive it.

\* No worker loses the lock of a job it runs, so a job runs on one worker.
OneRunInv ==
    \A w \in Workers : pc[w] # "idle" => status[job[w]] = "active" /\ lock[job[w]] = w

HeldInv == \A w \in Workers : pc[w] \in {"handling", "marking"} => Key(w) \in processing

\* Nothing brings key k to its handler: the job is at rest, or the store holds
\* the key against whoever runs it, whatever step that run is at.
Spent(k) ==
    /\ \/ k \in processed \cup processing
       \/ \A j \in Jobs : KeyOf[j] = k => status[j] \in {"completed", "failed"}
    /\ \A j \in Jobs : KeyOf[j] = k => status[j] # "absent"
    /\ \A w \in Workers : pc[w] # "idle" /\ Key(w) = k =>
           /\ pc[w] # "handling"
           /\ pc[w] = "acquiring" => k \in processing
           /\ pc[w] = "releasing" => k \in processed

SpentInv == \A k \in Keys : applied[k] = 0 \/ (applied[k] = 1 /\ Spent(k))

LEMMA OneRunStep ==
    ASSUME "lock_loss" \notin Faults, TypeOK, OneRunInv, [Next]_vars
    PROVE  OneRunInv'
<1> USE DeliveryAssumption
<1> USE DEF TypeOK, OneRunInv, queueVars, workerVars, Go, Leave, Fault, Points
<1>1. CASE UNCHANGED <<status, lock, pc, job>>
  BY <1>1
<1>2. ASSUME NEW j \in Jobs, Publish(j) \/ Promote(j) PROVE OneRunInv'
  BY <1>2 DEF Publish, Promote
<1>3. ASSUME NEW j \in Jobs, Stalled(j) PROVE OneRunInv'
  BY <1>3 DEF Stalled
<1>4. ASSUME NEW w \in Workers, pc[w] # "idle", UNCHANGED <<status, lock, job>>,
             NEW point \in Points, Go(w, point)
      PROVE  OneRunInv'
  BY <1>4
<1>5. ASSUME NEW w \in Workers,
             Parse(w) \/ HasProcessed(w) \/ Acquire(w) \/ HandlerSucceeds(w) \/ HandlerFails(w)
             \/ MarkProcessed(w) \/ MarkProcessedThrows(w) \/ Release(w)
      PROVE  OneRunInv'
  <2>1. /\ pc[w] # "idle" /\ UNCHANGED <<status, lock, job>>
        /\ \E point \in Points : Go(w, point)
    BY <1>5 DEF Parse, HasProcessed, Acquire, HandlerSucceeds, HandlerFails, MarkProcessed,
                MarkProcessedThrows, Release
  <2> QED  BY <2>1, <1>4
<1>6. ASSUME NEW w \in Workers, Complete(w) \/ Retry(w) \/ FailFinally(w) PROVE OneRunInv'
  <2>1. /\ pc[w] # "idle" /\ lock[job[w]] = w /\ Leave(w)
        /\ \E s \in Status : status' = [status EXCEPT ![job[w]] = s]
        /\ lock' = [lock EXCEPT ![job[w]] = None]
    BY <1>6 DEF Complete, Retry, FailFinally, Status
  <2> QED  BY <2>1
<1>7. ASSUME NEW w \in Workers, OutcomeRefused(w) \/ Crash(w) PROVE OneRunInv'
  BY <1>7 DEF OutcomeRefused, Crash
<1>8. ASSUME NEW w \in Workers, NEW j \in Jobs, Fetch(w, j) PROVE OneRunInv'
  BY <1>8 DEF Fetch
<1>9. ASSUME NEW r \in Requests, NEW n \in Jobs, ReplayAdd(r, n) PROVE OneRunInv'
  BY <1>9 DEF ReplayAdd
<1>10. QED
  BY <1>1, <1>2, <1>3, <1>5, <1>6, <1>7, <1>8, <1>9
     DEF Next, Run, vars, DeadLetter, Expire, ReplayRemove, ReplayDies, ReplayGetJob

\* Where every key has one job, workers that run have keys of their own.
OwnKeys == \A i, j \in Jobs : KeyOf[i] = KeyOf[j] => i = j

LEMMA KeysApart ==
    ASSUME OwnKeys, TypeOK, OneRunInv, NEW v \in Workers, NEW w \in Workers,
           pc[v] # "idle", pc[w] # "idle", Key(v) = Key(w)
    PROVE  v = w
BY DeliveryAssumption DEF OwnKeys, TypeOK, OneRunInv, Key

LEMMA HeldStep ==
    ASSUME OwnKeys, TypeOK, OneRunInv, HeldInv, [Next]_vars
    PROVE  HeldInv'
<1> USE DEF HeldInv, TypeOK, Points, Go, Leave
<1>1. CASE UNCHANGED <<pc, job, processing>>
  BY <1>1 DEF Key
<1>2. ASSUME NEW w \in Workers, job' = job, pc[w] # "idle",
             NEW point \in Points, Go(w, point),
             point = "handling" => Key(w) \in processing',
             point = "marking" => pc[w] = "handling",
             point \in {"handling", "marking"} => processing \subseteq processing',
             processing \ {Key(w)} \subseteq processing'
      PROVE  HeldInv'
  <2> SUFFICES ASSUME NEW v \in Workers, pc'[v] \in {"handling", "marking"}
               PROVE  KeyOf[job[v]] \in processing'
    BY <1>2 DEF Key
  <2>1. CASE v = w
    BY <1>2, <2>1 DEF Key
  <2>2. CASE v # w
    <3>1. pc[v] \in {"handling", "marking"} /\ Key(v) \in processing
      BY <1>2, <2>2
    <3>2. Key(v) # Key(w)
      BY <1>2, <2>2, <3>1, KeysApart
    <3> QED  BY <1>2, <3>1, <3>2 DEF Key
  <2> QED  BY <2>1, <2>2
<1>3. ASSUME NEW w \in Workers,
             Parse(w) \/ HasProcessed(w) \/ Acquire(w) \/ HandlerSucceeds(w) \/ HandlerFails(w)
             \/ MarkProcessed(w) \/ MarkProcessedThrows(w) \/ Release(w)
      PROVE  HeldInv'
  <2>1. CASE Parse(w) \/ HasProcessed(w) \/ HandlerSucceeds(w) \/ HandlerFails(w)
    BY <1>2, <2>1 DEF Parse, HasProcessed, HandlerSucceeds, HandlerFails, storeVars
  <2>2. CASE Acquire(w)
    BY <1>2, <2>2 DEF Acquire
  <2>3. CASE MarkProcessed(w) \/ MarkProcessedThrows(w) \/ Release(w)
    BY <1>2, <2>3 DEF MarkProcessed, MarkProcessedThrows, Release, storeVars
  <2> QED  BY <1>3, <2>1, <2>2, <2>3
<1>4. ASSUME NEW w \in Workers, Leave(w), UNCHANGED processing PROVE HeldInv'
  BY <1>4 DEF Key
<1>5. ASSUME NEW w \in Workers,
             Complete(w) \/ Retry(w) \/ FailFinally(w) \/ OutcomeRefused(w) \/ Crash(w)
      PROVE  HeldInv'
  BY <1>4, <1>5 DEF Complete, Retry, FailFinally, OutcomeRefused, Crash, storeVars
<1>6. ASSUME NEW w \in Workers, NEW j \in Jobs, Fetch(w, j) PROVE HeldInv'
  BY <1>6 DEF Fetch, Key, storeVars
<1>7. ASSUME NEW k \in Keys, Expire(k) PROVE HeldInv'
  BY <1>7 DEF Expire, Settled, Key, workerVars
<1>8. QED
  BY <1>1, <1>3, <1>5, <1>6, <1>7
     DEF Next, Run, vars, workerVars, storeVars, Publish, Promote, Stalled, DeadLetter,
         ReplayRemove, ReplayDies, ReplayGetJob, ReplayAdd

LEMMA SpentKept ==
    ASSUME OwnKeys, "redis_error" \notin Faults, TypeOK, OneRunInv, HeldInv, [Next]_vars,
           NEW k \in Keys, Spent(k)
    PROVE  Spent(k)'
<1> USE DeliveryAssumption DEF TypeOK, Spent, Points, Go, Leave
<1>1. CASE UNCHANGED <<status, pc, job, processing, processed>>
  BY <1>1 DEF Key
<1>2. ASSUME NEW j \in Jobs,
             Publish(j) \/ Promote(j) \/ Stalled(j) \/ \E r \in Requests : ReplayAdd(r, j)
      PROVE  Spent(k)'
  <2>1. /\ status[j] \in {"absent", "delayed", "active"}
        /\ status' = [status EXCEPT ![j] = "waiting"]
        /\ UNCHANGED <<pc, job, processing, processed>>
    BY <1>2 DEF Publish, Promote, Stalled, ReplayAdd, workerVars, storeVars
  <2> QED  BY <2>1 DEF Key
<1>3. ASSUME NEW w \in Workers, NEW point \in Points, pc[w] # "idle", Go(w, point),
             UNCHANGED <<status, job>>,
             Key(w) = k => /\ point # "handling"
                           /\ point = "acquiring" => k \in processing'
                           /\ point = "releasing" => k \in processed'
                           /\ k \in processed' \cup processing',
             Key(w) # k => (k \in processing <=> k \in processing'),
             processed \subseteq processed'
      PROVE  Spent(k)'
  <2>1. k \in processed' \cup processing'
        \/ \A j \in Jobs : KeyOf[j] = k => status'[j] \in {"completed", "failed"}
    BY <1>3
  <2>2. ASSUME NEW v \in Workers, pc'[v] # "idle", KeyOf[job[v]] = k
        PROVE  /\ pc'[v] # "handling"
               /\ pc'[v] = "acquiring" => k \in processing'
               /\ pc'[v] = "releasing" => k \in processed'
    <3>1. CASE v = w
      BY <1>3, <2>2, <3>1 DEF Key
    <3>2. CASE v # w
      <4>1. pc[v] = pc'[v] /\ Key(v) = k
        BY <1>3, <2>2, <3>2 DEF Key
      <4>2. Key(w) # k
        BY <1>3, <2>2, <3>2, <4>1, KeysApart
      <4> QED  BY <1>3, <2>2, <4>1, <4>2
    <3> QED  BY <3>1, <3>2
  <2> QED  BY <1>3, <2>1, <2>2 DEF Key
<1>4. ASSUME NEW w \in Workers, pc[w] # "idle", Key(w) = k
      PROVE  k \in processed \cup processing
  <2>1. status[job[w]] = "active" /\ KeyOf[job[w]] = k /\ job[w] \in Jobs
    BY <1>4 DEF OneRunInv, Key
  <2> QED  BY <2>1
<1>5. ASSUME NEW w \in Workers, Parse(w) \/ HasProcessed(w) PROVE Spent(k)'
  BY <1>3, <1>4, <1>5 DEF Parse, HasProcessed, IsProcessed, queueVars, storeVars
<1>6. ASSUME NEW w \in Workers, Acquire(w) PROVE Spent(k)'
  BY <1>3, <1>4, <1>6 DEF Acquire, queueVars
<1>7. ASSUME NEW w \in Workers, HandlerSucceeds(w) \/ HandlerFails(w) PROVE Spent(k)'
  BY <1>3, <1>4, <1>7 DEF HandlerSucceeds, HandlerFails, queueVars, storeVars
<1>8. ASSUME NEW w \in Workers, MarkProcessed(w) \/ MarkProcessedThrows(w) PROVE Spent(k)'
  BY <1>3, <1>4, <1>8 DEF MarkProcessed, MarkProcessedThrows, queueVars, storeVars, Fault
<1>9. ASSUME NEW w \in Workers, Release(w) PROVE Spent(k)'
  BY <1>3, <1>4, <1>9 DEF Release, queueVars, storeVars, Fault
<1>10. ASSUME NEW w \in Workers, Leave(w), UNCHANGED <<processing, processed>>,
              \/ UNCHANGED status
              \/ \E s \in Status \ {"absent"} :
                    status' = [status EXCEPT ![job[w]] = s] /\ pc[w] # "idle"
       PROVE  Spent(k)'
  <2>1. k \in processed \cup processing
        \/ \A j \in Jobs : KeyOf[j] = k => status'[j] \in {"completed", "failed"}
    <3>1. CASE pc[w] # "idle" /\ Key(w) = k
      BY <1>4, <3>1
    <3>2. CASE pc[w] = "idle" \/ Key(w) # k
      <4>1. \A j \in Jobs : KeyOf[j] = k => status'[j] = status[j]
        BY <1>10, <3>2 DEF Key
      <4> QED  BY <4>1
    <3> QED  BY <3>1, <3>2
  <2>2. \A j \in Jobs : KeyOf[j] = k => status'[j] # "absent"
    BY <1>10
  <2> QED  BY <1>10, <2>1, <2>2 DEF Key
<1>11. ASSUME NEW w \in Workers,
              Complete(w) \/ Retry(w) \/ FailFinally(w) \/ OutcomeRefused(w) \/ Crash(w)
       PROVE  Spent(k)'
  <2>1. /\ Leave(w) /\ UNCHANGED <<processing, processed>>
        /\ \/ UNCHANGED status
           \/ \E s \in Status \ {"absent"} :
                 status' = [status EXCEPT ![job[w]] = s] /\ pc[w] # "idle"
    BY <1>11 DEF Complete, Retry, FailFinally, OutcomeRefused, Crash, storeVars, queueVars,
                 Status
  <2> QED  BY <2>1, <1>10
<1>12. ASSUME NEW w \in Workers, NEW j \in Jobs, Fetch(w, j) PROVE Spent(k)'
  <2>1. /\ status[j] = "waiting" /\ status' = [status EXCEPT ![j] = "active"]
        /\ job' = [job EXCEPT ![w] = j]
        /\ \E point \in {"deferred", "parsing"} : pc' = [pc EXCEPT ![w] = point]
        /\ UNCHANGED <<processing, processed>>
    BY <1>12 DEF Fetch, storeVars
  <2> QED  BY <2>1 DEF Key
<1>13. ASSUME NEW l \in Keys, Expire(l) PROVE Spent(k)'
  <2>1. /\ Settled(l) /\ UNCHANGED <<status, pc, job>>
        /\ processed' \cup processing' \subseteq processed \cup processing
        /\ processed \ {l} \subseteq processed' /\ processing \ {l} \subseteq processing'
    BY <1>13 DEF Expire, queueVars, workerVars
  <2>2. CASE l = k
    <3>1. \A j \in Jobs : KeyOf[j] = k => status[j] \in {"completed", "failed"}
      BY <2>1, <2>2 DEF Settled
    <3>2. \A w \in Workers : pc[w] # "idle" => Key(w) # k
      BY <2>1, <2>2 DEF Settled
    <3> QED  BY <2>1, <3>1, <3>2 DEF Key
  <2>3. CASE l # k
    BY <2>1, <2>3 DEF Key
  <2> QED  BY <2>2, <2>3
<1>14. QED
  BY <1>1, <1>2, <1>5, <1>6, <1>7, <1>8, <1>9, <1>11, <1>12, <1>13
     DEF Next, Run, vars, queueVars, workerVars, storeVars, DeadLetter,
         ReplayRemove, ReplayDies, ReplayGetJob

LEMMA SpentStep ==
    ASSUME OwnKeys, "redis_error" \notin Faults, TypeOK, OneRunInv, HeldInv, SpentInv,
           [Next]_vars
    PROVE  SpentInv'
<1> SUFFICES ASSUME NEW k \in Keys, applied'[k] # 0
             PROVE  applied'[k] = 1 /\ Spent(k)'
  BY DEF SpentInv
<1>1. CASE applied'[k] = applied[k]
  <2>1. applied[k] = 1 /\ Spent(k)
    BY <1>1 DEF SpentInv
  <2> QED  BY <1>1, <2>1, SpentKept
<1>2. CASE applied'[k] # applied[k]
  <2>1. PICK w \in Workers : HandlerSucceeds(w)
    BY <1>2 DEF Next, Run, vars, queueVars, workerVars, storeVars, Publish, Promote,
           Stalled, Parse, HasProcessed, Acquire, HandlerFails, MarkProcessed,
           MarkProcessedThrows, Release, Complete, Retry, FailFinally, OutcomeRefused,
           Crash, Fetch, DeadLetter, Expire, ReplayRemove, ReplayDies, ReplayGetJob, ReplayAdd
  <2>2. /\ pc[w] = "handling" /\ pc' = [pc EXCEPT ![w] = "marking"]
        /\ applied' = [applied EXCEPT ![Key(w)] = @ + 1]
        /\ UNCHANGED <<status, job, processing, processed>>
    BY <2>1 DEF HandlerSucceeds, Go, queueVars, storeVars
  <2>3. /\ job[w] \in Jobs /\ Key(w) = k /\ k \in processing
        /\ status[job[w]] = "active"
    BY <1>2, <2>2, DeliveryAssumption DEF TypeOK, Points, OneRunInv, HeldInv, Key
  <2>4. applied[k] = 0
    <3>1. ~Spent(k)
      BY <2>2, <2>3 DEF Spent
    <3> QED  BY <3>1 DEF SpentInv
  <2>5. applied'[k] = 1
    BY <2>2, <2>3, <2>4 DEF TypeOK
  <2>6. \A j \in Jobs : KeyOf[j] = k => status'[j] # "absent"
    BY <2>2, <2>3 DEF OwnKeys, Key
  <2>7. ASSUME NEW v \in Workers, pc'[v] # "idle", KeyOf[job'[v]] = k
        PROVE  pc'[v] = "marking"
    <3>1. pc[v] # "idle" /\ Key(v) = Key(w)
      BY <2>2, <2>3, <2>7 DEF TypeOK, Key
    <3>2. v = w
      BY <2>2, <3>1, KeysApart
    <3> QED  BY <2>2, <3>2 DEF TypeOK
  <2>8. Spent(k)'
    BY <2>2, <2>3, <2>6, <2>7 DEF Spent, Key
  <2> QED  BY <2>5, <2>8
<1> QED  BY <1>1, <1>2

\* AppliedAtMostOnce through handler errors, crashes, lost replies and expiry,
\* for any number of events and workers, of retries and failures: it takes a
\* second job of the same key, a lost job lock or a MULTI that Redis refused for
\* a handler to succeed twice (IdempotencyStore.acquire, markProcessed).
THEOREM AppliedOnce ==
    ASSUME OwnKeys, Faults \cap {"lock_loss", "redis_error"} = {}
    PROVE  Spec => []AppliedAtMostOnce
<1>1. Init => OneRunInv /\ HeldInv /\ SpentInv
  BY DEF Init, OneRunInv, HeldInv, SpentInv
<1>2. "lock_loss" \notin Faults /\ "redis_error" \notin Faults
  OBVIOUS
<1>3. TypeOK /\ OneRunInv /\ HeldInv /\ SpentInv /\ [Next]_vars
          => OneRunInv' /\ HeldInv' /\ SpentInv'
  BY <1>2, OneRunStep, HeldStep, SpentStep
<1>4. SpentInv => AppliedAtMostOnce
  BY DEF SpentInv, AppliedAtMostOnce
<1>5. QED
  BY <1>1, <1>3, <1>4, Typing, PTL DEF Spec

-----------------------------------------------------------------------------
(* At least once, but within bounds: whatever the faults, a handler        *)
(* succeeds once per copy of its event, and once more per fault.           *)

Early == {"parsing", "checking", "acquiring", "handling"}
Late == {"marking", "completing"}

\* The copies of key k that a success was spent on: acknowledged, or about to
\* be by the worker that holds the lock.
Used(k) ==
    {j \in Jobs : /\ KeyOf[j] = k
                  /\ \/ status[j] = "completed"
                     \/ \E w \in Workers : pc[w] \in Late /\ job[w] = j /\ lock[j] = w}

\* The workers that have lost their job's lock and may yet run its handler.
Stray(k) == {w \in Workers : pc[w] \in Early /\ Key(w) = k /\ lock[job[w]] # w}

\* A stray worker's success was paid for when it lost the lock.
SuccessInv ==
    \A k \in Keys : applied[k] + Cardinality(Stray(k)) <= Cardinality(Used(k)) + faults

LEMMA SizesApart ==
    ASSUME NEW S, NEW T, NEW x, IsFiniteSet(S), IsFiniteSet(T)
    PROVE  /\ Cardinality(S) \in Nat /\ Cardinality(T) \in Nat
           /\ S \subseteq T => Cardinality(S) <= Cardinality(T)
           /\ (x \notin S /\ S \cup {x} \subseteq T) => Cardinality(S) + 1 <= Cardinality(T)
           /\ S \ {x} \subseteq T => Cardinality(S) <= Cardinality(T) + 1
<1>1. Cardinality(S) \in Nat /\ Cardinality(T) \in Nat
  BY FS_CardinalityType
<1>2. ASSUME S \subseteq T PROVE Cardinality(S) <= Cardinality(T)
  BY <1>2, FS_Subset
<1>3. ASSUME x \notin S, S \cup {x} \subseteq T PROVE Cardinality(S) + 1 <= Cardinality(T)
  <2>1. Cardinality(S \cup {x}) = Cardinality(S) + 1
    BY <1>3, FS_AddElement
  <2>2. Cardinality(S \cup {x}) <= Cardinality(T)  BY <1>3, FS_Subset
  <2> QED  BY <2>1, <2>2
<1>4. ASSUME S \ {x} \subseteq T PROVE Cardinality(S) <= Cardinality(T) + 1
  <2>1. /\ IsFiniteSet(S \ {x})
        /\ Cardinality(S \ {x}) = IF x \in S THEN Cardinality(S) - 1 ELSE Cardinality(S)
    BY FS_RemoveElement
  <2>2. PICK n : n = Cardinality(S \ {x})  OBVIOUS
  <2>3. n <= Cardinality(T)  BY <1>4, <2>2, FS_Subset
  <2>4. n = Cardinality(S) - 1 \/ n = Cardinality(S)  BY <2>1, <2>2
  <2> QED  BY <1>1, <2>3, <2>4
<1> QED  BY <1>1, <1>2, <1>3, <1>4

\* What a step may do to the two sets, x being its worker and y its job: pay a
\* success with the job or with the stray worker, or pay a fault for either.
Balanced(k, x, y) ==
    \/ /\ applied'[k] = applied[k] /\ faults <= faults'
       /\ Stray(k)' \subseteq Stray(k) /\ Used(k) \subseteq Used(k)'
    \/ /\ applied'[k] = applied[k] + 1 /\ faults <= faults'
       /\ Stray(k)' \subseteq Stray(k) /\ y \notin Used(k) /\ Used(k) \cup {y} \subseteq Used(k)'
    \/ /\ applied'[k] = applied[k] + 1 /\ faults <= faults'
       /\ x \notin Stray(k)' /\ Stray(k)' \cup {x} \subseteq Stray(k) /\ Used(k) \subseteq Used(k)'
    \/ /\ applied'[k] = applied[k] /\ faults' = faults + 1
       /\ Stray(k)' \ {x} \subseteq Stray(k) /\ Used(k) \subseteq Used(k)'
    \/ /\ applied'[k] = applied[k] /\ faults' = faults + 1
       /\ Stray(k)' \subseteq Stray(k) /\ Used(k) \ {y} \subseteq Used(k)'

LEMMA BalancedKeeps ==
    ASSUME IsFiniteSet(Jobs), IsFiniteSet(Workers), TypeOK, TypeOK', SuccessInv, NEW k \in Keys,
           NEW x, NEW y, Balanced(k, x, y)
    PROVE  applied'[k] + Cardinality(Stray(k)') <= Cardinality(Used(k)') + faults'
<1>1. PICK A, B, C, D : A = Stray(k) /\ B = Used(k) /\ C = Stray(k)' /\ D = Used(k)'
  OBVIOUS
<1>2. A \subseteq Workers /\ C \subseteq Workers /\ B \subseteq Jobs /\ D \subseteq Jobs
  BY <1>1 DEF Stray, Used
<1>3. IsFiniteSet(A) /\ IsFiniteSet(B) /\ IsFiniteSet(C) /\ IsFiniteSet(D)
  BY <1>2, FS_Subset
<1>4. PICK n \in Nat, m \in Nat, f \in Nat, g \in Nat :
          n = applied[k] /\ m = applied'[k] /\ f = faults /\ g = faults'
  <2>1. applied[k] \in Nat /\ applied'[k] \in Nat
    BY DEF TypeOK
  <2>2. faults \in Nat /\ faults' \in Nat
    BY DeliveryAssumption DEF TypeOK
  <2> QED  BY <2>1, <2>2
<1>5. n + Cardinality(A) <= Cardinality(B) + f
  BY <1>1, <1>4 DEF SuccessInv
<1>6. \/ m = n /\ f <= g /\ C \subseteq A /\ B \subseteq D
      \/ m = n + 1 /\ f <= g /\ C \subseteq A /\ y \notin B /\ B \cup {y} \subseteq D
      \/ m = n + 1 /\ f <= g /\ x \notin C /\ C \cup {x} \subseteq A /\ B \subseteq D
      \/ m = n /\ g = f + 1 /\ C \ {x} \subseteq A /\ B \subseteq D
      \/ m = n /\ g = f + 1 /\ C \subseteq A /\ B \ {y} \subseteq D
  BY <1>1, <1>4 DEF Balanced
<1>7. PICK a \in Nat, b \in Nat, c \in Nat, d \in Nat :
          /\ a = Cardinality(A) /\ b = Cardinality(B) /\ c = Cardinality(C) /\ d = Cardinality(D)
          /\ C \subseteq A => c <= a
          /\ (x \notin C /\ C \cup {x} \subseteq A) => c + 1 <= a
          /\ C \ {x} \subseteq A => c <= a + 1
          /\ B \subseteq D => b <= d
          /\ (y \notin B /\ B \cup {y} \subseteq D) => b + 1 <= d
          /\ B \ {y} \subseteq D => b <= d + 1
  BY <1>3, SizesApart
<1>8. n + a <= b + f
  BY <1>5, <1>7
<1>9. m + c <= d + g
  BY <1>6, <1>7, <1>8
<1> QED  BY <1>1, <1>4, <1>7, <1>9

\* A worker goes on with its job.
LEMMA GoesOn ==
    ASSUME TypeOK, NEW w \in Workers, pc[w] # "idle", NEW point \in Points, Go(w, point),
           UNCHANGED <<status, lock, job>>, NEW k
    PROVE  /\ (point \in Early => pc[w] \in Early) => Stray(k)' \subseteq Stray(k)
           /\ (pc[w] \in Late => point \in Late) => Used(k) \subseteq Used(k)'
           /\ Used(k) \ {job[w]} \subseteq Used(k)'
           /\ point \notin Early => w \notin Stray(k)'
<1> USE DEF TypeOK, Go, Key
<1>1. (point \in Early => pc[w] \in Early) => Stray(k)' \subseteq Stray(k)
  BY DEF Stray
<1>2. (pc[w] \in Late => point \in Late) => Used(k) \subseteq Used(k)'
  BY DEF Used
<1>3. Used(k) \ {job[w]} \subseteq Used(k)'
  BY DEF Used
<1>4. point \notin Early => w \notin Stray(k)'
  BY DEF Stray
<1> QED  BY <1>1, <1>2, <1>3, <1>4

\* A worker leaves its job: for good when BullMQ accepts the outcome.
LEMMA Leaves ==
    ASSUME TypeOK, QueueInv, NEW w \in Workers, Leave(w), NEW k,
           \/ UNCHANGED <<status, lock>>
           \/ /\ pc[w] # "idle" /\ lock[job[w]] = w /\ lock' = [lock EXCEPT ![job[w]] = None]
              /\ \E s \in Status : status' = [status EXCEPT ![job[w]] = s]
    PROVE  /\ Stray(k)' \subseteq Stray(k)
           /\ Used(k) \ {job[w]} \subseteq Used(k)'
           /\ (lock[job[w]] # w \/ pc[w] \notin Late \/ status'[job[w]] = "completed")
                  => Used(k) \subseteq Used(k)'
<1> USE DeliveryAssumption DEF TypeOK, Leave, Go, Early, Late
<1>1. ASSUME NEW v \in Workers, v # w
      PROVE  /\ pc'[v] = pc[v] /\ job'[v] = job[v]
             /\ (pc[v] # "idle" => (lock'[job[v]] = v <=> lock[job[v]] = v))
  BY <1>1
<1>2. Stray(k)' \subseteq Stray(k)
  BY <1>1 DEF Stray, Key
<1>3. ASSUME NEW j \in Used(k), j # job[w] \/ lock[j] # w \/ pc[w] \notin Late \/ status'[j] = "completed"
      PROVE  j \in Used(k)'
  <2>1. j \in Jobs /\ KeyOf[j] = k  BY DEF Used
  <2>2. CASE status[j] = "completed"
    <3>1. lock[j] = None  BY <2>1, <2>2 DEF QueueInv
    <3>2. status'[j] = "completed"  BY <2>1, <2>2, <3>1
    <3> QED  BY <2>1, <3>2 DEF Used
  <2>3. CASE \E v \in Workers : pc[v] \in Late /\ job[v] = j /\ lock[j] = v
    <3>1. PICK v \in Workers : pc[v] \in Late /\ job[v] = j /\ lock[j] = v
      BY <2>3
    <3>2. CASE v # w
      <4>1. pc'[v] \in Late /\ job'[v] = j /\ lock'[j] = v
        BY <1>1, <2>1, <3>1, <3>2
      <4> QED  BY <2>1, <4>1 DEF Used
    <3>3. CASE v = w
      <4>1. status'[j] = "completed"  BY <1>3, <3>1, <3>3
      <4> QED  BY <2>1, <4>1 DEF Used
    <3> QED  BY <3>2, <3>3
  <2> QED  BY <2>2, <2>3 DEF Used
<1>4. Used(k) \ {job[w]} \subseteq Used(k)'
  BY <1>3
<1>5. ASSUME lock[job[w]] # w \/ pc[w] \notin Late \/ status'[job[w]] = "completed"
      PROVE  Used(k) \subseteq Used(k)'
  <2>1. ASSUME NEW j \in Used(k) PROVE j \in Used(k)'
    <3>1. CASE j # job[w]
      BY <1>3, <3>1
    <3>2. CASE j = job[w]
      BY <1>3, <1>5, <3>2
    <3> QED  BY <3>1, <3>2
  <2> QED  BY <2>1
<1> QED  BY <1>2, <1>4, <1>5

\* The steps that move no worker.
LEMMA QueueBalances ==
    ASSUME TypeOK, QueueInv, UNCHANGED <<pc, job, applied>>, NEW k \in Keys, NEW j \in Jobs,
           \/ UNCHANGED <<status, lock>> /\ faults <= faults'
           \/ /\ status[j] # "completed" /\ UNCHANGED <<lock, faults>>
              /\ \E s \in Status : status' = [status EXCEPT ![j] = s]
           \/ Stalled(j)
    PROVE  \E x, y : Balanced(k, x, y)
<1> USE DeliveryAssumption
<1>1. faults \in Nat  BY DEF TypeOK
<1>2. CASE UNCHANGED <<status, lock>> /\ faults <= faults'
  <2>1. Stray(k)' = Stray(k) /\ Used(k)' = Used(k)
    BY <1>2 DEF Stray, Used, Key
  <2> QED  BY <1>2, <2>1 DEF Balanced
<1>3. CASE /\ status[j] # "completed" /\ UNCHANGED <<lock, faults>>
           /\ \E s \in Status : status' = [status EXCEPT ![j] = s]
  <2>1. Stray(k)' = Stray(k)
    BY <1>3 DEF Stray, Key
  <2>2. Used(k) \subseteq Used(k)'
    BY <1>3 DEF Used, TypeOK
  <2> QED  BY <1>1, <1>3, <2>1, <2>2 DEF Balanced
<1>4. CASE Stalled(j)
  <2>1. /\ status[j] = "active"
        /\ status' = [status EXCEPT ![j] = "waiting"] /\ lock' = [lock EXCEPT ![j] = None]
        /\ \/ job[lock[j]] # j /\ faults' = faults
           \/ job[lock[j]] = j /\ faults' = faults + 1
    BY <1>4 DEF Stalled, Fault
  <2>2. \A i \in Jobs : i # j => lock'[i] = lock[i] /\ status'[i] = status[i]
    BY <2>1 DEF TypeOK
  <2>3. lock'[j] = None /\ lock \in [Jobs -> Workers \cup {None}]
    BY <2>1 DEF TypeOK
  <2>4. \A w \in Workers : pc[w] \in Early \cup Late => job[w] \in Jobs
    BY DEF TypeOK, Early, Late
  <2>5. Used(k) \ {j} \subseteq Used(k)'
    BY <2>2 DEF Used
  <2>6. \A w \in Workers : w # lock[j] => (w \in Stray(k)' => w \in Stray(k))
    BY <2>2, <2>3, <2>4 DEF Stray, Key
  <2>7. CASE ~ \E w \in Workers : lock[j] = w /\ job[w] = j /\ pc[w] \in Early \cup Late
    <3>1. Stray(k)' \subseteq Stray(k)
      <4>1. ASSUME NEW w \in Stray(k)', w \notin Stray(k) PROVE FALSE
        <5>1. w \in Workers /\ pc[w] \in Early /\ w = lock[j]  BY <2>6, <4>1 DEF Stray
        <5>2. job[w] # j  BY <2>7, <5>1
        <5>3. lock'[job[w]] = lock[job[w]]  BY <2>2, <2>4, <5>1, <5>2
        <5> QED  BY <4>1, <5>3 DEF Stray, Key
      <4> QED  BY <4>1
    <3>2. j \notin Used(k)  BY <2>1, <2>7 DEF Used
    <3>3. Used(k) \subseteq Used(k)'  BY <2>5, <3>2
    <3> QED  BY <1>1, <2>1, <3>1, <3>3 DEF Balanced
  <2>8. ASSUME NEW w \in Workers, lock[j] = w, job[w] = j, pc[w] \in Early \cup Late
        PROVE  \E x, y : Balanced(k, x, y)
    <3>1. faults' = faults + 1  BY <2>1, <2>8
    <3>2. Stray(k)' \ {w} \subseteq Stray(k)  BY <2>6, <2>8 DEF Stray
    <3>3. CASE pc[w] \in Early
      <4>1. j \notin Used(k)  BY <2>1, <2>8, <3>3 DEF Used, Early, Late
      <4>2. Used(k) \subseteq Used(k)'  BY <2>5, <4>1
      <4> QED  BY <3>1, <3>2, <4>2 DEF Balanced
    <3>4. CASE pc[w] \in Late
      <4>1. w \notin Stray(k)'  BY <3>4 DEF Stray, Early, Late
      <4>2. Stray(k)' \subseteq Stray(k)  BY <3>2, <4>1
      <4> QED  BY <2>5, <3>1, <4>2 DEF Balanced
    <3> QED  BY <2>8, <3>3, <3>4
  <2> QED  BY <2>7, <2>8
<1> QED  BY <1>2, <1>3, <1>4

\* The steps of a worker's run: only a handler's success raises the count, and
\* a step back from "marking" is a fault.
LEMMA RunBalances ==
    ASSUME TypeOK, QueueInv, NEW k \in Keys, NEW w \in Workers,
           \/ Parse(w) \/ HasProcessed(w) \/ Acquire(w) \/ HandlerSucceeds(w) \/ HandlerFails(w)
           \/ MarkProcessed(w) \/ MarkProcessedThrows(w) \/ Release(w)
    PROVE  \E x, y : Balanced(k, x, y)
<1>1. faults \in Nat /\ applied \in [Keys -> Nat]  BY DeliveryAssumption DEF TypeOK
<1>2. ASSUME NEW point \in Points, Go(w, point), UNCHANGED <<status, lock, job>>,
             pc[w] # "idle", applied' = applied, faults <= faults',
             point \in Early => pc[w] \in Early, pc[w] \in Late => point \in Late
      PROVE  \E x, y : Balanced(k, x, y)
  BY <1>2, GoesOn DEF Balanced
<1>3. CASE Parse(w) \/ HasProcessed(w) \/ Acquire(w) \/ HandlerFails(w) \/ MarkProcessed(w) \/ Release(w)
  <2>1. /\ UNCHANGED <<status, lock, job>> /\ pc[w] # "idle" /\ applied' = applied
        /\ faults <= faults'
    BY <1>1, <1>3 DEF Parse, HasProcessed, Acquire, HandlerFails, MarkProcessed, Release,
                      queueVars, Fault
  <2>2. PICK point \in Points : /\ Go(w, point)
                                /\ point \in Early => pc[w] \in Early
                                /\ pc[w] \in Late => point \in Late
    BY <1>3 DEF Parse, HasProcessed, Acquire, HandlerFails, MarkProcessed, Release,
                Points, Early, Late
  <2> QED  BY <1>2, <2>1, <2>2
<1>4. CASE MarkProcessedThrows(w)
  <2>1. PICK point \in Points : point = "releasing"  BY DEF Points
  <2>2. /\ UNCHANGED <<status, lock, job>> /\ pc[w] # "idle" /\ applied' = applied
        /\ faults' = faults + 1 /\ Go(w, point)
    BY <1>4, <2>1 DEF MarkProcessedThrows, queueVars, Fault
  <2>3. Stray(k)' \subseteq Stray(k) /\ Used(k) \ {job[w]} \subseteq Used(k)'
    BY <2>1, <2>2, GoesOn DEF Early
  <2> QED  BY <2>2, <2>3 DEF Balanced
<1>5. CASE HandlerSucceeds(w)
  <2>1. PICK point \in Points : point = "marking"  BY DEF Points
  <2>2. /\ UNCHANGED <<status, lock, job, faults>> /\ pc[w] = "handling" /\ Go(w, point)
        /\ applied' = [applied EXCEPT ![Key(w)] = @ + 1]
    BY <1>5, <2>1 DEF HandlerSucceeds, queueVars
  <2>3. /\ Stray(k)' \subseteq Stray(k) /\ Used(k) \subseteq Used(k)' /\ w \notin Stray(k)'
    BY <2>1, <2>2, GoesOn DEF Early, Late
  <2>4. CASE Key(w) # k
    <3>1. applied'[k] = applied[k]  BY <1>1, <2>2, <2>4
    <3> QED  BY <1>1, <2>2, <2>3, <3>1 DEF Balanced
  <2>5. CASE Key(w) = k
    <3>1. applied'[k] = applied[k] + 1  BY <1>1, <2>2, <2>5
    <3>2. PICK j \in Jobs : j = job[w] /\ KeyOf[j] = k
      BY <2>2, <2>5 DEF TypeOK, Key
    <3>3. CASE lock[j] # w
      <4>1. w \in Stray(k)  BY <2>2, <2>5, <3>2, <3>3 DEF Stray, Early
      <4>2. Stray(k)' \cup {w} \subseteq Stray(k)  BY <2>3, <4>1
      <4> QED  BY <1>1, <2>2, <2>3, <3>1, <4>2 DEF Balanced
    <3>4. CASE lock[j] = w
      <4>1. status[j] # "completed"  BY <3>4, DeliveryAssumption DEF QueueInv
      <4>2. j \notin Used(k)  BY <2>2, <3>2, <3>4, <4>1 DEF Used, Late
      <4>3. pc'[w] = "marking"  BY <2>1, <2>2 DEF Go, TypeOK
      <4>4. j \in Used(k)'  BY <2>2, <3>2, <3>4, <4>3 DEF Used, Late
      <4>5. Used(k) \cup {j} \subseteq Used(k)'  BY <2>3, <4>4
      <4> QED  BY <1>1, <2>2, <2>3, <3>1, <4>2, <4>5 DEF Balanced
    <3> QED  BY <3>3, <3>4
  <2> QED  BY <2>4, <2>5
<1> QED  BY <1>3, <1>4, <1>5

\* The end of a run, and the start of one.
LEMMA EndBalances ==
    ASSUME TypeOK, QueueInv, NEW k \in Keys, NEW w \in Workers,
           Complete(w) \/ Retry(w) \/ FailFinally(w) \/ OutcomeRefused(w) \/ Crash(w)
    PROVE  \E x, y : Balanced(k, x, y)
<1>1. faults \in Nat  BY DeliveryAssumption DEF TypeOK
<1>2. CASE Crash(w)
  <2>1. Leave(w) /\ UNCHANGED <<status, lock, applied>> /\ faults' = faults + 1
    BY <1>2 DEF Crash, queueVars, Fault
  <2>2. Stray(k)' \subseteq Stray(k) /\ Used(k) \ {job[w]} \subseteq Used(k)'
    BY <2>1, Leaves
  <2> QED  BY <2>1, <2>2 DEF Balanced
<1>3. CASE OutcomeRefused(w)
  <2>1. Leave(w) /\ UNCHANGED <<status, lock, applied, faults>> /\ lock[job[w]] # w
    BY <1>3 DEF OutcomeRefused, queueVars
  <2>2. Stray(k)' \subseteq Stray(k) /\ Used(k) \subseteq Used(k)'
    BY <2>1, Leaves
  <2> QED  BY <1>1, <2>1, <2>2 DEF Balanced
<1>4. CASE Complete(w) \/ Retry(w) \/ FailFinally(w)
  <2>1. /\ Leave(w) /\ UNCHANGED <<applied, faults>> /\ pc[w] # "idle"
        /\ lock[job[w]] = w /\ lock' = [lock EXCEPT ![job[w]] = None]
    BY <1>4 DEF Complete, Retry, FailFinally
  <2>2. PICK s \in Status : /\ status' = [status EXCEPT ![job[w]] = s]
                            /\ s = "completed" \/ pc[w] \notin Late
    BY <1>4 DEF Complete, Retry, FailFinally, Status, Late
  <2>3. job[w] \in Jobs  BY <2>1 DEF TypeOK
  <2>4. status'[job[w]] = s  BY <2>2, <2>3 DEF TypeOK
  <2>5. Stray(k)' \subseteq Stray(k) /\ Used(k) \subseteq Used(k)'
    BY <2>1, <2>2, <2>4, Leaves
  <2> QED  BY <1>1, <2>1, <2>5 DEF Balanced
<1> QED  BY <1>2, <1>3, <1>4

LEMMA FetchBalances ==
    ASSUME TypeOK, QueueInv, NEW k \in Keys, NEW w \in Workers, NEW j \in Jobs, Fetch(w, j)
    PROVE  \E x, y : Balanced(k, x, y)
<1> USE DeliveryAssumption DEF TypeOK
<1>1. /\ pc[w] = "idle" /\ status[j] = "waiting" /\ lock[j] = None
      /\ status' = [status EXCEPT ![j] = "active"] /\ lock' = [lock EXCEPT ![j] = w]
      /\ job' = [job EXCEPT ![w] = j] /\ UNCHANGED <<applied, faults>>
      /\ pc' = [pc EXCEPT ![w] = IF stalledCount[j] > MaxStalledCount THEN "deferred" ELSE "parsing"]
  BY DEF Fetch, QueueInv, Go
<1>2. Stray(k)' \subseteq Stray(k)
  <2>1. ASSUME NEW v \in Stray(k)' PROVE v \in Stray(k)
    <3>1. v \in Workers /\ lock'[job'[v]] # v /\ pc'[v] \in Early  BY DEF Stray
    <3>2. v # w  BY <1>1, <3>1
    <3>3. job'[v] = job[v] /\ pc'[v] = pc[v] /\ job[v] \in Jobs
      BY <1>1, <3>1, <3>2 DEF Early
    <3>4. lock[job[v]] # v  BY <1>1, <3>1, <3>3
    <3> QED  BY <3>1, <3>3, <3>4 DEF Stray, Key
  <2> QED  BY <2>1
<1>3. Used(k) \subseteq Used(k)'
  <2>1. ASSUME NEW i \in Used(k) PROVE i \in Used(k)'
    <3>1. i \in Jobs /\ i # j  BY <1>1 DEF Used
    <3>2. status'[i] = status[i] /\ lock'[i] = lock[i]  BY <1>1, <3>1
    <3>3. \A v \in Workers : pc[v] \in Late => pc'[v] = pc[v] /\ job'[v] = job[v]
      BY <1>1 DEF Late
    <3> QED  BY <3>1, <3>2, <3>3 DEF Used
  <2> QED  BY <2>1
<1>4. faults \in Nat  OBVIOUS
<1>5. applied'[k] = applied[k] /\ faults <= faults'
  BY <1>1, <1>4
<1> HIDE DEF TypeOK
<1> QED  BY <1>2, <1>3, <1>5 DEF Balanced

LEMMA SuccessStep ==
    ASSUME IsFiniteSet(Jobs), IsFiniteSet(Workers), TypeOK, QueueInv, TypeOK', SuccessInv,
           [Next]_vars
    PROVE  SuccessInv'
<1> SUFFICES ASSUME NEW k \in Keys
             PROVE  applied'[k] + Cardinality(Stray(k)') <= Cardinality(Used(k)') + faults'
  BY DEF SuccessInv
<1> SUFFICES \E x, y : Balanced(k, x, y)
  BY BalancedKeeps
<1>1. faults \in Nat  BY DeliveryAssumption DEF TypeOK
<1>2. ASSUME NEW j \in Jobs, Publish(j) \/ Promote(j) \/ Stalled(j)
      PROVE  \E x, y : Balanced(k, x, y)
  <2>1. UNCHANGED <<pc, job, applied>>
    BY <1>2 DEF Publish, Promote, Stalled, workerVars
  <2>2. CASE Stalled(j)
    BY <2>1, <2>2, QueueBalances
  <2>3. CASE Publish(j) \/ Promote(j)
    <3>1. /\ status[j] # "completed" /\ UNCHANGED <<lock, faults>>
          /\ \E s \in Status : status' = [status EXCEPT ![j] = s]
      BY <2>3 DEF Publish, Promote, Status
    <3> QED  BY <2>1, <3>1, QueueBalances
  <2> QED  BY <1>2, <2>2, <2>3
<1>3. ASSUME NEW w \in Workers, Run(w) \/ Crash(w)
      PROVE  \E x, y : Balanced(k, x, y)
  BY <1>3, RunBalances, EndBalances DEF Run
<1>4. ASSUME NEW w \in Workers, NEW j \in Jobs, Fetch(w, j)
      PROVE  \E x, y : Balanced(k, x, y)
  BY <1>4, FetchBalances
<1>5. ASSUME NEW r \in Requests, NEW n \in Jobs, ReplayAdd(r, n)
      PROVE  \E x, y : Balanced(k, x, y)
  <2>1. UNCHANGED <<pc, job, applied>>
    BY <1>5 DEF ReplayAdd, workerVars
  <2>2. /\ status[n] # "completed" /\ UNCHANGED <<lock, faults>>
        /\ \E s \in Status : status' = [status EXCEPT ![n] = s]
    BY <1>5 DEF ReplayAdd, Status
  <2> QED  BY <2>1, <2>2, QueueBalances
<1>6. CASE UNCHANGED <<status, lock, pc, job, applied>> /\ faults <= faults'
  <2>1. Stray(k)' = Stray(k) /\ Used(k)' = Used(k)
    BY <1>6 DEF Stray, Used, Key
  <2> QED  BY <1>6, <2>1 DEF Balanced
<1>7. ASSUME \/ \E w \in Workers, j \in Jobs : DeadLetter(w, j)
             \/ \E i \in Keys : Expire(i)
             \/ \E r \in Requests : ReplayRemove(r) \/ ReplayDies(r)
             \/ \E r \in Requests, j \in Jobs : ReplayGetJob(r, j)
             \/ UNCHANGED vars
      PROVE  UNCHANGED <<status, lock, pc, job, applied>> /\ faults <= faults'
  BY <1>1, <1>7 DEF DeadLetter, Expire, ReplayRemove, ReplayDies, ReplayGetJob, Fault, vars,
                    queueVars, workerVars
<1> QED  BY <1>2, <1>3, <1>4, <1>5, <1>6, <1>7 DEF Next

\* What BullMQ and the idempotency store promise together, with any number of
\* copies of an event and under every fault: the handler of an event succeeds at
\* most once per copy in the hands of a worker or acknowledged, and once more per
\* fault (a crash, a lost lock or reply, a Redis error, an expired key).
HandledPerCopy ==
    \A k \in Keys :
        applied[k] <= Cardinality({j \in Jobs : KeyOf[j] = k /\ status[j] \in {"active", "completed"}})
                      + faults

THEOREM DuplicatesArePaidFor ==
    ASSUME IsFiniteSet(Jobs), IsFiniteSet(Workers)
    PROVE  Spec => []HandledPerCopy
<1>1. Init => SuccessInv
  <2> SUFFICES ASSUME Init, NEW k \in Keys
               PROVE  applied[k] + Cardinality(Stray(k)) <= Cardinality(Used(k)) + faults
    BY DEF SuccessInv
  <2>1. applied[k] = 0 /\ faults = 0 /\ Stray(k) = {} /\ Used(k) = {}
    BY DEF Init, Stray, Used, Early, Late
  <2>2. Cardinality(Stray(k)) = 0 /\ Cardinality(Used(k)) = 0
    BY <2>1, FS_EmptySet
  <2> QED  BY <2>1, <2>2
<1>2. TypeOK /\ QueueInv /\ SuccessInv /\ TypeOK' /\ [Next]_vars => SuccessInv'
  BY SuccessStep
<1>3. TypeOK /\ QueueInv /\ SuccessInv => HandledPerCopy
  <2> SUFFICES ASSUME TypeOK, QueueInv, SuccessInv, NEW k \in Keys
               PROVE  applied[k] <= Cardinality({j \in Jobs : /\ KeyOf[j] = k
                                                              /\ status[j] \in {"active", "completed"}})
                                    + faults
    BY DEF HandledPerCopy
  <2>1. PICK A, B, C : /\ A = Stray(k) /\ B = Used(k)
                       /\ C = {j \in Jobs : KeyOf[j] = k /\ status[j] \in {"active", "completed"}}
    OBVIOUS
  <2>2. A \subseteq Workers /\ B \subseteq C /\ C \subseteq Jobs
    BY <2>1, DeliveryAssumption DEF Stray, Used, QueueInv
  <2>3. IsFiniteSet(A) /\ IsFiniteSet(B) /\ IsFiniteSet(C)
    BY <2>2, FS_Subset
  <2>4. PICK a \in Nat, b \in Nat, c \in Nat :
            a = Cardinality(A) /\ b = Cardinality(B) /\ c = Cardinality(C) /\ b <= c
    BY <2>2, <2>3, FS_Subset, FS_CardinalityType
  <2>5. PICK n \in Nat, f \in Nat : n = applied[k] /\ f = faults
    BY DeliveryAssumption DEF TypeOK
  <2>6. n + a <= b + f
    BY <2>1, <2>4, <2>5 DEF SuccessInv
  <2>7. n <= c + f
    BY <2>4, <2>6
  <2> QED  BY <2>1, <2>4, <2>5, <2>7
<1>4. QED
  BY <1>1, <1>2, <1>3, Typing, PTL DEF Spec
==============================================================================
