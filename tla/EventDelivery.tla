---------------------------- MODULE EventDelivery ----------------------------
(***************************************************************************)
(* One consumer queue of the event backbone: the EventSubscriber that      *)
(* drains it, the IdempotencyStore it consults, its dead-letter queue and  *)
(* the replay request that moves an entry back.                            *)
(*                                                                         *)
(* A job is a BullMQ job; several jobs may carry the same scoped           *)
(* idempotency key (a publisher that published twice, a replay).  A worker *)
(* is one concurrency slot of a consumer process, so a process with five   *)
(* slots that dies is five Crash steps.  Every Redis round trip the code   *)
(* awaits is a step of its own.                                            *)
(***************************************************************************)
EXTENDS Naturals, FiniteSets

CONSTANTS
    Jobs,             \* job ids the queue may ever see, replays included
    Keys,             \* scoped idempotency keys
    KeyOf,            \* the scoped key of the envelope a job carries
    Malformed,        \* the jobs whose envelope does not parse
    Workers,          \* concurrency slots over all consumer processes
    Requests,         \* concurrent replay requests served by the gateway
    MaxAttempts,      \* defaultJobOptions.attempts (5 in the code)
    MaxStalledCount,  \* BullMQ's maxStalledCount (default 1)
    Faults,           \* which of FaultKinds may occur
    MaxFaults,        \* bound on how many of them occur
    None

FaultKinds == {"handler_error", "crash", "lock_loss", "redis_error",
               "lost_reply", "expiry"}

ASSUME DeliveryAssumption ==
    /\ KeyOf \in [Jobs -> Keys]
    /\ Malformed \subseteq Jobs
    /\ MaxAttempts \in Nat \ {0}
    /\ MaxStalledCount \in Nat
    /\ Faults \subseteq FaultKinds
    /\ MaxFaults \in Nat
    /\ None \notin Workers \cup Jobs

VARIABLES
    status,        \* where BullMQ keeps each job
    attemptsMade,  \* job.attemptsMade
    stalledCount,  \* how often the stalled-job checker took the job back
    lock,          \* the worker that holds the job's BullMQ lock
    origin,        \* the dead-lettered job a "replay-<jobId>-<ms>" job copies
    pc,            \* the await at which each worker's process(job) stands
    job,           \* the job each worker runs
    listening,     \* final failures whose "failed" listener has not added to the DLQ
    processing,    \* events:idempotency:processing:* keys present in Redis
    processed,     \* events:idempotency:processed:* keys present in Redis
    dlq,           \* jobs whose event sits in the dead-letter queue
    replay,        \* progress of each replay request
    applied,       \* per key, how many handler runs succeeded (history)
    faults         \* faults so far

queueVars  == <<status, attemptsMade, stalledCount, lock, origin>>
workerVars == <<pc, job>>
storeVars  == <<processing, processed>>
vars == <<queueVars, workerVars, listening, storeVars, dlq, replay, applied, faults>>

Status == {"absent", "waiting", "delayed", "active", "completed", "failed"}
Points == {"idle", "deferred", "parsing", "checking", "acquiring", "handling",
           "marking", "releasing", "completing", "failing"}

TypeOK ==
    /\ status \in [Jobs -> Status]
    /\ attemptsMade \in [Jobs -> 0..MaxAttempts]
    /\ stalledCount \in [Jobs -> Nat]
    /\ lock \in [Jobs -> Workers \cup {None}]
    /\ origin \in [Jobs -> Jobs \cup {None}]
    /\ pc \in [Workers -> Points]
    /\ job \in [Workers -> Jobs \cup {None}]
    /\ \A w \in Workers : pc[w] # "idle" => job[w] \in Jobs
    /\ listening \in [Workers -> SUBSET Jobs]
    /\ processing \in SUBSET Keys
    /\ processed \in SUBSET Keys
    /\ dlq \in SUBSET Jobs
    /\ replay \in [Requests -> [at : {"idle", "found", "added"}, entry : Jobs \cup {None}]]
    /\ \A r \in Requests : replay[r].at # "idle" => replay[r].entry \in Jobs
    /\ applied \in [Keys -> Nat]
    /\ faults \in 0..MaxFaults

Init ==
    /\ status = [j \in Jobs |-> "absent"]
    /\ attemptsMade = [j \in Jobs |-> 0]
    /\ stalledCount = [j \in Jobs |-> 0]
    /\ lock = [j \in Jobs |-> None]
    /\ origin = [j \in Jobs |-> None]
    /\ pc = [w \in Workers |-> "idle"]
    /\ job = [w \in Workers |-> None]
    /\ listening = [w \in Workers |-> {}]
    /\ processing = {}
    /\ processed = {}
    /\ dlq = {}
    /\ replay = [r \in Requests |-> [at |-> "idle", entry |-> None]]
    /\ applied = [k \in Keys |-> 0]
    /\ faults = 0

Key(w) == KeyOf[job[w]]
Fault(kind) == kind \in Faults /\ faults < MaxFaults /\ faults' = faults + 1
Go(w, point) == pc' = [pc EXCEPT ![w] = point]

\* IdempotencyStore.hasProcessed.
IsProcessedNever(k) == FALSE
IsProcessedOrTaken(k) == k \in processed \cup processing
IsProcessedInverted(k) == k \notin processed
IsProcessed(k) == k \in processed

\* job.attemptsMade once the running attempt has failed.
AttemptsUncounted(j) == attemptsMade[j]
AttemptsAfter(j) == attemptsMade[j] + 1

\* BullMQ retries a job while this holds ...
OneMoreAttempt(made) == made <= MaxAttempts
AttemptsLeft(made) == made < MaxAttempts

\* ... and the "failed" listener dead-letters its event once this does.
AnyFailure(made) == TRUE
BeyondLimit(made) == made > MaxAttempts
Exhausted(made) == made >= MaxAttempts

-----------------------------------------------------------------------------
(* The queue.                                                              *)

\* customBackoffDelay: the wait in ms before the next attempt once n were made.
RetryDelays == <<0, 5000, 15000, 30000>>
BackoffDelay(n) == IF n \in DOMAIN RetryDelays THEN RetryDelays[n] ELSE 30000

\* EventPublisher.publish adds the envelope to this consumer's queue.
Publish(j) ==
    /\ status[j] = "absent"
    /\ status' = [status EXCEPT ![j] = "waiting"]
    /\ UNCHANGED <<attemptsMade, stalledCount, lock, origin, workerVars, listening,
                   storeVars, dlq, replay, applied, faults>>

\* The worker fetches a job and takes its lock.  A job that stalled too often
\* is fetched only to be failed.
Fetch(w, j) ==
    /\ pc[w] = "idle"
    /\ status[j] = "waiting"
    /\ status' = [status EXCEPT ![j] = "active"]
    /\ lock' = [lock EXCEPT ![j] = w]
    /\ job' = [job EXCEPT ![w] = j]
    /\ Go(w, IF stalledCount[j] > MaxStalledCount THEN "deferred" ELSE "parsing")
    /\ UNCHANGED <<attemptsMade, stalledCount, origin, listening, storeVars, dlq,
                   replay, applied, faults>>

\* The backoff of a delayed job has passed.
Promote(j) ==
    /\ status[j] = "delayed"
    /\ status' = [status EXCEPT ![j] = "waiting"]
    /\ UNCHANGED <<attemptsMade, stalledCount, lock, origin, workerVars, listening,
                   storeVars, dlq, replay, applied, faults>>

\* The stalled-job checker takes back an active job whose lock expired: its
\* worker died, or (lock_loss) is alive but could not renew the lock in time.
Stalled(j) ==
    /\ status[j] = "active"
    /\ \/ job[lock[j]] # j /\ UNCHANGED faults
       \/ job[lock[j]] = j /\ Fault("lock_loss")
    /\ status' = [status EXCEPT ![j] = "waiting"]
    /\ stalledCount' = [stalledCount EXCEPT ![j] = @ + 1]
    /\ lock' = [lock EXCEPT ![j] = None]
    /\ UNCHANGED <<attemptsMade, origin, workerVars, listening, storeVars, dlq,
                   replay, applied>>

-----------------------------------------------------------------------------
(* EventSubscriber.process, one step per await.                            *)

Parse(w) ==
    /\ pc[w] = "parsing"
    /\ Go(w, IF job[w] \in Malformed THEN "failing" ELSE "checking")
    /\ UNCHANGED <<queueVars, job, listening, storeVars, dlq, replay, applied, faults>>

\* EXISTS; if it is rejected the attempt fails, even that of a duplicate.
HasProcessed(w) ==
    /\ pc[w] = "checking"
    /\ \/ /\ Go(w, IF IsProcessed(Key(w)) THEN "completing" ELSE "acquiring")
          /\ UNCHANGED faults
       \/ Go(w, "failing") /\ Fault("redis_error")
    /\ UNCHANGED <<queueVars, job, listening, storeVars, dlq, replay, applied>>

AcquireWithoutNX(w) ==
    /\ pc[w] = "acquiring"
    /\ processing' = processing \cup {Key(w)}
    /\ Go(w, "handling")
    /\ UNCHANGED <<queueVars, job, listening, processed, dlq, replay, applied, faults>>

\* SET NX.  When the reply of a SET that took effect is lost the client sends
\* it again, and the second answer says the key is taken.  A SET that Redis
\* rejects leaves no key and fails the attempt.
Acquire(w) ==
    /\ pc[w] = "acquiring"
    /\ \/ Key(w) \in processing /\ Go(w, "failing") /\ UNCHANGED <<processing, faults>>
       \/ /\ Key(w) \notin processing
          /\ processing' = processing \cup {Key(w)}
          /\ \/ Go(w, "handling") /\ UNCHANGED faults
             \/ Go(w, "failing") /\ Fault("lost_reply")
       \/ Go(w, "failing") /\ Fault("redis_error") /\ UNCHANGED processing
    /\ UNCHANGED <<queueVars, job, listening, processed, dlq, replay, applied>>

HandlerSucceeds(w) ==
    /\ pc[w] = "handling"
    /\ Go(w, "marking")
    /\ applied' = [applied EXCEPT ![Key(w)] = @ + 1]
    /\ UNCHANGED <<queueVars, job, listening, storeVars, dlq, replay, faults>>

HandlerFails(w) ==
    /\ "handler_error" \in Faults
    /\ pc[w] = "handling"
    /\ Go(w, "releasing")
    /\ UNCHANGED <<queueVars, job, listening, storeVars, dlq, replay, applied, faults>>

MarkProcessed(w) ==
    /\ pc[w] = "marking"
    /\ processed' = processed \cup {Key(w)}
    /\ processing' = processing \ {Key(w)}
    /\ Go(w, "completing")
    /\ UNCHANGED <<queueVars, job, listening, dlq, replay, applied, faults>>

\* The MULTI is rejected, so the catch clause runs although the handler
\* succeeded; with a lost reply the MULTI was executed all the same.
MarkProcessedThrows(w) ==
    /\ pc[w] = "marking"
    /\ \/ Fault("redis_error") /\ UNCHANGED storeVars
       \/ /\ Fault("lost_reply")
          /\ processed' = processed \cup {Key(w)}
          /\ processing' = processing \ {Key(w)}
    /\ Go(w, "releasing")
    /\ UNCHANGED <<queueVars, job, listening, dlq, replay, applied>>

\* DEL of the processing key, whoever set it; an error leaves the key behind.
Release(w) ==
    /\ pc[w] = "releasing"
    /\ \/ processing' = processing \ {Key(w)} /\ UNCHANGED faults
       \/ UNCHANGED processing /\ Fault("redis_error")
    /\ Go(w, "failing")
    /\ UNCHANGED <<queueVars, job, listening, processed, dlq, replay, applied>>

-----------------------------------------------------------------------------
(* What BullMQ does with the outcome, and the "failed" listener.           *)

Leave(w) ==
    /\ job' = [job EXCEPT ![w] = None]
    /\ Go(w, "idle")

Complete(w) ==
    /\ pc[w] = "completing"
    /\ lock[job[w]] = w
    /\ status' = [status EXCEPT ![job[w]] = "completed"]
    /\ lock' = [lock EXCEPT ![job[w]] = None]
    /\ Leave(w)
    /\ UNCHANGED <<attemptsMade, stalledCount, origin, listening, storeVars, dlq,
                   replay, applied, faults>>

\* An attempt failed with attempts left: back to the queue, now or later.
Retry(w) ==
    LET j == job[w]
        made == AttemptsAfter(j)
    IN  /\ pc[w] = "failing"
        /\ lock[j] = w
        /\ AttemptsLeft(made)
        /\ attemptsMade' = [attemptsMade EXCEPT ![j] = made]
        /\ status' = [status EXCEPT ![j] = IF BackoffDelay(made) = 0
                                           THEN "waiting" ELSE "delayed"]
        /\ lock' = [lock EXCEPT ![j] = None]
        /\ Leave(w)
        /\ UNCHANGED <<stalledCount, origin, listening, storeVars, dlq, replay,
                       applied, faults>>

\* The last attempt failed, or the job stalled once too often.  The listener
\* dead-letters the event only when attemptsMade reached the limit.
FailFinally(w) ==
    LET j == job[w]
        made == AttemptsAfter(j)
    IN  /\ \/ pc[w] = "deferred"
           \/ pc[w] = "failing" /\ ~AttemptsLeft(made)
        /\ lock[j] = w
        /\ attemptsMade' = [attemptsMade EXCEPT ![j] = made]
        /\ status' = [status EXCEPT ![j] = "failed"]
        /\ lock' = [lock EXCEPT ![j] = None]
        /\ listening' = IF Exhausted(made)
                        THEN [listening EXCEPT ![w] = @ \cup {j}]
                        ELSE listening
        /\ Leave(w)
        /\ UNCHANGED <<stalledCount, origin, storeVars, dlq, replay, applied, faults>>

\* The worker lost the job's lock meanwhile: BullMQ refuses the outcome.
OutcomeRefused(w) ==
    /\ pc[w] \in {"completing", "failing", "deferred"}
    /\ lock[job[w]] # w
    /\ Leave(w)
    /\ UNCHANGED <<queueVars, listening, storeVars, dlq, replay, applied, faults>>

DeadLetter(w, j) ==
    /\ j \in listening[w]
    /\ dlq' = dlq \cup {j}
    /\ listening' = [listening EXCEPT ![w] = @ \ {j}]
    /\ UNCHANGED <<queueVars, workerVars, storeVars, replay, applied, faults>>

\* The process dies: its run, its lock renewals and its pending listeners.  One
\* cause is in the code: nothing catches what the listener throws, so an add
\* to the DLQ that Redis rejects ends the process.
Crash(w) ==
    /\ \/ Fault("crash") /\ (pc[w] # "idle" \/ listening[w] # {})
       \/ Fault("redis_error") /\ listening[w] # {}
    /\ Leave(w)
    /\ listening' = [listening EXCEPT ![w] = {}]
    /\ UNCHANGED <<queueVars, storeVars, dlq, replay, applied>>

Settled(k) ==
    /\ \A j \in Jobs : KeyOf[j] = k => status[j] \in {"absent", "completed", "failed"}
    /\ \A w \in Workers : pc[w] # "idle" => Key(w) # k

\* Both keys live seven days and every retry of a job fits in one minute, so
\* they can only expire once all the jobs of the key have come to rest.
Expire(k) ==
    /\ Settled(k)
    /\ \/ k \in processing /\ processing' = processing \ {k} /\ UNCHANGED processed
       \/ k \in processed /\ processed' = processed \ {k} /\ UNCHANGED processing
    /\ Fault("expiry")
    /\ UNCHANGED <<queueVars, workerVars, listening, dlq, replay, applied>>

-----------------------------------------------------------------------------
(* QueueManager.replayJob: getJob, add, remove.                            *)

ReplayGetJob(r, j) ==
    /\ replay[r].at = "idle"
    /\ j \in dlq
    /\ replay' = [replay EXCEPT ![r] = [at |-> "found", entry |-> j]]
    /\ UNCHANGED <<queueVars, workerVars, listening, storeVars, dlq, applied, faults>>

SameEvent(n, j) == KeyOf[n] = KeyOf[j] /\ (n \in Malformed <=> j \in Malformed)

ReplayAdd(r, n) ==
    /\ replay[r].at = "found"
    /\ status[n] = "absent"
    /\ SameEvent(n, replay[r].entry)
    /\ status' = [status EXCEPT ![n] = "waiting"]
    /\ origin' = [origin EXCEPT ![n] = replay[r].entry]
    /\ replay' = [replay EXCEPT ![r] = [at |-> "added", entry |-> @.entry]]
    /\ UNCHANGED <<attemptsMade, stalledCount, lock, workerVars, listening, storeVars,
                   dlq, applied, faults>>

RemoveBeforeAdd(r) ==
    /\ replay[r].at = "found"
    /\ dlq' = dlq \ {replay[r].entry}
    /\ UNCHANGED <<queueVars, workerVars, listening, storeVars, replay, applied, faults>>

ReplayRemove(r) ==
    /\ replay[r].at = "added"
    /\ dlq' = dlq \ {replay[r].entry}
    /\ replay' = [replay EXCEPT ![r] = [at |-> "idle", entry |-> None]]
    /\ UNCHANGED <<queueVars, workerVars, listening, storeVars, applied, faults>>

\* The gateway dies between the steps of a replay.
ReplayDies(r) ==
    /\ Fault("crash")
    /\ replay[r].at # "idle"
    /\ replay' = [replay EXCEPT ![r] = [at |-> "idle", entry |-> None]]
    /\ UNCHANGED <<queueVars, workerVars, listening, storeVars, dlq, applied>>

-----------------------------------------------------------------------------
\* The steps a live worker takes by itself once it has a job.
Run(w) ==
    \/ Parse(w) \/ HasProcessed(w) \/ Acquire(w)
    \/ HandlerSucceeds(w) \/ HandlerFails(w)
    \/ MarkProcessed(w) \/ MarkProcessedThrows(w) \/ Release(w)
    \/ Complete(w) \/ Retry(w) \/ FailFinally(w) \/ OutcomeRefused(w)

Next ==
    \/ \E j \in Jobs : Publish(j) \/ Promote(j) \/ Stalled(j)
    \/ \E w \in Workers : Run(w) \/ Crash(w)
    \/ \E w \in Workers, j \in Jobs : Fetch(w, j) \/ DeadLetter(w, j)
    \/ \E k \in Keys : Expire(k)
    \/ \E r \in Requests : ReplayRemove(r) \/ ReplayDies(r)
    \/ \E r \in Requests, j \in Jobs : ReplayGetJob(r, j) \/ ReplayAdd(r, j)

Spec == Init /\ [][Next]_vars

\* What the event loop, BullMQ's fetching and its timers guarantee; nothing
\* is assumed of publishers, operators, faults or the replay requests.
Fairness ==
    /\ \A w \in Workers : WF_vars(Run(w))
    /\ \A w \in Workers, j \in Jobs : WF_vars(DeadLetter(w, j))
    /\ \A j \in Jobs : /\ WF_vars(\E w \in Workers : Fetch(w, j))
                       /\ WF_vars(Promote(j))
                       /\ WF_vars(Stalled(j) /\ UNCHANGED faults)

FairSpec == Spec /\ Fairness

-----------------------------------------------------------------------------
(* The abstract contract this queue implements.                            *)

PhaseOf(j) ==
    IF status[j] = "absent" THEN "unpublished"
    ELSE IF status[j] = "completed" THEN "acknowledged"
    ELSE IF status[j] = "failed" THEN "failed"
    ELSE "pending"

Contract == INSTANCE DeliveryContract
    WITH phase <- [j \in Jobs |-> PhaseOf(j)],
         handled <- {k \in Keys : applied[k] > 0}

\* Every behaviour of the queue, faults included, is one of the contract.
ImplementsContract == Contract!ContractSpec

-----------------------------------------------------------------------------
(* Properties.                                                             *)

\* No two workers ever run the handler of one scoped key at the same time,
\* however often the job is delivered: the lock of IdempotencyStore.acquire.
HandlerExclusion ==
    \A v, w \in Workers :
        v # w /\ pc[v] = "handling" /\ pc[w] = "handling" => Key(v) # Key(w)

\* A job is acknowledged only when a handler run of its key has succeeded:
\* "skipped duplicate" (process, first return) never swallows an event.
AcknowledgedMeansApplied ==
    \A j \in Jobs : status[j] = "completed" => applied[KeyOf[j]] > 0

\* The handler of a key succeeds at most once.
AppliedAtMostOnce == \A k \in Keys : applied[k] <= 1

\* A job that used up its attempts is in the DLQ, on its way there, or back
\* in the queue under a replay id.
ExhaustedIsAccounted ==
    \A j \in Jobs :
        status[j] = "failed" /\ attemptsMade[j] >= MaxAttempts =>
            \/ j \in dlq
            \/ \E w \in Workers : j \in listening[w]
            \/ \E n \in Jobs : origin[n] = j

\* An entry leaves the DLQ only when a copy of its event is already queued:
\* replayJob cannot lose the event, wherever the gateway dies.
ReplayKeepsEvent ==
    [][\A j \in dlq \ dlq' : \E n \in Jobs : origin[n] = j /\ SameEvent(n, j)]_vars

\* Only events that were attempted to the limit are dead-lettered, and the
\* queue never runs such a job again.
DeadLetteredIsFinal ==
    \A j \in Jobs :
        (j \in dlq \/ \E w \in Workers : j \in listening[w]) =>
            status[j] = "failed" /\ attemptsMade[j] = MaxAttempts

\* Every published job comes to rest: acknowledged or failed for good.
EveryJobSettles ==
    \A j \in Jobs : status[j] = "waiting" ~> status[j] \in {"completed", "failed"}

\* Every well-formed event that was published is eventually handled.
EventuallyApplied ==
    \A j \in Jobs \ Malformed : status[j] = "waiting" ~> applied[KeyOf[j]] > 0
=============================================================================
