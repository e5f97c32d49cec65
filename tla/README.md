# Formal models of the AI Platform API gateway and its event backbone

The repository is an Express API gateway (`gateway/src`) and an event backbone
(`packages/events/src`) on BullMQ and Redis. HTTP routes publish events; consumer processes
(`gateway/src/examples/*.consumer.ts`) drain one queue per (event, consumer) pair and keep their
state in PostgreSQL through Prisma. The models follow an event from its publication to what it
leaves behind: how a client and its documents enter and fan out to several queues, how one queue
delivers an event, what the chain of consumers makes of a document, and the rows in which a
client's onboarding is recorded. Four more models cover what a request meets on its way: the rate
limiter, sessions and one-time tokens, the proxy to upstream services, and the review queue.

Paths below are relative to the repository root. "Run" means a TLC run of one `.cfg` file, and
"proved" a theorem that `tlapm` checks for every value of the constants.

## 1. Inventory

### Components, their state and their operations

| Component | State it keeps | Operations | Talks to |
|---|---|---|---|
| **EventSubscriber** (`packages/events/src/subscriber/eventSubscriber.ts`) | one BullMQ worker per queue, its running handlers, in-flight `failed` listeners | `process`, `failed` listener, `close` | IdempotencyStore, DLQ, the handler |
| **IdempotencyStore** (`idempotency/idempotencyStore.ts`) | Redis keys `…:processing:<key>` and `…:processed:<key>`, both with a TTL of seven days | `hasProcessed`, `acquire` (SET NX), `markProcessed` (MULTI), `release` (DEL) | Redis |
| **QueueManager** (`queue/queueManager.ts`) | the queues and dead-letter queues | `replayJob` (getJob, add, remove), listing, statistics | replay route |
| **EventPublisher, SubscriptionRegistry, RedisEventBus** | default consumers per event | `publish`, `register`, `subscribersFor`, `close` | every route and consumer |
| **Pipeline consumers** (`gateway/src/examples/{ocr,validation,review,faceVerification,crmSync,kyc}.consumer.ts`) | PostgreSQL rows per client and document | one handler per event, each publishing the next event | publisher, audit log, onboarding state |
| **Onboarding state** (`services/onboardingState.service.ts`) | progress row, completed-step rows, copy on the Client row | `initializeOnboardingState`, `updateOnboardingProgress`, `completeKyc` | onboarding and kyc consumers, audit log |
| **Routes that admit clients and documents** (`routes/{dashboard,event,onboardingFrontend}.routes.ts`, `workflows/`, `services/frontendMockData.service.ts`) | Client and Document rows | `createClient`, `addDocument`, the onboarding workflow, the event routes | publisher, audit log |
| **CRM and data-room state** (`services/{crm,dataRoom}State.service.ts`) | CRM record, documents associated with it, data room | `createCrmRecord`, `associateCrmDocument`, `provisionDataRoom` | crm and data-room consumers |
| **Circuit breaker, proxy, service registry** | breaker state per service, health per instance, cursor | `canRequest`, `recordSuccess`, `recordFailure`, `nextTarget`, `markDown`, polling | upstream services |
| **Rate limiter** (`middleware/rateLimit.ts`) | Redis counter and its TTL; buckets in the gateway's memory | INCR, PEXPIRE, PTTL; the fallback; the sweeper | every request |
| **Sessions and one-time tokens** (`services/auth.service.ts`, `routes/auth.routes.ts`) | accounts; refresh, reset and verification tokens | login, register, refresh, logout, forgot and reset password, verify e-mail | auth routes, audit log |
| **Route guards** (`index.ts`, `routes/*`) | order of mounted routers | role checks | every request |
| **Review queue, processor, chaser** (`document.processor.ts`, `validationEngine.service.ts`, `reviewQueue.service.ts`, `chaserEmail.service.ts` at the root of `src/`) | OCR result, checks and queue item of each document, its status | process, assign, comment, approve, reject, escalate, the chaser | schedulers, e-mail |

The rest (e-mail, alerting, secrets, chat, placeholders, Terraform, configuration, logging and
metrics) are I/O adapters, constants or output. `PROJECT.json` lists all of them under
`components` with the reason.

### How they interact

```
 HTTP route --publish--> [queue event:consumer] --process--> handler --publish--> next queue
     |                        |     ^                           |
     |                     retries  | replay                    +--> PostgreSQL (progress, client,
     +--> PostgreSQL          v     |                                 audit, CRM)
                          [dead-letter queue]

 chain: document.uploaded -> document.ocr.completed -> document.validation.completed
        -> review.approved -> face.verification.completed -> crm.sync.completed -> kyc.completed
```

`client.created` and `document.uploaded` go to several queues at once, one per consumer the publisher
names. Nothing is shared between consumers but Redis keys and database rows. Everything a consumer needs
of an earlier step travels in the envelope: its idempotency key and, in optional metadata, the
client id.

### What is hard

* Each guarantee of the queue is a conversation of several Redis round trips: a worker can die, lose
  its BullMQ lock or meet another worker of the same key between any two.
* BullMQ redelivers; the idempotency keys have to make redelivery harmless without making it
  impossible.
* The dead-letter entry is written by an event listener after BullMQ has already settled the job.
* Consumers of different events of one client run at the same time and in any order, and the
  progress row is copied to the client row outside the transaction that computes it.
* Consumers publish before they have finished; an attempt that fails afterwards is repeated, with
  fresh random ids.
* Routes and consumers share idempotency keys for the same document.
* A publication is several additions to several queues, some of which may be refused.
* The rate limiter counts with three commands of which any may fail, and forgets by time alone.
* Every handler of `auth.service.ts` but one checks in one database call and writes in the next.
* Processing a document, deciding on it and chasing the reviewer are requests that overlap freely,
  and only parts of them are transactions.

### What makes each component correct

* *Delivery*: handlers of one key never overlap; a job is acknowledged only for an event that was
  handled; whatever ran out of attempts is in the DLQ and stays settled; a replay loses nothing;
  every job comes to rest.
* *Pipeline*: no KYC approval without a clean review or a manual request; no more reviews and
  approvals than causes for them; a clean document gets through.
* *Onboarding*: no completion that was not earned; the percentage equals the recorded steps; the
  client row agrees with the progress row once all is quiet; no document is forgotten.
* *Intake*: an acknowledged event was done; CRM and data room know the same clients; a second
  attempt repairs a publication that reached only some queues.
* *Upstream*: the breaker is consistent whatever the order of the answers and never shuts a service
  out for good; healthy instances take turns; the registry learns what works and what does not.
* *Rate limiter*: a window ends; a counter lets no more through than two windows that meet.
* *Sessions*: one live token per session; a session survives failures and does not survive logout or
  reset; a one-time token is used once.
* *Review*: a document carries the decision its item shows, has the checks of one run and is queued
  if it must be; the chaser respects decisions.

`PROJECT.json` lists the hazards of this code line by line, each with the properties that watch
it.

## 2. Modules

| Module | What it is | Checked by | Proved in |
|---|---|---|---|
| `DeliveryContract` | abstract: what one consumer's queue promises | through `ImplementsContract` | `EventDeliveryProofs` |
| `EventDelivery` | subscriber, idempotency store, DLQ and replay of one queue | `MCEventDelivery`, 3 cfgs | `EventDeliveryProofs` |
| `ClientIntake` | routes that publish, the fan-out, the CRM, data-room and onboarding consumers | `MCClientIntake`, 1 cfg | `IntakeProofs` |
| `DocumentPipeline` | six consumers and the routes that enter their chain | `MCDocumentPipeline`, 2 cfgs | `PipelineProofs` |
| `OnboardingProgress` | the rows of one client and the three handlers that write them | `MCOnboardingProgress`, 2 cfgs | `OnboardingProofs` |
| `Upstream` | breaker, registry and proxied requests of one upstream service | `MCUpstream`, 1 cfg | `UpstreamProofs` |
| `RateLimiter` | the counters of one identity | `MCRateLimiter`, 1 cfg | `RateLimiterProofs` |
| `SessionTokens` | accounts, sessions and one-time tokens | `MCSessionTokens`, 1 cfg | `SessionProofs` |
| `DocumentReview` | processing, review queue and chaser | `MCDocumentReview`, 1 cfg | `ReviewProofs` |

The modules are stacked by abstraction, not by EXTENDS. `EventDelivery` refines `DeliveryContract`.
`ClientIntake`, `DocumentPipeline` and `OnboardingProgress` use queues and therefore assume what a
consumer may expect of one: a handler starts only for a key that is not processed, a failed attempt
is repeated, an exhausted job is dead. That is narrower than `EventDelivery`: two jobs of one key
that are both handled, and the lock a dead worker leaves behind (section 6), do not occur in them. A
fault of these modules is a failed attempt or a refused addition. `ClientIntake` covers the breadth
of one publication (several queues, several records of one client), `OnboardingProgress` the depth of
one of its consumers (each database call of three handlers that share rows).

### EventDelivery

One queue and all its workers. Every awaited Redis call is a step.

| TLA+ | Code |
|---|---|
| `status`, `attemptsMade`, `stalledCount`, `lock` | what BullMQ keeps of a job (external; modelled from how the code relies on it) |
| `pc[w]`, `job[w]` | the `await` at which `process(job)` stands in one concurrency slot |
| `processing`, `processed` | the two sets of Redis keys of `IdempotencyStore` |
| `listening[w]` | `failed` listeners that have been called and have not added to the DLQ |
| `dlq`, `origin`, `replay[r]` | DLQ, the entry a replayed job copies, a running `replayJob` |
| `applied` | history: successful handler runs per key |

`Parse`, `HasProcessed`, `Acquire`, `HandlerSucceeds`/`HandlerFails`,
`MarkProcessed`/`MarkProcessedThrows` and `Release` are `process()` (lines 152-201) await by await.
`Complete`, `Retry`, `FailFinally` and `OutcomeRefused` are what BullMQ does with its outcome,
`FailFinally` with the condition of the `failed` listener and `DeadLetter` its asynchronous add.
`Stalled` is BullMQ's stalled-job checker. `ReplayGetJob`, `ReplayAdd`, `ReplayRemove` are
`replayJob`. Faults are counted: `handler_error` switches handler failures on and is not counted,
since attempts bound it; `crash` (worker or gateway), `lock_loss`, `redis_error`, `lost_reply` (a command executed whose reply is lost and which the client repeats or
reports as failed) and `expiry` (a key's TTL) each use one of `MaxFaults`. `redis_error` is a command rejected without
having been executed, at each place the code sends one: EXISTS, which fails the attempt even for a
processed key; SET NX; the MULTI of `markProcessed`; DEL; and the listener's addition to the DLQ.
Nothing catches what the listener throws, so a rejected addition ends the process: it is the second
way into `Crash`.

### DocumentPipeline

| TLA+ | Code |
|---|---|
| `jobs` | every job of the six queues: event, idempotency key, document, client id in the metadata, its point and attempts |
| `id` of a job | a path: the route request it stems from and the attempt of each consumer on the way. Random ids of the code (reviews, verifications, events) are new in each attempt, and so are paths |
| `processed` | processed keys, scoped by event as `scopedKey` does (each event here has one consumer) |
| `reviews` | decisions `review.consumer.ts` published |
| `kycRuns`, `overrides`, `late` | history: approvals; requests that skip the review; attempts that failed after publishing |

An action of a consumer (`ValidationConsumer`, `ReviewConsumer`, `FaceConsumer`, `CrmSyncConsumer`,
`KycConsumer`, `OcrConsumer`) is the whole handler up to its publish, which leaves the job
"published"; `MarkProcessed` ends it, `FailsAfter` fails it late, `FailsBefore` early. `Extract`,
`Validate`, `Approve`, `SyncCrm` and `Upload` are the routes. A document's content is one of two
qualities, because `validateDocument` calls a document valid only without issues: with one issue the
score no longer matters. A published event that nobody consumes (`review.assigned`,
`review.rejected`, `kyc.completed` downstream) is left out.

Three simplifications. A document is identified with its client, while the routes
(`ocr.routes.ts:14,46`, `validation.routes.ts:15,51`) accept any pair of ids: a document of the model
is a document submitted under one client's id, and "a client with a clean review" reads "a client under
whose id a clean document was submitted". `review/approve` takes any review id, and so does the model:
one that a review has, or `UnknownReview`, one that none has. The keys are never forgotten: their seven
days do not end within a behaviour, which is what `ReviewedOnce` and `KycRunsAreBounded` count on
(`EventDelivery` has the expiry).

### OnboardingProgress

| TLA+ | Code |
|---|---|
| `client` | `onboardingStatus` and `progressPercent` of the Client row |
| `progress`, `steps` | `OnboardingProgress` row, `OnboardingCompletedStep` rows |
| `at[e]` | the database call at which the handler of event `e` stands |
| `seen[e]` | the values the handler holds in variables and writes later |
| `UpsertLocks` | whether the progress row's upsert locks it until the commit |

`UpsertLocks` is a constant because the answer is not in the repository: Prisma runs this upsert as
one statement that locks, or as a read that does not, depending on version and on the shape of the
`where`. The safety properties that need the lock say so in their premise; the others are checked
without it, the weaker case. `CountSteps` and `Commit` are the two halves of the transaction of
`updateOnboardingProgress`, `updateClientOnboardingState` the copy after it, `writeAuditLog` the
audit row, which a foreign key refuses for an unknown client. `UpsertProgress` is
`initializeOnboardingState`; `FindProgress` and `ApproveProgress` are `completeKyc`.
`ShownCompleted` is what `getOnboardingProgress` of `frontendMockData.service.ts` derives from the
client row alone.

### Upstream

| TLA+ | Code |
|---|---|
| `state`, `failures`, `elapsed` | the service's `Circuit`; `elapsed` is "`CIRCUIT_RESET_TIMEOUT_MS` have passed since `openedAt`" |
| `status`, `cursor` | the runtime instances of the service and its cursor |
| `flight`, `target`, `check` | requests and health checks: where they are, or the answer on its way |
| `working` | environment: does the instance answer? |
| `waits` | history: picks since an instance was last chosen |

The gateway is single-threaded, so `Forward` is one step: the breaker's check and the choice of an
instance happen in one turn of the event loop. Answers are two steps, worked out by the instance
(`Serve`, `HealthAnswer`) and recorded later (`proxyRes`, `proxyError`, `checkInstance`), so that they
may be outdated and overtake each other. Failures are counted up to the threshold, which is all the
code compares. A round of health checks ends after 1.5 seconds and the next begins after ten, so one
instance has one check at a time. `markDown` and `markUp` are never called and are left out.

### ClientIntake

| TLA+ | Code |
|---|---|
| `row[c]` | the Client row: absent, a placeholder some event made, or entered in the dashboard |
| `creating`, `upload[d]` | routes between their database call and their publication |
| `pub[p]` | an envelope: which route made it, its client and document |
| `job[p][t]` | its job in the queue of consumer `t`; "lost" when that queue refused it |
| `processed` | idempotency keys, per consumer as `scopedKey` makes them |
| `made[t]`, `linked[t]` | clients and documents consumer `t` has recorded |
| `early` | history: document events the CRM took before it knew the client |

`Targets` are the consumers each route names and `Key` the four forms of idempotency key: both
document routes share one. `Publish` is the `Promise.all` of `publish`: any subset of the queues may
have taken its copy when one refuses, and the caller may publish again. A handler is two or three
actions, one per database call (`EnsureClient`, `MakeRecord`/`RecordStep`/`FindRecord`, `Associate`),
then `MarkProcessed`. `HandlerFails` stands for any failed call or dead worker between them. `Replay`
is `replayJob` as one step; its three calls, and what may come between them, are in `EventDelivery`.

### RateLimiter

| TLA+ | Code |
|---|---|
| `usesRedis` | is a Redis client given? (the limiter of the auth routes has none) |
| `count`, `ttl` | the key's value and PTTL |
| `buckets[g]` | the Map entry of gateway `g` |
| `req[r]` | the command whose answer a request waits for; the counter that took it; its age |
| `orphaned` | history: a PEXPIRE was lost |

`Incr`, `Pexpire`, `Pttl` are the three commands, `IncrFails`, `PexpireFails`, `PttlFails` their
errors, which fall back to `CountLocally`. An INCR that fails may have been executed. Time is counted
down in ticks: what is left of each window, and the age of each request up to one window. Identities
share nothing, so one is enough.

### SessionTokens

| TLA+ | Code |
|---|---|
| `account[u]` | User row: existence, version of the password, `emailVerifiedAt` |
| `refresh[t]` | RefreshToken row; `family` is `familyId`, `gen` the password version its handler read |
| `onetime[o]` | PasswordResetToken and EmailVerificationToken rows; `uses` is history |
| `req[r]` | a handler: the call it is about to make and what it holds in variables |
| `held` | refresh tokens some client was given |
| `cut`, `forked`, `crossed`, `doubled`, `overlapped` | history: what ended, and which handlers overlapped |

Only `resetPasswordWithToken` writes in a transaction (`ResetCommit`); everywhere else a check and
the write that depends on it are two actions: for a new one-time token the lookup (`ForgotPassword`,
`ResendVerification`, or `ConfirmRegistered` behind a registration), the withdrawal of older tokens
(`Supersede`) and `CreateOneTime`. `HandlerFails` ends a handler before its next call; an
audit entry that fails after the last write is the second disjunct of `Issue` and `Retire`: the row
is there and the client never hears of it. One constant says whether logins create missing accounts
(`NODE_ENV`) and one whether an identity provider is configured; the run has both.

### DocumentReview

| TLA+ | Code |
|---|---|
| `ocr[d]`, `checks[d]` | the run whose OcrResult the document has; the runs it has ValidationResult rows of |
| `queue[d]`, `overdue` | its ReviewQueue row, and whether `dueAt` is past |
| `document[d]` | Document.status |
| `reading[n]` | what run `n` extracted: the fields found, the rules their values break |
| `req[r]` | a handler: its next call, the documents it works on |
| `crossed`, `broken` | history: decisions, or runs, that overlapped or broke off |

`StoreOcr` to `Answer` are `processUploadedDocument`; `WriteChecks` and `EnsureReviewQueue` insert
rows that refer to an OCR result and are refused (`Refused`) when another run has replaced it; `StoreOcr`
itself may be refused when another run's transaction overlapped it, because `documentId` is unique.
`Assign`, `Comment`, `Escalate` and `Decide` are the review actions, none of which looks at the
item's status; `DecideDocument` is the later update of the document. `ListStale` and `EscalateListed`
are the chaser. Confidences and rules are the code's own numbers and names; whether a value breaks
its rule is part of the reading, as is whether the document has a checksum.

These files lie at the root of `src/`, apart from the gateway: what they import (`./database.service`,
`../middleware/auth`, `../services/...`) does not exist next to them, the gateway's build does not
include them, and they use tables that `prisma/schema.prisma` does not have. The model reads them with
the root `schema.prisma`, which has the tables, as code to be put under `gateway/src/services` and
`routes`.

## 3. Runs

Runs that must pass:

| Run | Question | Instance | Result |
|---|---|---|---|
| `delivery_faults` | do the safety properties and the contract hold under faults? | 3 jobs of one key, 2 workers, 1 replay, 2 attempts, 2 faults of five kinds, symmetric | 476k states |
| `delivery_once` | is a key handled once when each key has one job, and does each job come to rest? | 2 keys, 2 workers, 3 attempts, 2 faults incl. lost replies, fair | 74k states |
| `delivery_reliable` | without faults, is every event handled and every exhausted job accounted for at each step? | 2 jobs of one key and a malformed one, 2 workers, 5 attempts, fair | 13k states |
| `pipeline` | is KYC justified, bounded, and reached? | 1 client, 2 requests of any kind, 2 attempts, 1 fault anywhere, fair | 572k states |
| `onboarding_progress` | is progress right and complete? | `client.created`, the last two of five documents, KYC; 2 slots per queue, no lock, 1 failure, fair | 166k states |
| `upstream` | does the breaker survive answers in any order, are turns fair, is health learned? | 3 instances of any initial health that changes once, 2 requests in flight, threshold 2, fair timers and poller | 499k states |
| `intake` | does a client reach all its records, and is nothing acknowledged that was not done? | 1 client, 1 document, 2 publications by any of five ways, 1 fault, fair | 95k states |
| `limits` | do windows end, and what do they let through? | 2 gateways, 3 requests, limit 1, windows of 2 ticks, 1 fault, with and without Redis, fair | 192k states |
| `sessions` | do sessions continue, end and fork as they should, are one-time tokens used once? | 1 account, 2 handlers at once, 3 refresh and 2 one-time tokens of which 4 in all, 1 fault | 1.80M states |
| `review` | do decisions, checks and the queue agree, does the chaser respect decisions? | 2 documents, 3 handlers at once, 2 processings, 2 actions, 1 fault, symmetric | 616k states |

Runs that must be violated, each with the statement of the repository it refutes (section 6):
`pipeline_upload`, `onboarding_kyc`.

### Why the bounds are enough

* *Delivery.* Any conflict over a key is between two runs; two workers make all of them, a third
  job adds a replay to a duplicate. Two attempts distinguish a retried failure from the last one;
  `delivery_reliable` uses the real five and the real backoff, in which the first retry is
  immediate and the later ones wait. One fault is enough for each crash window, two combine a lost
  lock with a crash. The theorems about this module need none of these bounds.
* *Pipeline.* Two requests are enough for every collision of keys (route against consumer, route
  against route), two attempts for a late failure and its repetition. Three attempts with two faults
  and one request, and two clients without faults, were checked by hand as well and pass.
* *Onboarding.* Three of the five steps may be recorded from the start, so that two documents reach
  100 percent; the arithmetic of the steps before is exercised because the run also starts without
  any. Two slots give all pairs of overlapping handlers.
* *Upstream.* Three instances are the fewest for which the set of healthy ones can change and still
  leave a choice, which is when a wrong cursor shows. Two requests give an answer that is overtaken,
  a threshold of two a failure that does not yet open the circuit. With two changes of health (1.3
  million states, checked by hand) the properties hold as well.

* *Intake.* Two publications make every collision of keys and every order of a client's event and its
  document's; one fault makes every partial fan-out and every repetition. Two clients (499k states,
  safety by hand) show a document id published for both.
* *Rate limiter.* With a limit of one and windows of two ticks three requests are needed to pass more
  than two windows' worth, and three suffice for every overlap of the commands of two. A second fault
  and a limit of two were left to the proof, which needs no bound.
* *Sessions.* Every property is about two handlers that overlap or one that fails. Four tokens allow a
  login, a rotation and a reset, or two rotations of one token; the proofs need none of these bounds.
* *Review.* Three handlers are a run, a decision and the chaser, or two runs and a decision; two
  documents give the chaser a list to work through.

Deadlock checking is off in every run: the system stops when all jobs are settled and no bounded
request or fault is left.

### Fairness

* `EventDelivery`: weak fairness of each worker's next step (the Node event loop resumes an awaited
  call), of each listener's DLQ add, of the fetch of a waiting job by some worker and of the
  promotion of a delayed job (BullMQ's blocking fetch and its delay timers), and of the stalled-job
  checker for a job whose worker is gone (it runs on an interval). `Crash` disables what it kills,
  so nothing is assumed of a dead process. Publishers, operators, replay requests and faults are
  not fair.
* `DocumentPipeline`: weak fairness of delivery as a whole. Every delivery step settles part of a
  finite amount of work, so weak fairness of the disjunction is enough, and it is the weakest form.
* `OnboardingProgress`: weak fairness of each handler.
* `ClientIntake`: weak fairness of consuming as a whole, as in `DocumentPipeline`. Nobody has to
  publish, and a dead-lettered job need not be replayed.
* `RateLimiter`: weak fairness of PEXPIRE and of PTTL of each request (a command that was sent is
  answered, or fails) and of time. Nobody has to call.
* `SessionTokens` and `DocumentReview` state no liveness: a handler that stops is never resumed.
* `Upstream`: weak fairness of the reset timeout and of each instance's health check (an interval,
  and an abort that ends a check nobody answers). Callers need not call, and instances need not
  answer a proxied request: the proxy sets no timeout.

## 4. Properties

**EventDelivery.** `HandlerExclusion`: handlers of one key never overlap, although a stalled job is
delivered while its first worker still runs. `AcknowledgedMeansApplied`: "skipped duplicate" never
swallows an event that nobody handled. `DeadLetteredIsFinal`, `ExhaustedIsAccounted`:
only exhausted jobs reach the DLQ and none of them runs again; without crashes and rejected commands
an exhausted job is at every moment in the DLQ, on its way there or replayed.
`ReplayKeepsEvent`: an entry leaves the DLQ only when a copy is queued. `AppliedAtMostOnce` holds
for a key with one job and fails for two. `EveryJobSettles`, `EventuallyApplied`: liveness.
`ImplementsContract`: refinement of `DeliveryContract`.

**DocumentPipeline.** `KycIsJustified`; `ReviewedOnce` and `KycRunsAreBounded`, which count exactly
the causes of a repetition (a late failure of a consumer whose ids are random), and
`CleanDocumentReachesKyc`.

**OnboardingProgress.** `CompletedIsEarned`, `ProgressCountsSteps`, `EveryDocumentCounts`.
`ReadersAgree`: once all is quiet, the Client row agrees with the progress row and the steps the
frontend shows with those recorded, whatever failed and was retried; it is claimed only when no
handlers overlapped, because then the client row can go stale (section 6).

**ClientIntake.** `AcknowledgedIsDone`: a consumer acknowledges an event only if what it asks is done,
by this event or another of its key; the two exceptions the code allows are named in the property.
`NoSilentDivergence`: CRM and data room differ only by events that are pending, dead or refused.
`AcceptedReachesAll` (liveness): a publication that was accepted reaches every target, also when it
repeats one that reached only some.

**RateLimiter.** `AtMostTwoWindows`, `NoTtlIsAccounted` and `CountersRestart` (liveness): see the
hazards. What is *not* true, and not claimed, is that a caller never passes more than the limit per
window: fixed windows meet, and each gateway counts for itself after an error.

**SessionTokens.** `OneLiveToken`, `SessionSurvives`, `ResetEndsSessions`, `EndedStaysEnded` and
`OneTimeTokens`. The first, the third and the last have exceptions, recorded by history variables
that are set exactly where two handlers overlap (or one breaks off); without the overlap the promise
holds.

**DocumentReview.** `DocumentAgrees` and `LatestRunIsComplete`, with exceptions of the same kind;
`ChecksOfOneRun`, which holds although runs overlap, thanks to the foreign key alone; and
`EscalationRespectsDecisions`.

**Upstream.** `HalfOpenIsOneStrike`: a circuit that is not closed holds the failures that opened it.
`TurnsAreFair`: round robin, across changes of health. `NeverShutForGood`, `HealthIsLearned`: liveness.

Every property of a passing run has a mutant in `PROJECT.json`: a plausible bug in one definition
that violates it in the same run.

## 5. Proofs

All theorems are for arbitrary jobs, workers, clients, documents, handlers, attempts, limits and fault
bounds, from the modules' `ASSUME`s, which TLC evaluates for every instance. Five state a further
hypothesis on the constants, named below with its reason. Every invariant and every action property of a
passing run is a theorem; what the runs alone check is liveness. The types of the
last four modules are proved (`IntakeTypes`, `LimiterTypes`, `SessionTypes`, `ReviewTypes`) and
therefore not among the properties of their runs. Three theorems state the safety under a liveness
property, which holds whatever is scheduled and whatever dies: `NoDocumentIsLost`,
`AcknowledgedLeavesItsRecord` and `AcceptedIsNeverDropped`.

**EventDeliveryProofs.** `TypeCorrect` needs `QueueInv` besides `TypeOK`: a job that may still run
has an attempt left, otherwise counting a failure could exceed `MaxAttempts`. `HandlersExclude`
rests on `LockInv`: a worker between `acquire` and `markProcessed`/`release` owns the processing
key, and no two own the same one. It is proved from `"lost_reply" \notin Faults`: if the MULTI
of `markProcessed` takes effect and its reply is lost, the worker goes on to `release` a key that
another worker may own by then, so the invariant does not hold with lost replies.
`AcknowledgedIsApplied` carries "a processed key, and a worker past its handler, means `applied`".
`DeadLettersAreFinal` and `ReplayKeepsEvents` carry where exhausted jobs and replays can be.
`QueueImplementsContract` shows that every step is a contract step or a stutter, with `RunningInv`:
the job a worker runs was published.

`ExhaustedStaysAccounted` is proved from `Faults \cap {"crash", "redis_error"} = {}`: between BullMQ's final failure and
the listener's addition nothing but the process knows of the job. `AppliedOnce` is proved from
`OwnKeys` (each job has its own key) and no `lock_loss` or `redis_error`; crashes, lost replies, handler
errors and expiry may happen. TLC finds a second success as soon as one of the three hypotheses is
dropped. `OneRunInv` says that a job runs on one worker, `HeldInv` that a handler holds its processing
key, and `SpentInv` that after a success nothing brings the key to its handler: the job is at rest, or
the store holds the key against whoever runs it.

`DuplicatesArePaidFor` has no condition on keys, copies or faults (only that jobs and workers are finite
sets, so that they can be counted) and bounds what `AppliedOnce` excludes: a handler succeeds at most
once per copy of its event that a worker holds or that is acknowledged, and once more per fault.
Its invariant `SuccessInv` is the count at a moment when it does not yet add up: a worker that has lost
its job's lock may still run the handler after another worker has fetched the job, so such a
`Stray` worker counts as a success from the fault that made it one. TLC checked `SuccessInv` on the
three instances before it was proved.

**OnboardingProofs.** `CompletionIsEarned`: `SeenEarned` says that whatever a handler holds in
`seen` and may copy later was earned when it was read, and stays earned because steps are never
deleted and an approval is never withdrawn. The count needs `PercentFull` (only five steps round
to 100) and `StepKeysCardinality`.

`ProgressIsTheCount` and `ReadersAgreeAtRest` rest on `SerialInv`. Its `CountInv` carries what an open
transaction has counted: the percentage of the recorded steps *and its own*, which is right at the
commit because transactions that are serialised, by the lock or because handlers did not overlap, are
never open two at a time. Its `MirrorInv` is what retries make of the copy: where handlers did not
overlap, the client row agrees with the progress row or some job has still to write it, one whose
attempt failed between commit and copy included (`StillToMirror`). At rest nobody has. The step from
the copied percentage to the steps shown is `ShownOfCounted`. `ReadersAgreeAtRest` assumes
`Events # {}`: for a client nothing was ever published for, there is no row to read.

`AcknowledgedLeavesItsRecord` needs neither lock nor serial handlers: `RecordedInv` says what a job has
recorded at each of its points.

**PipelineProofs.** `IInv` has `Jobs` (every job is well formed, an open one has an
attempt left, a CRM sync carries its client's id, a validation event the key of its document),
`Records` (counters and decisions have their types), `Gate` (every event behind the review, not only
the approval at the end, belongs to a client with a clean review or a manual request) and
`KycIsJustified`, which follows from `Gate` in the step of the KYC consumer; hence `PipelineTypes`
and `KycStaysJustified`. On top of it `Budget` counts: a document's reviews are finite in number, at
most one per late failure of the review consumer, and one more only if its validation key is `Taken`
(processed, or published under), which is what keeps another review from starting. `ReviewsAreBounded`
follows.

`KycStaysBounded` counts along the chain. `Chain` has `Origins` (an approval's key was made up by a
request or names an approving review; a CRM sync's key was made up by a request or names a face
verification) and `Paid`: keys made up by requests are at most the overrides, face verifications at
most the taken approval keys and the late failures of the face consumer, KYC runs at most the taken sync
keys and the late failures of the KYC consumer. `LinkStep` is the one counting argument, used for both
links; `ChainAddsUp` adds them up.

`NoDocumentIsLost` follows a document. `Trail` says of each event what has been sent once it was
handled (`Follows`): behind a key that is processed or published under there is a job of the next event
for the same document. The difficulty is that keys, not jobs, are processed, and a skipped duplicate is
done without having sent anything: so two jobs of one key must concern one document (`SameDocument`),
which for random ids rests on `Rooted` (every id goes back to the one request that started it).


**UpstreamProofs.** `HalfOpenKeepsItsFailures`: every step of the module does to the circuit what one
of three methods does, or leaves it alone, and each of them keeps `CircuitInv`. `TurnsStayFair` has
`TurnsInv`: what a candidate has waited and the turns still before it, counted from the cursor, are
less than a round. It rests on ranks: the place of an instance among the candidates numbers them from
zero without a gap, for any finite set, so that the cursor modulo their number always selects one
(`UpstreamTypes` needs that too).

**IntakeProofs.** `IInv` adds to the types: `PubsInv` (publications are numbered without gaps and never
change, and every `client.created` names CRM and data room), `HandlerInv` (what a handler read before
its next write still holds: a client row or CRM record once made stays) and `DoneInv` (a mark, and a
handler past its last write, stand for work that was done). The last is the point: a mark says
something about *some* publication of the key, and `Fulfilled` follows for all of them. Besides
`AcknowledgedStaysDone` and `DivergenceIsAccounted` it yields `RecordsKeepClients` (what the foreign
keys demand holds before they have to refuse anything) and `DetailsAreKept`. `AcceptedIsNeverDropped`
adds `TargetsInv`: every consumer a publisher names has a job or was refused one.

**RateLimiterProofs.** `CounterEndIsAccounted` needs little. `TwoWindowsAtMost` needs `WindowsInv`: what
a counter took within the last window and lets pass splits into the requests of its present window, at
most `MaxRequests` and at most its count, and those of earlier ones, at most `MaxRequests`, which are
all old enough to be a full window old before the present one ends. The step that needs the split is
the end of a window, where the present requests become the earlier ones and the earlier ones have aged
out.

**SessionProofs.** `Typed` carries, besides the types, that handlers and rows belong to users, what each
handler holds on to, and that tokens are numbered without gaps. `SessionStep` and `OneTimeStep` sort
the actions by what they do to sessions and to one-time tokens. `RotationInv`: in a family that is not
forked at most one handler rotates, and while it does every live token is the one it replaces or the
one it issued; from it `OneTokenPerSession`. `PendingInv` and `SurviveInv`: the token a rotation
replaces stays live until the successor is. `OnceInv`, `UsableInv`, `VerifiedInv`: a token not accepted
twice has one handler, the first to use it; where creations did not overlap there is one creator, and
nothing usable while it is at work; an account is verified before its token is used up. Together
they give `OneTimeTokensHold`.

**ReviewProofs.** `HandlerInv` (a run and a decision concern one document, runs in progress have numbers
of their own), `CheckInv` (the run that may still write finds no checks), `LatestInv` (what a run has
done at each of its steps, where runs do not overlap), `DecisionInv` (a decision under way is the one the
item shows) and `LateInv` (an item on the chaser's list that is decided was decided since). `CheckInv`
does not need `broken`: the foreign key alone keeps a second run out.

**Only model-checked.** Liveness: `EveryJobSettles`, `EventuallyApplied`, `EveryDocumentCounts`,
`CleanDocumentReachesKyc`, `NeverShutForGood`, `HealthIsLearned`, `AcceptedReachesAll` and
`CountersRestart`, and the two properties that are violated. Liveness under fairness, ENABLED, and
induction over data are out of the prover's reach.

## 6. What the models found

| Run | What happens | What the repository says |
|---|---|---|
| `pipeline_upload` | both upload routes name targets without `ocr-service`, which overrides the default consumers: an upload never reaches OCR | `README.md:55-58` |
| `onboarding_kyc` | a document handled after KYC approval takes a completed client back to `in_progress` | `README.md:97` |

The exceptions that properties name are behaviours of the code as well. Each can be reproduced by
removing the exception, or by the change of a configuration given here:

* *Two jobs of one key* may both be handled without any fault: `hasProcessed` and `acquire` are two
  round trips, and nobody looks again after acquiring (`docs/threat-model.md:32,44` promise
  idempotency). Give `EventDelivery_once.cfg` the definition `KeyOf <- OneKey`.
* *A process that dies* between BullMQ's final failure and the listener's addition leaves the job in
  no DLQ (`README.md:332`): add `"crash"` or `"redis_error"` to the faults of
  `EventDelivery_reliable.cfg`: either of them violates both of its properties. A worker that
  dies inside its handler leaves a processing key that outlives every retry, and the event is
  dead-lettered unhandled (`docs/high-availability.md:25`).
* *A copy of an older commit* may be written last: five documents handled, and the Client row stays at
  80 percent (`gateway/src/__tests__/gateway.integration.test.ts:1017-1018` expects agreement). Remove
  `~overlapped` from `ReadersAgree`.
* *A lost PEXPIRE* leaves a Redis counter without an end, which finally rejects the caller for ever.
* *Two rotations of one refresh token* at once both succeed and fork the session; reuse of a
  rotated token is answered with 401 and nothing else, whereas `README.md:88` promises the invalidation
  of the whole chain.
* *A one-time token* can be used by two requests that overlap, and a login or rotation that overlaps a
  password reset survives it; without overlap `docs/security-hardening.md:8-9` holds.
* *A document the CRM takes before the client* is never associated: `associateCrmDocument` returns
  silently, the event is acknowledged and its key used up. A document id published for two clients is
  skipped for the second.

So a property that watches a hazard does not always catch it. The following hazards of `PROJECT.json`,
numbered in its order, are wholly or partly the named exception of a property they cite, or outside its
run: the model shows how far they reach, and a passing run does not say that they do not happen. Their
notes say which exception it is. H2 (a key left by a dead worker), H4 (a DLQ entry lost with its
process), H7 (lost replies, in `delivery_once` only), H11 (a job that stalled too often), H13 (copies in
the opposite order), H17 (overlap without the lock), H19 (the corrected document), H25 (the skipped
association), H30 (the counter without an end), H32 (the forked session), H34 (a session inserted after
a reset), H35 and H37 (one-time tokens of overlapping requests), H38 (a decision newer than the chaser's
list), H39 (overlapping decisions) and H40 (overlapping runs, whose checks `ChecksOfOneRun` does cover).
H1 takes two jobs of one key, which `delivery_once` does not have.

Observed while modelling, without a property of their own: the review decision "assigned"
(`review.service.ts:17`) is unreachable, since a document that scores below 95 has an issue and is
not valid (`validation.service.ts:39`); whether a face matched is computed and never looked at;
`review/assign` and `review/reject` publish events that nothing consumes; `completeKyc` for a client
without a progress row records an audit entry only; approving a review by hand without a client id in
the metadata makes the CRM sync audit an unknown client and ends in its dead-letter queue
(`UnknownCustomer`); one failing instance among several can open the circuit of the whole service
until the next health check takes it out, because `markDown` is never called;
`/api/events/client-created` does not name the onboarding service, so a client created there has no
progress row until its first document; an e-mail that fails after the chaser's update of the item is
never sent, since the item is no longer listed; a processing that finds nothing wrong leaves the
pending item of an earlier one in the queue; an OCR result of low confidence always lacks a field some
check needs, so the first half of `NeedsHumanReview` decides nothing; routers mounted without a path
apply their guard to everything mounted after them.

## 7. Not modelled

* Route guards: which guard a request meets is fixed by the order of mounting in `index.ts`; there is no
  state and nothing concurrent. Identity providers and the JWKS cache: verification of signatures
  against external services; `SessionTokens` starts where an assertion has been accepted.
* Access tokens (stateless) and password hashing; chat and AI; reads of the dashboard.
* `register()` of the subscription registry, `close()` of bus, queues and workers, start-up and graceful
  shutdown: an exit is a crash in `EventDelivery`.
* Reminders and pending-document alerts of the root services, which read and send e-mail only, and the
  assignee of a review item, on which nothing depends.
* The contents of documents, e-mails, chats, logs and metrics: nothing here depends on them.
* BullMQ, Redis, PostgreSQL and Prisma are external: only what the code relies on is stated.
* Time is abstract: a delayed job may be promoted at any moment, and a TTL expires only when no
  retry that fits into it is left.
* The Kafka adapter, whose methods throw, Terraform, and the placeholder services.

## 8. Plan

Done, in this order: `DeliveryContract`, `EventDelivery`, `OnboardingProgress`, `DocumentPipeline`,
`Upstream`; then `RateLimiter`, `SessionTokens`, `ClientIntake` and `DocumentReview`, each with its
proofs. The CRM and data-room model that was planned alone became part of `ClientIntake`, because its
hazards are those of the fan-out.

Then the proofs that were left: every safety property of a passing run is a theorem.

What is left, in order of worth:

1. An abstract chain (a document is received, read, reviewed, decided) that `DocumentPipeline` refines;
   `Trail` already has most of its mapping.
2. The contract that `ClientIntake`, `DocumentPipeline` and `OnboardingProgress` assume of a queue, stated
   once and shown to follow from `DeliveryContract` where keys are not shared.
3. Graceful shutdown of a worker as an alternative to its crash in `EventDelivery`.
