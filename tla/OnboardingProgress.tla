-------------------------- MODULE OnboardingProgress --------------------------
(***************************************************************************)
(* The onboarding state of one client: its OnboardingProgress row with the *)
(* completed-step rows, and the copy of status and percentage kept on the  *)
(* Client row, which is all the frontend reads.                            *)
(*                                                                         *)
(* Three queues feed it: client.created and document.uploaded of the       *)
(* onboarding-service and crm.sync.completed of the kyc-service.  Each     *)
(* event is one job; every database call its handler awaits is a step, and *)
(* the transaction of updateOnboardingProgress is two: the statements up   *)
(* to the count, then the update and the commit.                           *)
(***************************************************************************)
EXTENDS Naturals, FiniteSets, Sequences

CONSTANTS
    Events,       \* the events published for the client
    Kind,         \* "created", "document" or "kyc"
    StepOf,       \* the step of a document event (metadataStepKey)
    Earlier,      \* the sets of steps that may be recorded already
    Slots,        \* WORKER_CONCURRENCY of each queue's worker
    UpsertLocks,  \* does the upsert of the progress row lock it until commit?
    MaxAttempts,  \* attempts of a job
    MaxFaults,    \* bound on failed attempts that no state explains
    None

workflowStepOrder ==
    <<"identity", "company_documents", "financial_documents", "compliance", "review">>

StepKeys ==
    {"identity", "company_documents", "financial_documents", "compliance", "review"}

\* What the two rows hold of a client's progress.
Mirror == [status : {"pending", "in_progress", "completed"}, percent : 0..100]
Row == [status : {"in_progress", "completed"}, percent : 0..100, currentStep : StepKeys]

ASSUME OnboardingAssumption ==
    /\ Kind \in [Events -> {"created", "document", "kyc"}]
    /\ StepOf \in [Events -> StepKeys]
    /\ Earlier \subseteq SUBSET StepKeys
    /\ Slots \in Nat \ {0}
    /\ UpsertLocks \in BOOLEAN
    /\ MaxAttempts \in Nat \ {0}
    /\ MaxFaults \in Nat
    /\ None \notin Mirror \cup Row

VARIABLES
    client,    \* status and percentage of the Client row, None before it exists
    progress,  \* the OnboardingProgress row, None before it exists
    steps,     \* the steps with a committed OnboardingCompletedStep row
    at,        \* the await at which the job of each event stands
    seen,      \* the status and percentage each handler will copy to the client
    attempts,  \* failed attempts of each job
    approved,    \* has completeKyc finalised the client? (history)
    overlapped,  \* did two handlers ever run at the same time? (history)
    faults

rows == <<client, progress, steps, approved>>
vars == <<rows, overlapped, at, seen, attempts, faults>>

Points == {"queued", "ensured", "counted", "found", "committed", "mirrored", "done", "dead"}

Optional(S, x) == x = None \/ x \in S

TypeOK ==
    /\ Optional(Mirror, client)
    /\ Optional(Row, progress)
    /\ steps \in SUBSET StepKeys
    /\ at \in [Events -> Points]
    /\ seen \in [Events -> Mirror]
    /\ attempts \in [Events -> 0..MaxAttempts]
    /\ approved \in BOOLEAN
    /\ overlapped \in BOOLEAN
    /\ faults \in 0..MaxFaults

-----------------------------------------------------------------------------
(* The arithmetic of progress.                                             *)

\* Math.min(100, Math.round(n / workflowStepOrder.length * 100)).
PercentWithExtra(n) == IF n >= 4 THEN 100 ELSE 20 * n
Percent(n) ==
    LET rounded == (200 * n + 5) \div 10
    IN  IF rounded < 100 THEN rounded ELSE 100

StatusOf(percent) == IF percent >= 100 THEN "completed" ELSE "in_progress"

\* progressToCurrentStep, as an index into workflowStepOrder.
CurrentIndex(percent, status) ==
    IF status = "completed" THEN 5
    ELSE 1 + Cardinality({t \in {20, 40, 60, 80} : percent >= t})

RowOf(percent) ==
    [status |-> StatusOf(percent), percent |-> percent,
     currentStep |-> workflowStepOrder[CurrentIndex(percent, StatusOf(percent))]]

\* The steps getOnboardingProgress shows as completed, from the Client row.
ShownCompleted ==
    {i \in 1..5 : i < CurrentIndex(client.percent, client.status)
                  \/ client.status = "completed"}

-----------------------------------------------------------------------------
Pending == [status |-> "pending", percent |-> 0]
MirrorOf(row) == [status |-> row.status, percent |-> row.percent]

\* A client with some steps behind it, or none: then the dashboard has created
\* the Client row, or the generic event route publishes for an unknown client.
Init ==
    /\ steps \in Earlier \cup {{}}
    /\ progress = IF steps = {} THEN None ELSE RowOf(Percent(Cardinality(steps)))
    /\ client \in IF steps = {} THEN {None, Pending} ELSE {MirrorOf(progress)}
    /\ at = [e \in Events |-> "queued"]
    /\ seen = [e \in Events |-> Pending]
    /\ attempts = [e \in Events |-> 0]
    /\ approved = FALSE
    /\ overlapped = FALSE
    /\ faults = 0

-----------------------------------------------------------------------------
(* The steps every handler takes.                                          *)

Go(e, point) == at' = [at EXCEPT ![e] = point]
Running(e) == at[e] \notin {"queued", "done", "dead"}
HasSlot(e) == Cardinality({d \in Events : Kind[d] = Kind[e] /\ Running(d)}) < Slots

NewRow == [status |-> "in_progress", percent |-> 0, currentStep |-> "identity"]

\* BullMQ hands the job to a free slot.
Fetch(e) ==
    /\ at[e] = "queued" /\ HasSlot(e)
    /\ overlapped' = (overlapped \/ \E d \in Events : Running(d))

\* The job is fetched; the client upsert is the handler's first call.
EnsureClient(e) ==
    /\ Kind[e] \in {"created", "document"}
    /\ Fetch(e)
    /\ client' = IF client = None THEN Pending ELSE client
    /\ Go(e, "ensured")
    /\ UNCHANGED <<progress, steps, approved, seen, attempts, faults>>

\* updateClientOnboardingState: nothing is written for an unknown client.
MirrorOnlyCompletion(e) ==
    /\ at[e] = "committed"
    /\ client' = IF client = None \/ seen[e].percent < 100 THEN client ELSE seen[e]
    /\ Go(e, "mirrored")
    /\ UNCHANGED <<progress, steps, approved, overlapped, seen, attempts, faults>>

updateClientOnboardingState(e) ==
    /\ at[e] = "committed"
    /\ client' = IF client = None THEN None ELSE seen[e]
    /\ Go(e, "mirrored")
    /\ UNCHANGED <<progress, steps, approved, overlapped, seen, attempts, faults>>

\* The handler's local state goes when it returns.
Forget(e) == seen' = [seen EXCEPT ![e] = Pending]

\* An attempt fails: another one, or the dead-letter queue.
RetryForever(e) ==
    /\ attempts' = [attempts EXCEPT ![e] = @ + 1]
    /\ Go(e, "queued")
    /\ Forget(e)
    /\ UNCHANGED <<rows, overlapped>>

Failed(e) ==
    /\ attempts' = [attempts EXCEPT ![e] = @ + 1]
    /\ Go(e, IF attempts[e] + 1 < MaxAttempts THEN "queued" ELSE "dead")
    /\ Forget(e)
    /\ UNCHANGED <<rows, overlapped>>

\* The audit row refers to the client, so it cannot be written without one.
writeAuditLog(e) ==
    /\ at[e] = "mirrored"
    /\ \/ client # None /\ Go(e, "done") /\ Forget(e) /\ UNCHANGED <<rows, overlapped, attempts>>
       \/ client = None /\ Failed(e)
    /\ UNCHANGED faults

\* A database error; an open transaction is rolled back.
Fails(e) ==
    /\ Running(e) /\ faults < MaxFaults
    /\ faults' = faults + 1
    /\ Failed(e)

-----------------------------------------------------------------------------
(* initializeOnboardingState.                                              *)

OpenTransactions == {d \in Events : at[d] = "counted"}

\* The upsert: an insert waits for a transaction that inserts the same row.
UpsertProgress(e) ==
    /\ Kind[e] = "created" /\ at[e] = "ensured"
    /\ progress = None => OpenTransactions = {}
    /\ LET row == IF progress = None THEN NewRow ELSE progress
       IN  /\ progress' = row
           /\ seen' = [seen EXCEPT ![e] = MirrorOf(row)]
    /\ Go(e, "committed")
    /\ UNCHANGED <<client, steps, approved, overlapped, attempts, faults>>

-----------------------------------------------------------------------------
(* updateOnboardingProgress.                                               *)

\* Up to the count, which sees committed rows and the transaction's own.
CountBeforeInsert(e) ==
    /\ Kind[e] = "document" /\ at[e] = "ensured"
    /\ OpenTransactions = {}
    /\ LET percent == Percent(Cardinality(steps))
       IN  seen' = [seen EXCEPT ![e] = [status |-> StatusOf(percent), percent |-> percent]]
    /\ Go(e, "counted")
    /\ UNCHANGED <<rows, overlapped, attempts, faults>>

CountSteps(e) ==
    /\ Kind[e] = "document" /\ at[e] = "ensured"
    /\ UpsertLocks \/ progress = None => OpenTransactions = {}
    /\ \A d \in OpenTransactions : StepOf[d] # StepOf[e]
    /\ LET percent == Percent(Cardinality(steps \cup {StepOf[e]}))
       IN  seen' = [seen EXCEPT ![e] = [status |-> StatusOf(percent), percent |-> percent]]
    /\ Go(e, "counted")
    /\ UNCHANGED <<rows, overlapped, attempts, faults>>

CommitWithoutStep(e) ==
    /\ at[e] = "counted"
    /\ progress' = [status |-> seen[e].status, percent |-> seen[e].percent,
                    currentStep |->
                        workflowStepOrder[CurrentIndex(seen[e].percent, seen[e].status)]]
    /\ Go(e, "committed")
    /\ UNCHANGED <<client, steps, approved, overlapped, seen, attempts, faults>>

Commit(e) ==
    /\ at[e] = "counted"
    /\ progress' = [status |-> seen[e].status, percent |-> seen[e].percent,
                    currentStep |->
                        workflowStepOrder[CurrentIndex(seen[e].percent, seen[e].status)]]
    /\ steps' = steps \cup {StepOf[e]}
    /\ Go(e, "committed")
    /\ UNCHANGED <<client, approved, overlapped, seen, attempts, faults>>

-----------------------------------------------------------------------------
(* completeKyc, which the kyc-service always calls with "approved".        *)

FindProgress(e) ==
    /\ Kind[e] = "kyc" /\ Fetch(e)
    /\ Go(e, IF progress = None THEN "mirrored" ELSE "found")
    /\ UNCHANGED <<rows, seen, attempts, faults>>

\* Waits for a transaction that has locked the row.
ApproveProgress(e) ==
    /\ at[e] = "found"
    /\ UpsertLocks => OpenTransactions = {}
    /\ progress' = [status |-> "completed", percent |-> 100,
                    currentStep |-> progress.currentStep]
    /\ seen' = [seen EXCEPT ![e] = [status |-> "completed", percent |-> 100]]
    /\ approved' = TRUE
    /\ Go(e, "committed")
    /\ UNCHANGED <<client, steps, overlapped, attempts, faults>>

-----------------------------------------------------------------------------
Handle(e) ==
    \/ EnsureClient(e) \/ UpsertProgress(e)
    \/ CountSteps(e) \/ Commit(e)
    \/ FindProgress(e) \/ ApproveProgress(e)
    \/ updateClientOnboardingState(e) \/ writeAuditLog(e)

Next == \E e \in Events : Handle(e) \/ Fails(e)

Spec == Init /\ [][Next]_vars

\* BullMQ hands out the jobs and the event loop runs the handlers.
FairSpec == Spec /\ \A e \in Events : WF_vars(Handle(e))

-----------------------------------------------------------------------------
(* Properties.                                                             *)

\* Nobody is shown or recorded as completed who neither sent a document for
\* every step nor was approved by KYC, however the handlers interleave
\* (updateOnboardingProgress, completeKyc).
CompletedIsEarned ==
    \A row \in {client, progress} :
        row # None /\ row.status = "completed" => steps = StepKeys \/ approved

\* Until KYC, the recorded percentage is that of the recorded steps: the
\* count of the transaction misses no step and counts none twice, provided the
\* upsert locks the row or no two handlers overlap.
ProgressCountsSteps ==
    progress # None /\ ~approved /\ (UpsertLocks \/ ~overlapped) => progress.percent = Percent(Cardinality(steps))

AllDone == \A e \in Events : at[e] = "done"

\* Once every handler is done, whatever failed and was retried, what is read of
\* a client agrees with what is recorded, if no handlers overlapped: the Client
\* row with the progress row, and the steps the frontend shows as completed with
\* the step rows (onboardingState.service.ts:130-135, frontendMockData.service.ts:188-216).
ClientAgreesAtRest == progress # None => client = MirrorOf(progress)
ShownCountsSteps == ~approved => Cardinality(ShownCompleted) = Cardinality(steps)
ReadersAgree == AllDone /\ ~overlapped => ClientAgreesAtRest /\ ShownCountsSteps

\* Every document event is eventually recorded as a step or dead-lettered, in
\* whatever order the queues deliver it (updateOnboardingProgress creates the
\* client and the progress row itself).
EveryDocumentCounts ==
    \A e \in Events : Kind[e] = "document" /\ at[e] = "queued" ~>
                          StepOf[e] \in steps \/ at[e] = "dead"

\* KYC completion finalises onboarding: a completed client stays completed.
FinalizedStaysFinal ==
    [][progress # None /\ progress.status = "completed" => progress'.status = "completed"]_vars
=============================================================================
