--------------------------- MODULE DocumentPipeline ---------------------------
(***************************************************************************)
(* The chain of consumers a document's events travel through:              *)
(*   ocr -> validation -> review -> face verification -> CRM sync -> KYC   *)
(* and the gateway routes that enter it half way.  Each consumer publishes *)
(* the event of the next; what matters is which idempotency key and which  *)
(* client id it passes on.                                                 *)
(*                                                                         *)
(* Delivery is that of EventDelivery without its races: an event is        *)
(* skipped if its key was processed, its handler runs alone, and a failed  *)
(* attempt is repeated up to MaxAttempts times.  An attempt may fail       *)
(* before the handler has done anything or after it has published.         *)
(* Each client has one document, so a document also names its client.  The *)
(* routes accept any documentId with any clientId: "document d" is to be   *)
(* read as "the document submitted under the id of client d".  The keys do *)
(* not expire here; in Redis they do after seven days.                     *)
(***************************************************************************)
EXTENDS Naturals, FiniteSets, Sequences

CONSTANTS
    Docs,         \* documents, and the clients they belong to
    MaxAttempts,  \* attempts of a job
    MaxRequests,  \* bound on the requests the routes serve
    MaxFaults,    \* bound on failed attempts that no state explains
    None          \* no clientId in the metadata

\* A document without issue, or with one that costs few points.  Documents with
\* more issues fare as the marginal one: no document with an issue is valid.
Qualities == {"clean", "marginal"}

ASSUME PipelineAssumption ==
    /\ MaxAttempts \in Nat \ {0}
    /\ MaxRequests \in Nat
    /\ MaxFaults \in Nat
    /\ None \notin Docs

VARIABLES
    jobs,       \* every job queued so far
    processed,  \* the consumers' processed idempotency keys
    uploaded,   \* documents the upload routes accepted
    reviews,    \* review decisions published (history)
    kycRuns,    \* how often completeKyc approved each client (history)
    overrides,  \* requests that skip the automatic review, per client (history)
    late,       \* attempts that failed after publishing, by event and document (history)
    requests,   \* requests served so far
    faults

vars == <<jobs, processed, uploaded, reviews, kycRuns, overrides, late, requests, faults>>

Events == {"document.uploaded", "document.ocr.completed", "document.validation.completed",
           "review.approved", "face.verification.completed", "crm.sync.completed"}
Decisions == {"approved", "assigned", "rejected"}

TypeOK ==
    /\ \A j \in jobs :
        /\ j.id \in Seq(Nat)
        /\ j.event \in Events /\ j.doc \in Docs /\ j.client \in Docs \cup {None}
        /\ j.quality \in Qualities
        /\ j.at \in {"queued", "published", "done", "dead"}
        /\ j.attempts \in 0..MaxAttempts
    /\ \A r \in reviews : r.doc \in Docs /\ r.quality \in Qualities /\ r.decision \in Decisions
    /\ uploaded \subseteq Docs
    /\ kycRuns \in [Docs -> Nat] /\ overrides \in [Docs -> Nat]
    /\ late \in [Events \X Docs -> 0..faults]
    /\ requests \in 0..MaxRequests /\ faults \in 0..MaxFaults

Init ==
    /\ jobs = {} /\ processed = {} /\ uploaded = {} /\ reviews = {}
    /\ kycRuns = [d \in Docs |-> 0] /\ overrides = [d \in Docs |-> 0]
    /\ late = [ed \in Events \X Docs |-> 0] /\ requests = 0 /\ faults = 0

-----------------------------------------------------------------------------
(* Messages.                                                               *)

\* A publish makes a new id: a route numbers its requests, and a consumer adds
\* its attempt to the id of the event it handles.
FromRoute == <<requests + 1>>
From(j) == Append(j.id, j.attempts)

Message(id, event, key, doc, client, quality) ==
    [id |-> id, event |-> event, key |-> key, doc |-> doc, client |-> client,
     quality |-> quality, at |-> "queued", attempts |-> 0]

\* validateDocument: a confidence just below 0.75 alone costs 10 points.
Score(quality) == IF quality = "clean" THEN 100 ELSE 90
Valid(quality) == Score(quality) >= 80 /\ quality = "clean"

\* evaluateReview.
DecisionByScore(score, valid) ==
    IF score >= 80 THEN "approved" ELSE "rejected"
Decision(score, valid) ==
    IF ~valid \/ score < 80 THEN "rejected"
    ELSE IF score >= 95 THEN "approved"
    ELSE "assigned"

\* The scoped key: the consumer that handles the event and the envelope's key.
Scope(j) == <<j.event, j.key>>

\* process() lets the handler of job j start.
Starts(j, event) ==
    /\ j.event = event /\ j.at = "queued"
    /\ Scope(j) \notin processed
    /\ \A k \in jobs : k.at = "published" => Scope(k) # Scope(j)

\* The jobs once j has reached another point.
Becomes(j, at, attempts) ==
    (jobs \ {j}) \cup
        {[id |-> j.id, event |-> j.event, key |-> j.key, doc |-> j.doc, client |-> j.client,
          quality |-> j.quality, at |-> at, attempts |-> attempts]}

-----------------------------------------------------------------------------
(* The routes.                                                             *)

Serve == requests < MaxRequests /\ requests' = requests + 1

Send(event, key, doc, client, quality) ==
    jobs' = jobs \cup {Message(FromRoute, event, key, doc, client, quality)}

UploadTargets == {"crm-service", "onboarding-service"}

\* Both upload routes name their targets; what those two consumers do is the
\* subject of OnboardingProgress.
Upload(d) ==
    /\ Serve
    /\ d \notin uploaded
    /\ uploaded' = uploaded \cup {d}
    /\ IF "ocr-service" \in UploadTargets
       THEN Send("document.uploaded", <<"document-uploaded", d>>, d, d, "clean")
       ELSE UNCHANGED jobs
    /\ UNCHANGED <<processed, reviews, kycRuns, overrides, late, faults>>

\* POST /api/ocr/extract; the clientId of the body is optional.
Extract(d, c, q) ==
    /\ Serve
    /\ Send("document.ocr.completed", <<"ocr-extract", d>>, d, c, q)
    /\ UNCHANGED <<processed, uploaded, reviews, kycRuns, overrides, late, faults>>

\* POST /api/validation/document.
Validate(d, c, q) ==
    /\ Serve
    /\ Send("document.validation.completed", <<"validation", d>>, d, c, q)
    /\ UNCHANGED <<processed, uploaded, reviews, kycRuns, overrides, late, faults>>

\* The route takes any id of eight characters: an id that no review has and no
\* caller has used.  One used before fares as that of a review approved twice.
UnknownReview(d) ==
    [id |-> FromRoute, doc |-> d, quality |-> "marginal", decision |-> "assigned"]

\* POST /api/review/approve; nothing is looked up, and the metadata holds a
\* clientId only if the caller put it there.
Approve(r, c) ==
    /\ Serve
    /\ Send("review.approved", <<"review-approve", r.id>>, r.doc, c, r.quality)
    /\ overrides' = [overrides EXCEPT ![r.doc] = @ + 1]
    /\ UNCHANGED <<processed, uploaded, reviews, kycRuns, late, faults>>

\* POST /api/crm/sync.
SyncCrm(d) ==
    /\ Serve
    /\ Send("crm.sync.completed", <<"crm-sync-completed-api", d>>, d, d, "marginal")
    /\ overrides' = [overrides EXCEPT ![d] = @ + 1]
    /\ UNCHANGED <<processed, uploaded, reviews, kycRuns, late, faults>>

-----------------------------------------------------------------------------
(* The consumers.  Every handler starts, makes its calls and publishes the *)
(* next event; j is then "published" until it is marked or fails late.     *)

Publishes(j, new) == jobs' = Becomes(j, "published", j.attempts) \cup new

\* The next event after j: the document and the client id travel on.
Forward(j, event, key) == {Message(From(j), event, key, j.doc, j.client, j.quality)}

OcrConsumer(j, q) ==
    /\ Starts(j, "document.uploaded")
    /\ Publishes(j, {Message(From(j), "document.ocr.completed", <<"ocr", j.doc>>,
                             j.doc, j.client, q)})
    /\ UNCHANGED <<processed, uploaded, reviews, kycRuns, overrides, late, requests, faults>>

ValidationKeyedByEvent(j) ==
    /\ Starts(j, "document.ocr.completed")
    /\ Publishes(j, Forward(j, "document.validation.completed", <<"validation", j.id>>))
    /\ UNCHANGED <<processed, uploaded, reviews, kycRuns, overrides, late, requests, faults>>

ValidationConsumer(j) ==
    /\ Starts(j, "document.ocr.completed")
    /\ Publishes(j, Forward(j, "document.validation.completed", <<"validation", j.doc>>))
    /\ UNCHANGED <<processed, uploaded, reviews, kycRuns, overrides, late, requests, faults>>

\* review.assigned and review.rejected have no consumer.  The id of a review is
\* random: each run of the handler makes a new one.
ReviewConsumer(j) ==
    LET decision == Decision(Score(j.quality), Valid(j.quality))
    IN  /\ Starts(j, "document.validation.completed")
        /\ reviews' = reviews \cup {[id |-> From(j), doc |-> j.doc, quality |-> j.quality,
                                     decision |-> decision]}
        /\ Publishes(j, IF decision = "approved"
                        THEN Forward(j, "review.approved", <<"review-approved", From(j)>>)
                        ELSE {})
        /\ UNCHANGED <<processed, uploaded, kycRuns, overrides, late, requests, faults>>

FaceWithoutClient(j) ==
    /\ Starts(j, "review.approved")
    /\ Publishes(j, Forward([j EXCEPT !.client = None], "face.verification.completed",
                            <<"face", From(j)>>))
    /\ UNCHANGED <<processed, uploaded, reviews, kycRuns, overrides, late, requests, faults>>

\* The verification id is random as well; whether the face matched travels
\* along but decides nothing.
FaceConsumer(j) ==
    /\ Starts(j, "review.approved")
    /\ Publishes(j, Forward(j, "face.verification.completed", <<"face", From(j)>>))
    /\ UNCHANGED <<processed, uploaded, reviews, kycRuns, overrides, late, requests, faults>>

CrmSyncKeyedByRun(j) ==
    /\ Starts(j, "face.verification.completed")
    /\ j.client # None
    /\ Publishes(j, Forward(j, "crm.sync.completed",
                            <<"crm-sync-completed", j.client, From(j)>>))
    /\ UNCHANGED <<processed, uploaded, reviews, kycRuns, overrides, late, requests, faults>>

\* Without a clientId: see UnknownCustomer.
CrmSyncConsumer(j) ==
    /\ Starts(j, "face.verification.completed")
    /\ j.client # None
    /\ Publishes(j, Forward(j, "crm.sync.completed", <<"crm-sync-completed", j.client, j.id>>))
    /\ UNCHANGED <<processed, uploaded, reviews, kycRuns, overrides, late, requests, faults>>

KycConsumer(j) ==
    /\ Starts(j, "crm.sync.completed")
    /\ kycRuns' = [kycRuns EXCEPT ![j.client] = @ + 1]
    /\ Publishes(j, {})
    /\ UNCHANGED <<processed, uploaded, reviews, overrides, late, requests, faults>>

-----------------------------------------------------------------------------
(* The subscriber around them.                                             *)

SkipDuplicate(j) ==
    /\ j.at = "queued" /\ Scope(j) \in processed
    /\ jobs' = Becomes(j, "done", j.attempts)
    /\ UNCHANGED <<processed, uploaded, reviews, kycRuns, overrides, late, requests, faults>>

MarkProcessed(j) ==
    /\ j.at = "published"
    /\ processed' = processed \cup {Scope(j)}
    /\ jobs' = Becomes(j, "done", j.attempts)
    /\ UNCHANGED <<uploaded, reviews, kycRuns, overrides, late, requests, faults>>

FailsForever(j) ==
    jobs' = Becomes(j, "queued", j.attempts + 1)

AttemptFails(j) ==
    LET made == j.attempts + 1
    IN  jobs' = Becomes(j, IF made < MaxAttempts THEN "queued" ELSE "dead", made)

\* The verification id stands for the missing clientId, and the audit row of
\* the sync, which refers to it, is refused.
UnknownCustomer(j) ==
    /\ Starts(j, "face.verification.completed")
    /\ j.client = None
    /\ AttemptFails(j)
    /\ UNCHANGED <<processed, uploaded, reviews, kycRuns, overrides, late, requests, faults>>

Fault == faults < MaxFaults /\ faults' = faults + 1

FailsBefore(j) ==
    /\ Fault
    /\ Starts(j, j.event)
    /\ AttemptFails(j)
    /\ UNCHANGED <<processed, uploaded, reviews, kycRuns, overrides, late, requests>>

\* A call of the handler after the publish fails, or markProcessed does.
FailsAfter(j) ==
    /\ Fault
    /\ j.at = "published"
    /\ AttemptFails(j)
    /\ late' = [late EXCEPT ![<<j.event, j.doc>>] = @ + 1]
    /\ UNCHANGED <<processed, uploaded, reviews, kycRuns, overrides, requests>>

-----------------------------------------------------------------------------
Deliver(j) ==
    \/ ValidationConsumer(j) \/ ReviewConsumer(j) \/ FaceConsumer(j)
    \/ CrmSyncConsumer(j) \/ UnknownCustomer(j) \/ KycConsumer(j)
    \/ SkipDuplicate(j) \/ MarkProcessed(j)

Routes ==
    \/ \E d \in Docs : SyncCrm(d)
    \/ \E d \in Docs, q \in Qualities : \E c \in {d, None} : Extract(d, c, q) \/ Validate(d, c, q)
    \/ \E r \in reviews \cup {UnknownReview(d) : d \in Docs} : \E c \in {r.doc, None} : Approve(r, c)

Next == Routes \/ \E j \in jobs : Deliver(j) \/ FailsBefore(j) \/ FailsAfter(j)

Spec == Init /\ [][Next]_vars

\* BullMQ delivers the jobs and the consumers run; no one has to call a route.
FairSpec == Spec /\ WF_vars(\E j \in jobs : Deliver(j))

\* The same with uploads, and with the OCR consumer waiting for them.
OcrSteps == \E j \in jobs, q \in Qualities : OcrConsumer(j, q)
UploadSpec ==
    /\ Init /\ [][Next \/ OcrSteps \/ \E d \in Docs : Upload(d)]_vars
    /\ WF_vars(OcrSteps \/ \E j \in jobs : Deliver(j))

-----------------------------------------------------------------------------
(* Properties.                                                             *)

\* KYC approves only clients whose document passed validation without issue,
\* unless an operator approved the review or synced the CRM by hand: no other
\* route leads through the five consumers.
KycIsJustified ==
    \A d \in Docs :
        kycRuns[d] > 0 => \/ overrides[d] > 0
                          \/ \E r \in reviews : r.doc = d /\ r.quality = "clean"

\* However often a document enters the chain, it is reviewed once, and once
\* more for each review attempt that failed late: the keys "ocr-extract-<id>"
\* and "validation-<id>" of routes and consumers stop everything else.
ReviewedOnce ==
    \A d \in Docs :
        Cardinality({r \in reviews : r.doc = d}) <= 1 + late[<<"document.validation.completed", d>>]

\* A client is approved once per approving review or manual request, and once
\* more for each late failure of the face or KYC consumer, whose random ids
\* make new keys.  A repeated CRM sync adds nothing: its key holds the event id.
KycRunsAreBounded ==
    \A d \in Docs :
        kycRuns[d] <= Cardinality({r \in reviews : r.doc = d /\ r.decision = "approved"})
                      + overrides[d]
                      + late[<<"review.approved", d>>] + late[<<"crm.sync.completed", d>>]

CleanExtraction(d) ==
    \E j \in jobs : /\ j.event = "document.ocr.completed"
                    /\ j.doc = d /\ j.client = d /\ j.quality = "clean"

\* Another request for the document was validated first and took its key
\* "validation-<id>".
OtherValidation(d) ==
    \E j \in jobs : /\ j.event = "document.validation.completed" /\ j.doc = d
                    /\ j.quality # "clean" \/ j.client = None

\* A clean document with a clientId that enters by OCR extraction ends with
\* its client's KYC approval, whatever attempts fail on the way, unless another
\* request for the same document was validated in its place.
CleanDocumentReachesKyc ==
    \A d \in Docs : CleanExtraction(d) ~> kycRuns[d] > 0 \/ OtherValidation(d)

\* An uploaded document is put through OCR (the workflow diagram of README.md).
UploadReachesOcr ==
    \A d \in Docs : d \in uploaded ~>
        \E j \in jobs : j.doc = d /\ j.event = "document.ocr.completed"
===============================================================================
