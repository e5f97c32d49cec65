---------------------------- MODULE PipelineProofs ----------------------------
(***************************************************************************)
(* Proofs about DocumentPipeline for any set of documents and any number   *)
(* of requests, attempts and failures.                                     *)
(***************************************************************************)
EXTENDS DocumentPipeline, FiniteSetTheorems, TLAPS

Open(at) == at \in {"queued", "published"}

\* What holds of every job by itself: its types, attempts left while it is
\* open, the client ids the consumers pass on, and the key of a validation.
JobOK(j) ==
    /\ j.id \in Seq(Nat)
    /\ j.event \in Events /\ j.doc \in Docs /\ j.client \in Docs \cup {None}
    /\ j.quality \in Qualities
    /\ j.at \in {"queued", "published", "done", "dead"}
    /\ j.attempts \in 0..MaxAttempts
    /\ Open(j.at) => j.attempts < MaxAttempts
    /\ j.client \in {j.doc, None}
    /\ j.event = "crm.sync.completed" => j.client = j.doc
    /\ j.event = "document.validation.completed" => j.key = <<"validation", j.doc>>

Jobs == \A j \in jobs : JobOK(j)

\* The rest of the type invariant.
Records ==
    /\ \A r \in reviews : r.doc \in Docs /\ r.quality \in Qualities /\ r.decision \in Decisions
    /\ uploaded \subseteq Docs
    /\ kycRuns \in [Docs -> Nat] /\ overrides \in [Docs -> Nat]
    /\ late \in [Events \X Docs -> 0..faults]
    /\ requests \in 0..MaxRequests /\ faults \in 0..MaxFaults

PastReview == {"review.approved", "face.verification.completed", "crm.sync.completed"}

Justified(d) ==
    \/ overrides[d] > 0
    \/ \E r \in reviews : r.doc = d /\ r.quality = "clean"

\* Every event behind the review is justified, not only the approval at the end.
Gate == \A j \in jobs : j.event \in PastReview => Justified(j.doc)

IInv == Jobs /\ Records /\ Gate /\ KycIsJustified

-----------------------------------------------------------------------------
(* Jobs.                                                                   *)

LEMMA IInvTypes == IInv => TypeOK
  BY DEF IInv, Jobs, JobOK, Records, TypeOK

LEMMA Moved ==
    ASSUME NEW j \in jobs, JobOK(j), NEW at \in {"queued", "published", "done", "dead"},
           NEW n \in 0..MaxAttempts, Open(at) => n < MaxAttempts,
           NEW k \in Becomes(j, at, n), k \notin jobs
    PROVE  JobOK(k) /\ k.event = j.event /\ k.doc = j.doc
  BY DEF Becomes, JobOK, Open

LEMMA FromIds ==
    /\ requests \in Nat => FromRoute \in Seq(Nat)
    /\ \A j \in jobs : JobOK(j) => From(j) \in Seq(Nat)
  BY PipelineAssumption DEF FromRoute, From, JobOK

-----------------------------------------------------------------------------
(* A step that moves one job.                                              *)

\* What remains true of a document whatever happens: overrides and reviews
\* are never taken back.
Growing ==
    /\ \A d \in Docs : overrides[d] \in Nat /\ overrides'[d] \in Nat /\ overrides'[d] >= overrides[d]
    /\ reviews \subseteq reviews'

LEMMA JustifiedStays ==
    ASSUME Growing, NEW d \in Docs, Justified(d)
    PROVE  Justified(d)'
  BY DEF Growing, Justified

\* It keeps the jobs in order if what it adds is in order and justified.
LEMMA JobsStep ==
    ASSUME Jobs, Gate, Growing,
           NEW j \in jobs, NEW at \in {"queued", "published", "done", "dead"},
           NEW n \in 0..MaxAttempts, Open(at) => n < MaxAttempts,
           NEW new,
           \A k \in new : JobOK(k) /\ (k.event \in PastReview => Justified(k.doc)'),
           jobs' = Becomes(j, at, n) \cup new
    PROVE  Jobs' /\ Gate'
<1>1. SUFFICES ASSUME NEW k \in jobs'
               PROVE  JobOK(k) /\ (k.event \in PastReview => Justified(k.doc)')
  BY DEF Jobs, Gate
<1>2. CASE k \in jobs
  BY <1>2, JustifiedStays DEF Jobs, Gate, JobOK
<1>3. CASE k \in new
  BY <1>3
<1>4. CASE k \notin jobs /\ k \in Becomes(j, at, n)
  <2>1. JobOK(j)  BY DEF Jobs
  <2>2. JobOK(k) /\ k.event = j.event /\ k.doc = j.doc
    BY <1>4, <2>1, Moved
  <2>3. j.event \in PastReview => Justified(j.doc)  BY DEF Gate
  <2> QED  BY <2>1, <2>2, <2>3, JustifiedStays DEF JobOK
<1> QED  BY <1>2, <1>3, <1>4

LEMMA SendStep ==
    ASSUME Jobs, Gate, Growing, NEW k, JobOK(k),
           k.event \in PastReview => Justified(k.doc)',
           jobs' = jobs \cup {k}
    PROVE  Jobs' /\ Gate'
<1>1. SUFFICES ASSUME NEW i \in jobs'
               PROVE  JobOK(i) /\ (i.event \in PastReview => Justified(i.doc)')
  BY DEF Jobs, Gate
<1> QED  BY <1>1, JustifiedStays DEF Jobs, Gate, JobOK

LEMMA StillJustified ==
    ASSUME Growing, KycIsJustified, kycRuns' = kycRuns
    PROVE  KycIsJustified'
<1>1. SUFFICES ASSUME NEW d \in Docs, kycRuns[d] > 0
               PROVE  Justified(d)'
  BY DEF KycIsJustified, Justified
<1>2. Justified(d)  BY <1>1 DEF KycIsJustified, Justified
<1> QED  BY <1>2, JustifiedStays

LEMMA NothingTaken ==
    ASSUME Records, UNCHANGED <<reviews, overrides>>
    PROVE  Growing
  BY DEF Records, Growing

-----------------------------------------------------------------------------
(* The routes.                                                             *)

\* What a route may send without further justification.
Entry(event, doc) == event \in PastReview => Justified(doc)'

LEMMA RouteStep ==
    ASSUME IInv, Growing, Records', kycRuns' = kycRuns,
           NEW event \in Events, NEW key, NEW doc \in Docs, NEW client \in {doc, None},
           NEW quality \in Qualities, Entry(event, doc),
           event = "crm.sync.completed" => client = doc,
           event = "document.validation.completed" => key = <<"validation", doc>>,
           Send(event, key, doc, client, quality)
    PROVE  IInv'
<1>1. FromRoute \in Seq(Nat)
  BY FromIds, PipelineAssumption DEF IInv, Records
<1>2. PICK id \in Seq(Nat) : id = FromRoute
  BY <1>1
<1>3. PICK k : k = Message(id, event, key, doc, client, quality)
  OBVIOUS
<1>4. JobOK(k) /\ k.event = event /\ k.doc = doc
  <2>1. /\ k.id = id /\ k.event = event /\ k.key = key /\ k.doc = doc /\ k.client = client
        /\ k.quality = quality /\ k.at = "queued" /\ k.attempts = 0
    BY <1>3 DEF Message
  <2>2. 0 \in 0..MaxAttempts /\ 0 < MaxAttempts
    BY PipelineAssumption
  <2> QED  BY <2>1, <2>2 DEF JobOK, Open
<1>5. jobs' = jobs \cup {k}
  BY <1>2, <1>3 DEF Send, Message
<1>6. Jobs' /\ Gate'
  BY <1>4, <1>5, SendStep DEF IInv, Entry
<1> QED  BY <1>6, StillJustified DEF IInv

LEMMA Served ==
    ASSUME Records, Serve, UNCHANGED <<reviews, uploaded, kycRuns, late, faults>>,
           overrides' \in [Docs -> Nat]
    PROVE  Records'
<1>1. requests' \in 0..MaxRequests
  BY PipelineAssumption DEF Records, Serve
<1> QED  BY <1>1 DEF Records

\* A request that skips the review is counted.
LEMMA Counted ==
    ASSUME Records, NEW d \in Docs, overrides' = [overrides EXCEPT ![d] = @ + 1],
           reviews' = reviews
    PROVE  overrides' \in [Docs -> Nat] /\ Growing /\ Justified(d)'
<1>1. overrides \in [Docs -> Nat]  BY DEF Records
<1>2. overrides' \in [Docs -> Nat] /\ overrides'[d] > 0  BY <1>1
<1>3. Growing  BY <1>1 DEF Growing
<1> QED  BY <1>2, <1>3 DEF Justified

LEMMA RoutesStep ==
    ASSUME IInv, Routes PROVE IInv'
<1>0. Records  BY DEF IInv
<1>1. ASSUME NEW d \in Docs, SyncCrm(d) PROVE IInv'
  <2>1. Records' /\ Growing /\ Justified(d)'
    BY <1>0, <1>1, Served, Counted DEF SyncCrm
  <2>2. kycRuns' = kycRuns
    BY <1>1 DEF SyncCrm
  <2>3. Send("crm.sync.completed", <<"crm-sync-completed-api", d>>, d, d, "marginal")
    BY <1>1 DEF SyncCrm
  <2>4. "crm.sync.completed" \in Events /\ "marginal" \in Qualities
    BY DEF Events, Qualities
  <2>5. Entry("crm.sync.completed", d)
    BY <2>1 DEF Entry
  <2> QED  BY <2>1, <2>2, <2>3, <2>4, <2>5, RouteStep
<1>2. ASSUME NEW d \in Docs, NEW q \in Qualities, NEW c \in {d, None}, Extract(d, c, q)
      PROVE  IInv'
  <2>1. Records' /\ Growing
    BY <1>0, <1>2, Served, NothingTaken DEF Extract, Records
  <2>2. kycRuns' = kycRuns
    BY <1>2 DEF Extract
  <2>3. Send("document.ocr.completed", <<"ocr-extract", d>>, d, c, q)
    BY <1>2 DEF Extract
  <2>4. "document.ocr.completed" \in Events
    BY DEF Events
  <2>5. Entry("document.ocr.completed", d)
    BY DEF Entry, PastReview
  <2> QED  BY <2>1, <2>2, <2>3, <2>4, <2>5, RouteStep
<1>3. ASSUME NEW d \in Docs, NEW q \in Qualities, NEW c \in {d, None}, Validate(d, c, q)
      PROVE  IInv'
  <2>1. Records' /\ Growing
    BY <1>0, <1>3, Served, NothingTaken DEF Validate, Records
  <2>2. kycRuns' = kycRuns
    BY <1>3 DEF Validate
  <2>3. Send("document.validation.completed", <<"validation", d>>, d, c, q)
    BY <1>3 DEF Validate
  <2>4. "document.validation.completed" \in Events
    BY DEF Events
  <2>5. Entry("document.validation.completed", d)
    BY DEF Entry, PastReview
  <2> QED  BY <2>1, <2>2, <2>3, <2>4, <2>5, RouteStep
<1>4. ASSUME NEW r \in reviews \cup {UnknownReview(d) : d \in Docs}, NEW c \in {r.doc, None}, Approve(r, c)
      PROVE  IInv'
  <2>1. PICK d \in Docs, q \in Qualities : d = r.doc /\ q = r.quality
    BY <1>0 DEF Records, UnknownReview, Qualities
  <2>2. Records' /\ Growing /\ Justified(d)'
    BY <1>0, <1>4, <2>1, Served, Counted DEF Approve
  <2>3. kycRuns' = kycRuns
    BY <1>4 DEF Approve
  <2>4. Send("review.approved", <<"review-approve", r.id>>, d, c, q)
    BY <1>4, <2>1 DEF Approve
  <2>5. "review.approved" \in Events
    BY DEF Events
  <2>6. Entry("review.approved", d)
    BY <2>2 DEF Entry
  <2> QED  BY <2>1, <2>2, <2>3, <2>4, <2>5, <2>6, RouteStep
<1> QED  BY <1>1, <1>2, <1>3, <1>4 DEF Routes

-----------------------------------------------------------------------------
(* The consumers.                                                          *)

LEMMA ForwardStep ==
    ASSUME IInv, Growing, Records', KycIsJustified',
           NEW j \in jobs, j.at = "queued", NEW event \in Events, NEW key,
           event = "crm.sync.completed" => j.client = j.doc,
           event = "document.validation.completed" => key = <<"validation", j.doc>>,
           Entry(event, j.doc),
           jobs' = Becomes(j, "published", j.attempts) \cup Forward(j, event, key)
    PROVE  IInv'
<1>1. JobOK(j)  BY DEF IInv, Jobs
<1>2. From(j) \in Seq(Nat)  BY <1>1, FromIds
<1>3. ASSUME NEW k \in Forward(j, event, key)
      PROVE  JobOK(k) /\ (k.event \in PastReview => Justified(k.doc)')
  <2>1. /\ k.id = From(j) /\ k.event = event /\ k.key = key /\ k.doc = j.doc
        /\ k.client = j.client /\ k.quality = j.quality /\ k.at = "queued" /\ k.attempts = 0
    BY <1>3 DEF Forward, Message
  <2>2. 0 \in 0..MaxAttempts /\ 0 < MaxAttempts
    BY PipelineAssumption
  <2>3. JobOK(k)
    BY <1>1, <1>2, <2>1, <2>2 DEF JobOK, Open
  <2>4. k.event \in PastReview => Justified(k.doc)'
    BY <2>1 DEF Entry
  <2> QED  BY <2>3, <2>4
<1>4. j.attempts \in 0..MaxAttempts /\ j.attempts < MaxAttempts
  BY <1>1 DEF JobOK, Open
<1>5. PICK at \in {"queued", "published", "done", "dead"} : at = "published"
  OBVIOUS
<1>6. PICK n \in 0..MaxAttempts : n = j.attempts
  BY <1>4
<1>7. PICK new : new = Forward(j, event, key)
  OBVIOUS
<1>8. jobs' = Becomes(j, at, n) \cup new
  BY <1>5, <1>6, <1>7
<1>9. Jobs' /\ Gate'
  BY <1>3, <1>4, <1>5, <1>6, <1>7, <1>8, JobsStep DEF IInv
<1> QED  BY <1>9 DEF IInv

\* A job moves and nothing is sent.
LEMMA MoveStep ==
    ASSUME IInv, Growing, Records', KycIsJustified',
           NEW j \in jobs, NEW at \in {"queued", "published", "done", "dead"},
           NEW n \in 0..MaxAttempts, Open(at) => n < MaxAttempts,
           jobs' = Becomes(j, at, n)
    PROVE  IInv'
<1>1. PICK new : new = {}  OBVIOUS
<1>2. jobs' = Becomes(j, at, n) \cup new
  BY <1>1
<1>3. \A k \in new : JobOK(k) /\ (k.event \in PastReview => Justified(k.doc)')
  BY <1>1
<1>4. Jobs' /\ Gate'
  BY <1>2, <1>3, JobsStep DEF IInv
<1> QED  BY <1>4 DEF IInv

LEMMA FailStep ==
    ASSUME IInv, Growing, Records', KycIsJustified',
           NEW j \in jobs, Open(j.at), AttemptFails(j)
    PROVE  IInv'
<1>1. j.attempts \in Nat /\ j.attempts < MaxAttempts
  BY DEF IInv, Jobs, JobOK, Open
<1>2. PICK n \in 0..MaxAttempts : n = j.attempts + 1
  BY <1>1, PipelineAssumption
<1>3. PICK at \in {"queued", "published", "done", "dead"} :
         at = IF n < MaxAttempts THEN "queued" ELSE "dead"
  OBVIOUS
<1>4. Open(at) => n < MaxAttempts
  BY <1>3 DEF Open
<1>5. jobs' = Becomes(j, at, n)
  BY <1>2, <1>3 DEF AttemptFails
<1> QED  BY <1>4, <1>5, MoveStep

LEMMA DeliverStep ==
    ASSUME IInv, NEW j \in jobs, Deliver(j) \/ FailsBefore(j) \/ FailsAfter(j)
    PROVE  IInv'
<1>0. Records /\ KycIsJustified /\ JobOK(j)
  BY DEF IInv, Jobs
<1>1. CASE ValidationConsumer(j)
  <2>1. Records' /\ Growing /\ kycRuns' = kycRuns
    BY <1>0, <1>1, NothingTaken DEF ValidationConsumer, Records
  <2>2. KycIsJustified'  BY <1>0, <2>1, StillJustified
  <2>3. PICK event, key :
          event \in Events /\ event = "document.validation.completed" /\ key = <<"validation", j.doc>>
    BY DEF Events
  <2>4. j.at = "queued" /\ jobs' = Becomes(j, "published", j.attempts) \cup Forward(j, event, key)
    BY <1>1, <2>3 DEF ValidationConsumer, Starts, Publishes
  <2>5. Entry(event, j.doc)  BY <2>3 DEF Entry, PastReview
  <2> QED  BY <2>1, <2>2, <2>3, <2>4, <2>5, ForwardStep
<1>2. CASE ReviewConsumer(j)
  <2> DEFINE decision == Decision(Score(j.quality), Valid(j.quality))
             review == [id |-> From(j), doc |-> j.doc, quality |-> j.quality,
                        decision |-> decision]
  <2>1. /\ j.at = "queued" /\ reviews' = reviews \cup {review}
        /\ Publishes(j, IF decision = "approved"
                        THEN Forward(j, "review.approved", <<"review-approved", From(j)>>)
                        ELSE {})
        /\ UNCHANGED <<uploaded, kycRuns, overrides, late, requests, faults>>
    BY <1>2 DEF ReviewConsumer, Starts
  <2>2. decision \in Decisions /\ (decision = "approved" => j.quality = "clean")
    BY DEF Decision, Valid, Decisions
  <2> HIDE DEF decision
  <2>3. review.doc = j.doc /\ review.quality = j.quality /\ review.decision = decision
    OBVIOUS
  <2> HIDE DEF review
  <2>4. Records' /\ Growing /\ kycRuns' = kycRuns
    BY <1>0, <2>1, <2>2, <2>3 DEF Records, Growing, JobOK
  <2>5. KycIsJustified'  BY <1>0, <2>4, StillJustified
  <2>6. CASE decision = "approved"
    <3>1. PICK event, key :
            event \in Events /\ event = "review.approved" /\ key = <<"review-approved", From(j)>>
      BY DEF Events
    <3>2. jobs' = Becomes(j, "published", j.attempts) \cup Forward(j, event, key)
      BY <2>1, <2>6, <3>1 DEF Publishes
    <3>3. Justified(j.doc)'
      BY <2>1, <2>2, <2>3, <2>6 DEF Justified
    <3> QED  BY <2>1, <2>4, <2>5, <3>1, <3>2, <3>3, ForwardStep DEF Entry
  <2>7. CASE decision # "approved"
    <3>1. PICK n \in 0..MaxAttempts : n = j.attempts /\ n < MaxAttempts
      BY <1>0, <2>1 DEF JobOK, Open
    <3>2. jobs' = Becomes(j, "published", n)
      BY <2>1, <2>7, <3>1 DEF Publishes
    <3> QED  BY <2>4, <2>5, <3>1, <3>2, MoveStep
  <2> QED  BY <2>6, <2>7
<1>3. CASE FaceConsumer(j)
  <2>1. Records' /\ Growing /\ kycRuns' = kycRuns
    BY <1>0, <1>3, NothingTaken DEF FaceConsumer, Records
  <2>2. KycIsJustified'  BY <1>0, <2>1, StillJustified
  <2>3. PICK event, key :
          event \in Events /\ event = "face.verification.completed" /\ key = <<"face", From(j)>>
    BY DEF Events
  <2>4. /\ j.at = "queued" /\ j.event = "review.approved"
        /\ jobs' = Becomes(j, "published", j.attempts) \cup Forward(j, event, key)
    BY <1>3, <2>3 DEF FaceConsumer, Starts, Publishes
  <2>5. Justified(j.doc)  BY <2>4 DEF IInv, Gate, PastReview
  <2>6. Justified(j.doc)'  BY <1>0, <2>1, <2>5, JustifiedStays DEF JobOK
  <2> QED  BY <2>1, <2>2, <2>3, <2>4, <2>6, ForwardStep DEF Entry
<1>4. CASE CrmSyncConsumer(j)
  <2>1. Records' /\ Growing /\ kycRuns' = kycRuns
    BY <1>0, <1>4, NothingTaken DEF CrmSyncConsumer, Records
  <2>2. KycIsJustified'  BY <1>0, <2>1, StillJustified
  <2>3. PICK event, key :
          event \in Events /\ event = "crm.sync.completed" /\ key = <<"crm-sync-completed", j.client, j.id>>
    BY DEF Events
  <2>4. /\ j.at = "queued" /\ j.event = "face.verification.completed" /\ j.client # None
        /\ jobs' = Becomes(j, "published", j.attempts) \cup Forward(j, event, key)
    BY <1>4, <2>3 DEF CrmSyncConsumer, Starts, Publishes
  <2>5. j.client = j.doc  BY <1>0, <2>4 DEF JobOK
  <2>6. Justified(j.doc)  BY <2>4 DEF IInv, Gate, PastReview
  <2>7. Justified(j.doc)'  BY <1>0, <2>1, <2>6, JustifiedStays DEF JobOK
  <2> QED  BY <2>1, <2>2, <2>3, <2>4, <2>5, <2>7, ForwardStep DEF Entry
<1>5. CASE UnknownCustomer(j)
  <2>1. Records' /\ Growing /\ kycRuns' = kycRuns
    BY <1>0, <1>5, NothingTaken DEF UnknownCustomer, Records
  <2>2. KycIsJustified'  BY <1>0, <2>1, StillJustified
  <2>3. Open(j.at) /\ AttemptFails(j)
    BY <1>5 DEF UnknownCustomer, Starts, Open
  <2> QED  BY <2>1, <2>2, <2>3, FailStep
<1>6. CASE KycConsumer(j)
  <2>1. /\ j.at = "queued" /\ j.event = "crm.sync.completed"
        /\ kycRuns' = [kycRuns EXCEPT ![j.client] = @ + 1]
        /\ Publishes(j, {})
        /\ UNCHANGED <<uploaded, reviews, overrides, late, requests, faults>>
    BY <1>6 DEF KycConsumer, Starts
  <2>2. j.client = j.doc /\ j.doc \in Docs  BY <1>0, <2>1 DEF JobOK
  <2>3. Records' /\ Growing
    BY <1>0, <2>1, <2>2, NothingTaken DEF Records
  <2>4. Justified(j.doc)  BY <2>1 DEF IInv, Gate, PastReview
  <2>5. ASSUME NEW d \in Docs, kycRuns'[d] > 0 PROVE Justified(d)'
    <3>1. CASE d = j.doc
      BY <2>3, <2>4, <3>1, JustifiedStays
    <3>2. CASE d # j.doc
      <4>1. kycRuns[d] > 0  BY <1>0, <2>1, <2>2, <2>5, <3>2 DEF Records
      <4>2. Justified(d)  BY <1>0, <4>1 DEF KycIsJustified, Justified
      <4> QED  BY <2>3, <4>2, JustifiedStays
    <3> QED  BY <3>1, <3>2
  <2>6. KycIsJustified'  BY <2>5 DEF KycIsJustified, Justified
  <2>7. PICK n \in 0..MaxAttempts : n = j.attempts /\ n < MaxAttempts
    BY <1>0, <2>1 DEF JobOK, Open
  <2>8. jobs' = Becomes(j, "published", n)
    BY <2>1, <2>7 DEF Publishes
  <2> QED  BY <2>3, <2>6, <2>7, <2>8, MoveStep
<1>7. CASE SkipDuplicate(j) \/ MarkProcessed(j)
  <2>1. Records' /\ Growing /\ kycRuns' = kycRuns
    BY <1>0, <1>7, NothingTaken DEF SkipDuplicate, MarkProcessed, Records
  <2>2. KycIsJustified'  BY <1>0, <2>1, StillJustified
  <2>3. PICK n \in 0..MaxAttempts : n = j.attempts
    BY <1>0 DEF JobOK
  <2>4. jobs' = Becomes(j, "done", n)
    BY <1>7, <2>3 DEF SkipDuplicate, MarkProcessed
  <2>5. ~Open("done")  BY DEF Open
  <2> QED  BY <2>1, <2>2, <2>4, <2>5, MoveStep
<1>8. CASE FailsBefore(j)
  <2>1. faults' \in 0..MaxFaults /\ faults' = faults + 1
    BY <1>0, <1>8, PipelineAssumption DEF FailsBefore, Fault, Records
  <2>2. late' \in [Events \X Docs -> 0..faults']
    BY <1>0, <1>8, <2>1 DEF FailsBefore, Records
  <2>3. Records' /\ Growing /\ kycRuns' = kycRuns
    BY <1>0, <1>8, <2>1, <2>2, NothingTaken DEF FailsBefore, Records
  <2>4. KycIsJustified'  BY <1>0, <2>3, StillJustified
  <2>5. Open(j.at) /\ AttemptFails(j)
    BY <1>8 DEF FailsBefore, Starts, Open
  <2> QED  BY <2>3, <2>4, <2>5, FailStep
<1>9. CASE FailsAfter(j)
  <2>1. faults' \in 0..MaxFaults /\ faults' = faults + 1
    BY <1>0, <1>9, PipelineAssumption DEF FailsAfter, Fault, Records
  <2>2. late' \in [Events \X Docs -> 0..faults']
    <3>1. PICK x \in Events \X Docs : x = <<j.event, j.doc>>
      BY <1>0 DEF JobOK
    <3>2. late' = [late EXCEPT ![x] = @ + 1]
      BY <1>9, <3>1 DEF FailsAfter
    <3>3. late \in [Events \X Docs -> 0..faults]  BY <1>0 DEF Records
    <3> QED  BY <1>0, <2>1, <3>2, <3>3 DEF Records
  <2>3. Records' /\ Growing /\ kycRuns' = kycRuns
    BY <1>0, <1>9, <2>1, <2>2, NothingTaken DEF FailsAfter, Records
  <2>4. KycIsJustified'  BY <1>0, <2>3, StillJustified
  <2>5. Open(j.at) /\ AttemptFails(j)
    BY <1>9 DEF FailsAfter, Open
  <2> QED  BY <2>3, <2>4, <2>5, FailStep
<1> QED  BY <1>1, <1>2, <1>3, <1>4, <1>5, <1>6, <1>7, <1>8, <1>9 DEF Deliver

-----------------------------------------------------------------------------
LEMMA InitIInv == Init => IInv
  BY PipelineAssumption DEF Init, IInv, Jobs, Records, Gate, KycIsJustified

LEMMA NextIInv == IInv /\ [Next]_vars => IInv'
<1> SUFFICES ASSUME IInv, [Next]_vars PROVE IInv'  OBVIOUS
<1>1. CASE UNCHANGED vars
  BY <1>1 DEF vars, IInv, Jobs, Records, Gate, KycIsJustified, Justified
<1>2. CASE Routes
  BY <1>2, RoutesStep
<1>3. CASE \E j \in jobs : Deliver(j) \/ FailsBefore(j) \/ FailsAfter(j)
  BY <1>3, DeliverStep
<1> QED  BY <1>1, <1>2, <1>3 DEF Next

\* Jobs, keys, decisions and counters keep their types, and no job is
\* attempted more often than the limit.
THEOREM PipelineTypes == Spec => []TypeOK
  BY InitIInv, NextIInv, IInvTypes, PTL DEF Spec

\* Only clients with a clean reviewed document or a manual request get KYC.
THEOREM KycStaysJustified == Spec => []KycIsJustified
<1>1. IInv => KycIsJustified  BY DEF IInv
<1> QED  BY <1>1, InitIInv, NextIInv, PTL DEF Spec

-----------------------------------------------------------------------------
(* Reviews are bounded.                                                    *)

Reviewing == "document.validation.completed"
ReviewsOf(d) == {r \in reviews : r.doc = d}

\* The key of d's validation is processed, or a handler has published under it.
Taken(d) ==
    \/ <<Reviewing, <<"validation", d>> >> \in processed
    \/ \E j \in jobs : j.event = Reviewing /\ j.doc = d /\ j.at = "published"

\* Every review but one is explained by a late failure, and the one only if
\* its key is taken: so no further review may begin.
Within(d) ==
    Cardinality(ReviewsOf(d)) <= late[<<Reviewing, d>>] + (IF Taken(d) THEN 1 ELSE 0)
Budget == IsFiniteSet(reviews) /\ \A d \in Docs : Within(d)

LEMMA LateTypes ==
    ASSUME Records, NEW d \in Docs
    PROVE  late[<<Reviewing, d>>] \in Nat
<1>1. PICK x \in Events \X Docs : x = <<Reviewing, d>>
  BY DEF Events, Reviewing
<1> QED  BY <1>1 DEF Records

LEMMA ReviewCounts ==
    ASSUME Budget, NEW d \in Docs
    PROVE  IsFiniteSet(ReviewsOf(d)) /\ Cardinality(ReviewsOf(d)) \in Nat
<1>1. ReviewsOf(d) \subseteq reviews  BY DEF ReviewsOf
<1> QED  BY <1>1, FS_Subset, FS_CardinalityType DEF Budget

\* Without a new review it is enough that what is taken stays taken.
LEMMA StillWithin ==
    ASSUME Budget, Records, Records', reviews' = reviews,
           \A d \in Docs : late'[<<Reviewing, d>>] >= late[<<Reviewing, d>>],
           \A d \in Docs : Taken(d) => \/ Taken(d)'
                                       \/ late'[<<Reviewing, d>>] > late[<<Reviewing, d>>]
    PROVE  Budget'
<1>1. SUFFICES ASSUME NEW d \in Docs PROVE Within(d)'
  BY DEF Budget
<1>2. ReviewsOf(d)' = ReviewsOf(d)  BY DEF ReviewsOf
<1>3. PICK n \in Nat : n = Cardinality(ReviewsOf(d))  BY ReviewCounts
<1>4. late[<<Reviewing, d>>] \in Nat  BY LateTypes
<1>5. PICK before \in Nat : before = late[<<Reviewing, d>>]  BY <1>4
<1>6. late'[<<Reviewing, d>>] \in Nat
  <2>1. PICK x \in Events \X Docs : x = <<Reviewing, d>>
    BY DEF Events, Reviewing
  <2> QED  BY <2>1 DEF Records
<1>7. PICK after \in Nat : after = late'[<<Reviewing, d>>]  BY <1>6
<1>8. n <= before + (IF Taken(d) THEN 1 ELSE 0)
  BY <1>3, <1>5 DEF Budget, Within
<1>9. after >= before /\ (Taken(d) => Taken(d)' \/ after > before)
  BY <1>5, <1>7
<1>10. n <= after + (IF Taken(d)' THEN 1 ELSE 0)
  BY <1>8, <1>9
<1> QED  BY <1>2, <1>3, <1>7, <1>10 DEF Within

\* A job that has not published takes no key with it when it moves.
LEMMA TakenStays ==
    ASSUME NEW j \in jobs, NEW at, NEW n, NEW new,
           jobs' = Becomes(j, at, n) \cup new, processed' = processed,
           NEW d, Taken(d),
           j.at # "published" \/ j.event # Reviewing \/ j.doc # d
    PROVE  Taken(d)'
<1>1. CASE <<Reviewing, <<"validation", d>> >> \in processed
  BY <1>1 DEF Taken
<1>2. CASE \E k \in jobs : k.event = Reviewing /\ k.doc = d /\ k.at = "published"
  <2>1. PICK k \in jobs : k.event = Reviewing /\ k.doc = d /\ k.at = "published"
    BY <1>2
  <2>2. k \in jobs'  BY <2>1 DEF Becomes
  <2> QED  BY <2>1, <2>2 DEF Taken
<1> QED  BY <1>1, <1>2 DEF Taken

\* The key of d's validation is what process() looks at before a review of d.
LEMMA ReviewScope ==
    ASSUME Jobs, NEW j \in jobs, j.event = Reviewing
    PROVE  Scope(j) = <<Reviewing, <<"validation", j.doc>> >>
  BY DEF Jobs, JobOK, Scope, Reviewing

LEMMA ReviewWithin ==
    ASSUME IInv, Budget, NEW j \in jobs, ReviewConsumer(j)
    PROVE  Budget'
<1> DEFINE review == [id |-> From(j), doc |-> j.doc, quality |-> j.quality,
                      decision |-> Decision(Score(j.quality), Valid(j.quality))]
<1>1. /\ Starts(j, Reviewing) /\ reviews' = reviews \cup {review} /\ late' = late
      /\ processed' = processed
  BY DEF ReviewConsumer, Reviewing
<1>2. review.doc = j.doc  OBVIOUS
<1>3. PICK new : jobs' = Becomes(j, "published", j.attempts) \cup new
  BY DEF ReviewConsumer, Publishes
<1>4. PICK r : r = review  OBVIOUS
<1> HIDE DEF review
<1>5. Jobs /\ Records /\ j.doc \in Docs /\ j.event = Reviewing /\ j.at = "queued"
  BY <1>1 DEF IInv, Jobs, JobOK, Starts
<1>6. IsFiniteSet(reviews')
  BY <1>1, FS_AddElement DEF Budget
<1>7. ASSUME NEW d \in Docs, d # j.doc PROVE Within(d)'
  <2>1. ReviewsOf(d)' = ReviewsOf(d)
    BY <1>1, <1>2, <1>7 DEF ReviewsOf
  <2>2. Taken(d) => Taken(d)'
    BY <1>1, <1>3, <1>7, TakenStays
  <2>3. PICK n \in Nat, m \in Nat : n = Cardinality(ReviewsOf(d)) /\ m = late[<<Reviewing, d>>]
    BY <1>5, ReviewCounts, LateTypes
  <2>4. n <= m + (IF Taken(d) THEN 1 ELSE 0)
    BY <2>3 DEF Budget, Within
  <2>5. n <= m + (IF Taken(d)' THEN 1 ELSE 0)
    BY <2>2, <2>4
  <2> QED  BY <1>1, <2>1, <2>3, <2>5 DEF Within
<1>8. ASSUME NEW d \in Docs, d = j.doc PROVE Within(d)'
  <2>1. Scope(j) = <<Reviewing, <<"validation", d>> >>
    BY <1>5, <1>8, ReviewScope
  <2>2. <<Reviewing, <<"validation", d>> >> \notin processed
    BY <1>1, <2>1 DEF Starts
  <2>3. ASSUME NEW k \in jobs, k.event = Reviewing, k.doc = d PROVE k.at # "published"
    <3>1. Scope(k) = Scope(j)  BY <1>5, <2>1, <2>3, ReviewScope
    <3> QED  BY <1>1, <3>1 DEF Starts
  <2>4. ~Taken(d)  BY <2>2, <2>3 DEF Taken
  <2>5. PICK n \in Nat, m \in Nat : n = Cardinality(ReviewsOf(d)) /\ m = late[<<Reviewing, d>>]
    BY <1>5, ReviewCounts, LateTypes
  <2>6. n <= m + 0
    BY <2>4, <2>5 DEF Budget, Within
  <2>7. ReviewsOf(d)' = ReviewsOf(d) \cup {r}
    BY <1>1, <1>2, <1>4, <1>8 DEF ReviewsOf
  <2>8. IsFiniteSet(ReviewsOf(d))  BY ReviewCounts
  <2>9. PICK after \in Nat : after = Cardinality(ReviewsOf(d)') /\ after <= n + 1
    <3>1. PICK S : S = ReviewsOf(d)  OBVIOUS
    <3>2. IsFiniteSet(S) /\ Cardinality(S) = n  BY <2>5, <2>8, <3>1
    <3>3. Cardinality(S \cup {r}) \in {n, n + 1}  BY <3>2, FS_AddElement
    <3>4. PICK after \in {n, n + 1} : after = Cardinality(S \cup {r})  BY <3>3
    <3>5. after \in Nat /\ after <= n + 1  BY <3>4
    <3> QED  BY <2>7, <3>1, <3>4, <3>5
  <2>10. Taken(d)'
    <3> DEFINE k == [id |-> j.id, event |-> j.event, key |-> j.key, doc |-> j.doc,
                     client |-> j.client, quality |-> j.quality, at |-> "published",
                     attempts |-> j.attempts]
    <3>1. k.event = j.event /\ k.doc = j.doc /\ k.at = "published"  OBVIOUS
    <3>2. k \in Becomes(j, "published", j.attempts)  BY DEF Becomes
    <3> HIDE DEF k
    <3> QED  BY <1>3, <1>5, <1>8, <3>1, <3>2 DEF Taken
  <2>11. after <= m + 1
    BY <2>6, <2>9
  <2> QED  BY <1>1, <2>5, <2>9, <2>10, <2>11 DEF Within
<1> QED  BY <1>6, <1>7, <1>8 DEF Budget

LEMMA OtherWithin ==
    ASSUME IInv, Budget, Records', NEW j \in jobs, Deliver(j) \/ FailsBefore(j) \/ FailsAfter(j),
           ~ReviewConsumer(j)
    PROVE  Budget'
<1>0. Jobs /\ Records /\ JobOK(j)
  BY DEF IInv, Jobs
<1>1. \A d \in Docs : late[<<Reviewing, d>>] \in Nat
  BY <1>0, LateTypes
<1>2. CASE late' = late /\ processed' = processed /\ reviews' = reviews /\ j.at = "queued"
           /\ \E at, n, new : jobs' = Becomes(j, at, n) \cup new
  <2>1. \A d \in Docs : Taken(d) => Taken(d)'
    BY <1>2, TakenStays
  <2> QED  BY <1>0, <1>1, <1>2, <2>1, StillWithin
<1>3. CASE MarkProcessed(j)
  <2>1. PICK at, n, new : jobs' = Becomes(j, at, n) \cup new
    <3>1. PICK new : new = {}  OBVIOUS
    <3>2. jobs' = Becomes(j, "done", j.attempts) \cup new  BY <1>3, <3>1 DEF MarkProcessed
    <3> QED  BY <3>2
  <2>2. late' = late /\ reviews' = reviews /\ processed' = processed \cup {Scope(j)}
    BY <1>3 DEF MarkProcessed
  <2>3. ASSUME NEW d \in Docs, Taken(d) PROVE Taken(d)'
    <3>1. CASE j.event = Reviewing /\ j.doc = d
      BY <1>0, <2>2, <3>1, ReviewScope DEF Taken
    <3>2. CASE ~(j.event = Reviewing /\ j.doc = d)
      <4>1. CASE <<Reviewing, <<"validation", d>> >> \in processed
        BY <2>2, <4>1 DEF Taken
      <4>2. CASE \E k \in jobs : k.event = Reviewing /\ k.doc = d /\ k.at = "published"
        BY <2>1, <3>2, <4>2 DEF Taken, Becomes
      <4> QED  BY <2>3, <4>1, <4>2 DEF Taken
    <3> QED  BY <3>1, <3>2
  <2> QED  BY <1>0, <1>1, <2>2, <2>3, StillWithin
<1>4. CASE FailsAfter(j)
  <2>1. PICK at, n, new : jobs' = Becomes(j, at, n) \cup new
    <3>1. PICK new : new = {}  OBVIOUS
    <3>2. PICK at, n : jobs' = Becomes(j, at, n)
      BY <1>4 DEF FailsAfter, AttemptFails
    <3>3. jobs' = Becomes(j, at, n) \cup new  BY <3>1, <3>2
    <3> QED  BY <3>3
  <2>2. PICK x \in Events \X Docs : x = <<j.event, j.doc>>
    BY <1>0 DEF JobOK
  <2>3. /\ late' = [late EXCEPT ![x] = @ + 1] /\ reviews' = reviews
        /\ processed' = processed
    BY <1>4, <2>2 DEF FailsAfter
  <2>4. ASSUME NEW d \in Docs
        PROVE  IF j.event = Reviewing /\ j.doc = d
               THEN late'[<<Reviewing, d>>] = late[<<Reviewing, d>>] + 1
               ELSE late'[<<Reviewing, d>>] = late[<<Reviewing, d>>]
    <3>1. PICK y \in Events \X Docs : y = <<Reviewing, d>>
      BY DEF Events, Reviewing
    <3>2. late'[y] = IF y = x THEN late[y] + 1 ELSE late[y]
      BY <1>0, <2>3 DEF Records
    <3>3. y = x <=> j.event = Reviewing /\ j.doc = d
      BY <2>2, <3>1
    <3> QED  BY <3>1, <3>2, <3>3
  <2>5. \A d \in Docs : late'[<<Reviewing, d>>] >= late[<<Reviewing, d>>]
    BY <1>1, <2>4
  <2>6. ASSUME NEW d \in Docs, Taken(d)
        PROVE  Taken(d)' \/ late'[<<Reviewing, d>>] > late[<<Reviewing, d>>]
    <3>1. CASE j.event = Reviewing /\ j.doc = d
      BY <1>1, <2>4, <3>1
    <3>2. CASE ~(j.event = Reviewing /\ j.doc = d)
      BY <2>1, <2>3, <2>6, <3>2, TakenStays
    <3> QED  BY <3>1, <3>2
  <2> QED  BY <1>0, <2>3, <2>5, <2>6, StillWithin
<1>5. CASE ValidationConsumer(j) \/ FaceConsumer(j) \/ CrmSyncConsumer(j) \/ KycConsumer(j)
  <2>1. /\ late' = late /\ processed' = processed /\ reviews' = reviews /\ j.at = "queued"
        /\ \E new : Publishes(j, new)
    BY <1>5 DEF ValidationConsumer, FaceConsumer, CrmSyncConsumer, KycConsumer, Starts
  <2>2. PICK new : jobs' = Becomes(j, "published", j.attempts) \cup new
    BY <2>1 DEF Publishes
  <2> QED  BY <1>2, <2>1, <2>2
<1>6. CASE SkipDuplicate(j)
  <2>1. PICK new : new = {}  OBVIOUS
  <2>2. jobs' = Becomes(j, "done", j.attempts) \cup new
    BY <1>6, <2>1 DEF SkipDuplicate
  <2> QED  BY <1>2, <1>6, <2>2 DEF SkipDuplicate
<1>7. CASE UnknownCustomer(j) \/ FailsBefore(j)
  <2>1. PICK new : new = {}  OBVIOUS
  <2>2. PICK at, n : jobs' = Becomes(j, at, n)
    BY <1>7 DEF UnknownCustomer, FailsBefore, AttemptFails
  <2>3. jobs' = Becomes(j, at, n) \cup new  BY <2>1, <2>2
  <2> QED  BY <1>2, <1>7, <2>3 DEF UnknownCustomer, FailsBefore, Starts
<1> QED  BY <1>3, <1>4, <1>5, <1>6, <1>7 DEF Deliver

LEMMA RoutesWithin ==
    ASSUME IInv, Budget, Records', Routes
    PROVE  Budget'
<1>0. Records  BY DEF IInv
<1>1. /\ late' = late /\ processed' = processed /\ reviews' = reviews
      /\ jobs \subseteq jobs'
  BY DEF Routes, SyncCrm, Extract, Validate, Approve, Send
<1>2. \A d \in Docs : Taken(d) => Taken(d)'
  BY <1>1 DEF Taken
<1>3. \A d \in Docs : late[<<Reviewing, d>>] \in Nat
  BY <1>0, LateTypes
<1> QED  BY <1>0, <1>1, <1>2, <1>3, StillWithin

LEMMA InitBudget == Init => Budget
<1> SUFFICES ASSUME Init PROVE Budget  OBVIOUS
<1>1. IsFiniteSet(reviews)  BY FS_EmptySet DEF Init
<1>2. ASSUME NEW d \in Docs PROVE Within(d)
  <2>1. ReviewsOf(d) = {}  BY DEF Init, ReviewsOf
  <2>2. Cardinality(ReviewsOf(d)) = 0  BY <2>1, FS_EmptySet
  <2>3. PICK x \in Events \X Docs : x = <<Reviewing, d>>
    BY DEF Events, Reviewing
  <2>4. late[<<Reviewing, d>>] = 0  BY <2>3 DEF Init
  <2>5. ~Taken(d)  BY DEF Init, Taken
  <2> QED  BY <2>2, <2>4, <2>5 DEF Within
<1> QED  BY <1>1, <1>2 DEF Budget

LEMMA NextBudget == IInv /\ Budget /\ [Next]_vars => Budget'
<1> SUFFICES ASSUME IInv, Budget, [Next]_vars PROVE Budget'  OBVIOUS
<1>1. Records'  BY NextIInv DEF IInv
<1>2. CASE UNCHANGED vars
  BY <1>2 DEF vars, Budget, Within, ReviewsOf, Taken
<1>3. CASE Routes
  BY <1>1, <1>3, RoutesWithin
<1>4. ASSUME NEW j \in jobs, Deliver(j) \/ FailsBefore(j) \/ FailsAfter(j) PROVE Budget'
  <2>1. CASE ReviewConsumer(j)
    BY <2>1, ReviewWithin
  <2>2. CASE ~ReviewConsumer(j)
    BY <1>1, <1>4, <2>2, OtherWithin
  <2> QED  BY <2>1, <2>2
<1> QED  BY <1>2, <1>3, <1>4 DEF Next

\* A document is reviewed once, and once more for each review attempt that
\* failed after publishing.
THEOREM ReviewsAreBounded == Spec => []ReviewedOnce
<1>1. IInv /\ Budget => ReviewedOnce
  <2> SUFFICES ASSUME IInv, Budget, NEW d \in Docs
               PROVE  Cardinality(ReviewsOf(d)) <= 1 + late[<<Reviewing, d>>]
    BY DEF ReviewedOnce, ReviewsOf, Reviewing
  <2>1. late[<<Reviewing, d>>] \in Nat  BY LateTypes DEF IInv
  <2>2. Cardinality(ReviewsOf(d)) \in Nat  BY ReviewCounts
  <2>3. Within(d)  BY DEF Budget
  <2> QED  BY <2>1, <2>2, <2>3 DEF Within
<1> QED  BY <1>1, InitIInv, NextIInv, InitBudget, NextBudget, PTL DEF Spec

-----------------------------------------------------------------------------
(* KYC runs are bounded: the chain from reviews through face verifications *)
(* and CRM syncs, each link of which hands on a key.                       *)

Approved == "review.approved"
Face == "face.verification.completed"
Synced == "crm.sync.completed"

\* The face verifications made of d, by their events' ids.
FaceIds(d) == {j.id : j \in {k \in jobs : k.event = Face /\ k.doc = d}}

\* The keys of d's events e that are processed, or under which a handler has
\* published.
TakenKeys(e, d) ==
    {j.key : j \in {k \in jobs : /\ k.event = e /\ k.doc = d
                                 /\ k.at = "published" \/ Scope(k) \in processed}}

\* The keys that requests past the review made up.
ByHand(j) ==
    \/ j.event = Synced /\ j.key[1] = "crm-sync-completed-api"
    \/ j.event = Approved /\ j.key[1] = "review-approve"
HandKeys(d) == {j.key : j \in {k \in jobs : k.doc = d /\ ByHand(k)}}

\* The consumers' keys: one per approving review, and one per face verification.
Origins ==
    \A j \in jobs :
        /\ j.event = Approved =>
               ByHand(j) \/ \E r \in reviews : /\ r.doc = j.doc /\ r.decision = "approved"
                                               /\ j.key = <<"review-approved", r.id>>
        /\ j.event = Synced =>
               ByHand(j) \/ \E i \in FaceIds(j.doc) : j.key = <<"crm-sync-completed", j.doc, i>>

\* Requests pay for the keys they make up; what a handler did more often than
\* keys were taken, it did again after a late failure.
Paid ==
    \A d \in Docs :
        /\ Cardinality(HandKeys(d)) <= overrides[d]
        /\ Cardinality(FaceIds(d)) <= Cardinality(TakenKeys(Approved, d)) + late[<<Approved, d>>]
        /\ kycRuns[d] <= Cardinality(TakenKeys(Synced, d)) + late[<<Synced, d>>]

Chain == IsFiniteSet(jobs) /\ IsFiniteSet(reviews) /\ Origins /\ Paid

\* Images have no more members than what they are made of.
LEMMA KeysOf ==
    ASSUME NEW S, IsFiniteSet(S)
    PROVE  /\ IsFiniteSet({j.key : j \in S})
           /\ IsFiniteSet({j.id : j \in S})
<1>1. IsFiniteSet({j.key : j \in S})
  <2>1. PICK f : f = [j \in S |-> j.key]  OBVIOUS
  <2>2. PICK T : T = {j.key : j \in S}  OBVIOUS
  <2>3. f \in Surjection(S, T)  BY <2>1, <2>2 DEF Surjection
  <2> QED  BY <2>2, <2>3, FS_Surjection
<1>2. IsFiniteSet({j.id : j \in S})
  <2>1. PICK f : f = [j \in S |-> j.id]  OBVIOUS
  <2>2. PICK T : T = {j.id : j \in S}  OBVIOUS
  <2>3. f \in Surjection(S, T)  BY <2>1, <2>2 DEF Surjection
  <2> QED  BY <2>2, <2>3, FS_Surjection
<1> QED  BY <1>1, <1>2

LEMMA SyncKeysOf ==
    ASSUME NEW S, IsFiniteSet(S), NEW d
    PROVE  LET T == {<<"crm-sync-completed", d, i>> : i \in S}
           IN  IsFiniteSet(T) /\ Cardinality(T) <= Cardinality(S)
<1>1. PICK f : f = [i \in S |-> <<"crm-sync-completed", d, i>>]  OBVIOUS
<1>2. PICK T : T = {<<"crm-sync-completed", d, i>> : i \in S}  OBVIOUS
<1>3. f \in Surjection(S, T)  BY <1>1, <1>2 DEF Surjection
<1> QED  BY <1>2, <1>3, FS_Surjection

LEMMA ReviewKeysOf ==
    ASSUME NEW S, IsFiniteSet(S)
    PROVE  LET T == {<<"review-approved", r.id>> : r \in S}
           IN  IsFiniteSet(T) /\ Cardinality(T) <= Cardinality(S)
<1>1. PICK f : f = [r \in S |-> <<"review-approved", r.id>>]  OBVIOUS
<1>2. PICK T : T = {<<"review-approved", r.id>> : r \in S}  OBVIOUS
<1>3. f \in Surjection(S, T)  BY <1>1, <1>2 DEF Surjection
<1> QED  BY <1>2, <1>3, FS_Surjection

\* What the sizes of two sets that differ in one element say of each other.
LEMMA KeyCounts ==
    ASSUME NEW T, NEW U, NEW x, IsFiniteSet(T), IsFiniteSet(U)
    PROVE  /\ Cardinality(T) \in Nat /\ Cardinality(U) \in Nat
           /\ T \subseteq U => Cardinality(T) <= Cardinality(U)
           /\ (x \notin T /\ T \cup {x} \subseteq U) => Cardinality(T) + 1 <= Cardinality(U)
           /\ T \ {x} \subseteq U => Cardinality(T) <= Cardinality(U) + 1
<1>1. Cardinality(T) \in Nat /\ Cardinality(U) \in Nat
  BY FS_CardinalityType
<1>2. ASSUME T \subseteq U PROVE Cardinality(T) <= Cardinality(U)
  BY <1>2, FS_Subset
<1>3. ASSUME x \notin T, T \cup {x} \subseteq U PROVE Cardinality(T) + 1 <= Cardinality(U)
  <2>1. Cardinality(T \cup {x}) = Cardinality(T) + 1
    BY <1>3, FS_AddElement
  <2>2. Cardinality(T \cup {x}) <= Cardinality(U)  BY <1>3, FS_Subset
  <2> QED  BY <2>1, <2>2
<1>4. ASSUME T \ {x} \subseteq U PROVE Cardinality(T) <= Cardinality(U) + 1
  <2>1. /\ IsFiniteSet(T \ {x})
        /\ Cardinality(T \ {x}) = IF x \in T THEN Cardinality(T) - 1 ELSE Cardinality(T)
    BY FS_RemoveElement
  <2>2. PICK n : n = Cardinality(T \ {x})  OBVIOUS
  <2>3. n <= Cardinality(U)  BY <1>4, <2>2, FS_Subset
  <2>4. n = Cardinality(T) - 1 \/ n = Cardinality(T)  BY <2>1, <2>2
  <2> QED  BY <1>1, <2>3, <2>4
<1> QED  BY <1>1, <1>2, <1>3, <1>4

LEMMA SetsAreFinite ==
    ASSUME IsFiniteSet(jobs), NEW d, NEW e
    PROVE  IsFiniteSet(FaceIds(d)) /\ IsFiniteSet(TakenKeys(e, d)) /\ IsFiniteSet(HandKeys(d))
<1>1. PICK S : S = {k \in jobs : k.event = Face /\ k.doc = d}  OBVIOUS
<1>2. PICK T : T = {k \in jobs : /\ k.event = e /\ k.doc = d
                                 /\ k.at = "published" \/ Scope(k) \in processed}
  OBVIOUS
<1>3. PICK U : U = {k \in jobs : k.doc = d /\ ByHand(k)}  OBVIOUS
<1>4. S \subseteq jobs /\ T \subseteq jobs /\ U \subseteq jobs
  BY <1>1, <1>2, <1>3
<1>5. IsFiniteSet(S) /\ IsFiniteSet(T) /\ IsFiniteSet(U)
  BY <1>4, FS_Subset
<1> QED  BY <1>1, <1>2, <1>3, <1>5, KeysOf DEF FaceIds, TakenKeys, HandKeys

LEMMA TakenIsFinite ==
    IsFiniteSet(jobs) => \A e, d : IsFiniteSet(TakenKeys(e, d))
  BY SetsAreFinite

-----------------------------------------------------------------------------
(* What the move of a job does to these sets.                              *)

\* Job j becomes m, and the jobs of new join.
Moves(j, m, new) ==
    /\ m.id = j.id /\ m.event = j.event /\ m.key = j.key /\ m.doc = j.doc
    /\ m.client = j.client /\ m.quality = j.quality
    /\ jobs' = ((jobs \ {j}) \cup {m}) \cup new

LEMMA BecomesMoves ==
    ASSUME NEW j \in jobs, NEW at, NEW n, NEW new, jobs' = Becomes(j, at, n) \cup new
    PROVE  \E m : Moves(j, m, new) /\ m.at = at
<1>1. PICK m : m = [id |-> j.id, event |-> j.event, key |-> j.key, doc |-> j.doc,
                    client |-> j.client, quality |-> j.quality, at |-> at, attempts |-> n]
  OBVIOUS
<1>2. /\ m.id = j.id /\ m.event = j.event /\ m.key = j.key /\ m.doc = j.doc
      /\ m.client = j.client /\ m.quality = j.quality /\ m.at = at
  BY <1>1
<1>3. Becomes(j, at, n) = (jobs \ {j}) \cup {m}
  BY <1>1 DEF Becomes
<1> QED  BY <1>2, <1>3 DEF Moves

\* The move hands j's key on: j held none, or m holds it, or it is processed.
HandsOn(j, m) == j.at # "published" \/ m.at = "published" \/ Scope(j) \in processed'

LEMMA MovesTaken ==
    ASSUME NEW j \in jobs, NEW m, NEW new, Moves(j, m, new), processed \subseteq processed',
           NEW e, NEW d
    PROVE  /\ TakenKeys(e, d) \ {j.key} \subseteq TakenKeys(e, d)'
           /\ (HandsOn(j, m) \/ e # j.event \/ d # j.doc)
                  => TakenKeys(e, d) \subseteq TakenKeys(e, d)'
           /\ (m.at = "published" /\ e = j.event /\ d = j.doc) => j.key \in TakenKeys(e, d)'
<1>1. \A k \in jobs \ {j} : k \in jobs'
  BY DEF Moves
<1>2. m \in jobs' /\ Scope(m) = Scope(j)
  BY DEF Moves, Scope
<1>3. ASSUME NEW k \in jobs, k.event = e, k.doc = d, k.at = "published" \/ Scope(k) \in processed,
             k # j
      PROVE  k.key \in TakenKeys(e, d)'
  BY <1>1, <1>3 DEF TakenKeys
<1>4. ASSUME m.at = "published" \/ Scope(j) \in processed', e = j.event, d = j.doc
      PROVE  j.key \in TakenKeys(e, d)'
  <2>1. m.event = e /\ m.doc = d /\ m.key = j.key
    BY <1>4 DEF Moves
  <2> QED  BY <1>2, <1>4, <2>1 DEF TakenKeys
<1>5. ASSUME NEW key \in TakenKeys(e, d),
             key # j.key \/ HandsOn(j, m) \/ e # j.event \/ d # j.doc
      PROVE  key \in TakenKeys(e, d)'
  <2>1. PICK k \in jobs : /\ k.event = e /\ k.doc = d /\ k.key = key
                          /\ k.at = "published" \/ Scope(k) \in processed
    BY DEF TakenKeys
  <2>2. CASE k # j
    BY <1>3, <2>1, <2>2
  <2>3. CASE k = j
    <3>1. e = j.event /\ d = j.doc /\ key = j.key /\ HandsOn(j, m)
      BY <1>5, <2>1, <2>3
    <3>2. m.at = "published" \/ Scope(j) \in processed'
      BY <2>1, <2>3, <3>1 DEF HandsOn
    <3> QED  BY <1>4, <3>1, <3>2
  <2> QED  BY <2>2, <2>3
<1>6. TakenKeys(e, d) \ {j.key} \subseteq TakenKeys(e, d)'  BY <1>5
<1>7. ASSUME HandsOn(j, m) \/ e # j.event \/ d # j.doc
      PROVE  TakenKeys(e, d) \subseteq TakenKeys(e, d)'
  BY <1>5, <1>7
<1> QED  BY <1>4, <1>6, <1>7

LEMMA MovesMade ==
    ASSUME NEW j \in jobs, NEW m, NEW new, Moves(j, m, new), NEW d
    PROVE  /\ FaceIds(d)' = FaceIds(d) \cup {k.id : k \in {i \in new : i.event = Face /\ i.doc = d}}
           /\ HandKeys(d)' = HandKeys(d) \cup {k.key : k \in {i \in new : i.doc = d /\ ByHand(i)}}
<1>1. m.event = j.event /\ m.id = j.id /\ m.key = j.key /\ m.doc = j.doc
      /\ (ByHand(m) <=> ByHand(j))
  BY DEF Moves, ByHand
<1> HIDE DEF ByHand
<1> QED  BY <1>1 DEF Moves, FaceIds, HandKeys

\* process() starts no handler under a taken key.
LEMMA StartsFresh ==
    ASSUME NEW j \in jobs, NEW e, Starts(j, e)
    PROVE  j.event = e /\ j.at = "queued" /\ j.key \notin TakenKeys(e, j.doc)
BY DEF Starts, TakenKeys, Scope

\* Of what handlers did to d on e, all but the late failures hold a taken key.
LEMMA LinkStep ==
    ASSUME Records, IsFiniteSet(jobs), IsFiniteSet(jobs'),
           NEW j \in jobs, JobOK(j), NEW m, NEW new, Moves(j, m, new), processed \subseteq processed',
           NEW e \in Events, NEW d \in Docs, NEW before \in Nat, NEW after \in Nat,
           before <= Cardinality(TakenKeys(e, d)) + late[<<e, d>>],
           \/ late' = late /\ HandsOn(j, m)
           \/ late' = [late EXCEPT ![<<j.event, j.doc>>] = @ + 1],
           \/ after = before
           \/ late' = late /\ after <= before + 1 /\ Starts(j, e) /\ d = j.doc /\ m.at = "published"
    PROVE  after <= Cardinality(TakenKeys(e, d)') + late'[<<e, d>>]
<1>1. PICK T, x : T = TakenKeys(e, d) /\ x = j.key  OBVIOUS
<1>2. PICK U : U = TakenKeys(e, d)'  OBVIOUS
<1>3. IsFiniteSet(T)  BY <1>1, SetsAreFinite
<1>4. IsFiniteSet(U)
  <2>1. (IsFiniteSet(jobs) => IsFiniteSet(TakenKeys(e, d)))'
    BY SetsAreFinite, PTL
  <2> QED  BY <1>2, <2>1
<1>5. PICK y \in Events \X Docs : y = <<e, d>>  OBVIOUS
<1>6. PICK z \in Events \X Docs : z = <<j.event, j.doc>>
  BY DEF JobOK
<1>7. late \in [Events \X Docs -> Nat]  BY DEF Records
<1>8. PICK l \in Nat : l = late[y]  BY <1>5, <1>7
<1>9. late'[y] \in {l, l + 1} /\ (late' # late /\ y = z => late'[y] = l + 1)
      /\ (late' = late => late'[y] = l)
  BY <1>5, <1>6, <1>7, <1>8
<1>10. PICK k \in Nat : k = late'[y] /\ l <= k  BY <1>9
<1>11. /\ T \ {x} \subseteq U
       /\ (HandsOn(j, m) \/ e # j.event \/ d # j.doc) => T \subseteq U
       /\ (m.at = "published" /\ e = j.event /\ d = j.doc) => x \in U
  BY <1>1, <1>2, MovesTaken
<1>12. PICK t \in Nat, u \in Nat :
          /\ t = Cardinality(T) /\ u = Cardinality(U)
          /\ T \subseteq U => t <= u
          /\ (x \notin T /\ T \cup {x} \subseteq U) => t + 1 <= u
          /\ T \ {x} \subseteq U => t <= u + 1
  BY <1>3, <1>4, KeyCounts
<1>13. before <= t + l  BY <1>1, <1>5, <1>8, <1>12
<1>14. after <= u + k
  <2>1. CASE after = before /\ (HandsOn(j, m) \/ e # j.event \/ d # j.doc)
    BY <1>10, <1>11, <1>12, <1>13, <2>1
  <2>2. CASE after = before /\ ~(HandsOn(j, m) \/ e # j.event \/ d # j.doc)
    <3>1. y = z /\ k = l + 1
      <4>1. late' = [late EXCEPT ![z] = @ + 1]  BY <1>6, <2>2
      <4> QED  BY <1>5, <1>6, <1>7, <1>8, <1>10, <2>2, <4>1
    <3>2. t <= u + 1  BY <1>11, <1>12
    <3> QED  BY <1>13, <2>2, <3>1, <3>2
  <2>3. CASE late' = late /\ after <= before + 1 /\ Starts(j, e) /\ d = j.doc /\ m.at = "published"
    <3>1. j.event = e /\ x \notin T
      BY <1>1, <2>3, StartsFresh
    <3>2. T \cup {x} \subseteq U
      BY <1>11, <2>3, <3>1 DEF HandsOn
    <3>3. t + 1 <= u  BY <1>12, <3>1, <3>2
    <3> QED  BY <1>10, <1>13, <2>3, <3>3
  <2> QED  BY <2>1, <2>2, <2>3
<1> QED  BY <1>2, <1>5, <1>10, <1>12, <1>14

\* A moving job leaves the chain in order if what it sends has an origin, and a
\* face verification or KYC run takes the key it was started under.
LEMMA MoveChain ==
    ASSUME IInv, Records', Chain, NEW j \in jobs, NEW at, NEW n, NEW new,
           jobs' = Becomes(j, at, n) \cup new, IsFiniteSet(new),
           processed \subseteq processed', overrides' = overrides,
           reviews \subseteq reviews', IsFiniteSet(reviews'),
           \A k \in new :
               /\ ~ByHand(k)
               /\ k.event = Approved =>
                      \E r \in reviews' : /\ r.doc = k.doc /\ r.decision = "approved"
                                         /\ k.key = <<"review-approved", r.id>>
               /\ k.event = Synced =>
                      \E i \in FaceIds(k.doc) : k.key = <<"crm-sync-completed", k.doc, i>>,
           \/ late' = late /\ (j.at # "published" \/ at = "published" \/ Scope(j) \in processed')
           \/ late' = [late EXCEPT ![<<j.event, j.doc>>] = @ + 1],
           \/ \A k \in new : k.event # Face
           \/ /\ late' = late /\ Starts(j, Approved) /\ at = "published"
              /\ \E k : new = {k} /\ k.doc = j.doc,
           \/ kycRuns' = kycRuns
           \/ /\ late' = late /\ Starts(j, Synced) /\ at = "published"
              /\ kycRuns' = [kycRuns EXCEPT ![j.doc] = @ + 1]
    PROVE  Chain'
<1>1. Jobs /\ Records /\ JobOK(j) /\ j.doc \in Docs
  BY DEF IInv, Jobs, JobOK
<1>2. PICK m : Moves(j, m, new) /\ m.at = at
  BY BecomesMoves
<1>3. IsFiniteSet(jobs')
  <2>1. PICK S : S = jobs \ {j}  OBVIOUS
  <2>2. IsFiniteSet(S)  BY <2>1, FS_Subset DEF Chain
  <2>3. IsFiniteSet(S \cup {m})  BY <2>2, FS_AddElement
  <2>4. IsFiniteSet((S \cup {m}) \cup new)  BY <2>3, FS_Union
  <2> QED  BY <1>2, <2>1, <2>4 DEF Moves
<1>4. \/ late' = late /\ HandsOn(j, m)
      \/ late' = [late EXCEPT ![<<j.event, j.doc>>] = @ + 1]
  BY <1>2 DEF HandsOn
<1>5. \A d : /\ FaceIds(d)' = FaceIds(d) \cup {k.id : k \in {i \in new : i.event = Face /\ i.doc = d}}
             /\ HandKeys(d)' = HandKeys(d) \cup {k.key : k \in {i \in new : i.doc = d /\ ByHand(i)}}
  BY <1>2, MovesMade
<1>6. Origins'
  <2>1. SUFFICES ASSUME NEW k \in jobs'
                 PROVE  /\ k.event = Approved =>
                               ByHand(k) \/ \E r \in reviews' : /\ r.doc = k.doc /\ r.decision = "approved"
                                                                /\ k.key = <<"review-approved", r.id>>
                        /\ k.event = Synced =>
                               ByHand(k) \/ \E i \in FaceIds(k.doc)' : k.key = <<"crm-sync-completed", k.doc, i>>
    BY DEF Origins
  <2>2. FaceIds(k.doc) \subseteq FaceIds(k.doc)'
    BY <1>5
  <2>3. CASE k \in new
    BY <2>2, <2>3
  <2>4. ASSUME NEW i \in jobs, k.event = i.event, k.doc = i.doc, k.key = i.key, ByHand(i) => ByHand(k)
        PROVE  /\ k.event = Approved =>
                      ByHand(k) \/ \E r \in reviews' : /\ r.doc = k.doc /\ r.decision = "approved"
                                                       /\ k.key = <<"review-approved", r.id>>
               /\ k.event = Synced =>
                      ByHand(k) \/ \E o \in FaceIds(k.doc)' : k.key = <<"crm-sync-completed", k.doc, o>>
    <3> HIDE DEF ByHand
    <3> QED  BY <2>2, <2>4 DEF Chain, Origins
  <2>5. CASE k \in jobs
    BY <2>4, <2>5
  <2>6. CASE k = m
    <3>1. k.event = j.event /\ k.doc = j.doc /\ k.key = j.key
      BY <1>2, <2>6 DEF Moves
    <3>2. ByHand(j) => ByHand(k)
      BY <3>1 DEF ByHand
    <3> QED  BY <2>4, <3>1, <3>2
  <2> QED  BY <1>2, <2>3, <2>5, <2>6 DEF Moves
<1>7. ASSUME NEW d \in Docs
      PROVE  /\ Cardinality(HandKeys(d)') <= overrides'[d]
             /\ Cardinality(FaceIds(d)') <= Cardinality(TakenKeys(Approved, d)') + late'[<<Approved, d>>]
             /\ kycRuns'[d] <= Cardinality(TakenKeys(Synced, d)') + late'[<<Synced, d>>]
  <2>1. Cardinality(HandKeys(d)') <= overrides'[d]
    <3>1. HandKeys(d)' = HandKeys(d)  BY <1>5
    <3> QED  BY <3>1 DEF Chain, Paid
  <2>2. PICK S : S = FaceIds(d)  OBVIOUS
  <2>3. IsFiniteSet(S)  BY <2>2, SetsAreFinite DEF Chain
  <2>4. PICK before \in Nat : before = Cardinality(S)  BY <2>3, FS_CardinalityType
  <2>5. before <= Cardinality(TakenKeys(Approved, d)) + late[<<Approved, d>>]
    BY <2>2, <2>4 DEF Chain, Paid
  <2>6. PICK after \in Nat :
            /\ after = Cardinality(FaceIds(d)')
            /\ \/ after = before
               \/ /\ late' = late /\ after <= before + 1 /\ Starts(j, Approved)
                  /\ d = j.doc /\ m.at = "published"
    <3>1. CASE FaceIds(d)' = S
      BY <2>4, <3>1
    <3>2. CASE FaceIds(d)' # S
      <4>1. /\ late' = late /\ Starts(j, Approved) /\ at = "published"
            /\ \E k : new = {k} /\ k.doc = j.doc
        BY <1>5, <2>2, <3>2
      <4>2. PICK k : new = {k} /\ k.doc = j.doc  BY <4>1
      <4>3. d = j.doc /\ FaceIds(d)' = S \cup {k.id}
        BY <1>5, <2>2, <3>2, <4>2
      <4>4. PICK x : x = k.id  OBVIOUS
      <4>5. Cardinality(S \cup {x}) \in {before, before + 1}
        BY <2>3, <2>4, FS_AddElement
      <4>6. PICK after \in {before, before + 1} : after = Cardinality(S \cup {x})
        BY <4>5
      <4>7. after \in Nat /\ after <= before + 1  BY <4>6
      <4> QED  BY <1>2, <4>1, <4>3, <4>4, <4>6, <4>7
    <3> QED  BY <3>1, <3>2
  <2>7. Approved \in Events /\ Synced \in Events  BY DEF Approved, Synced, Events
  <2>8. after <= Cardinality(TakenKeys(Approved, d)') + late'[<<Approved, d>>]
    <3>1. PICK e \in Events : e = Approved  BY <2>7
    <3> HIDE DEF Approved
    <3>2. after <= Cardinality(TakenKeys(e, d)') + late'[<<e, d>>]
      BY <1>1, <1>2, <1>3, <1>4, <2>5, <2>6, <3>1, LinkStep DEF Chain
    <3> QED  BY <3>1, <3>2
  <2>9. PICK runs \in Nat, then \in Nat : runs = kycRuns[d] /\ then = kycRuns'[d]
    BY <1>1 DEF Records
  <2>10. \/ then = runs
         \/ /\ late' = late /\ then <= runs + 1 /\ Starts(j, Synced)
            /\ d = j.doc /\ m.at = "published"
    <3>1. CASE kycRuns' = kycRuns
      BY <2>9, <3>1
    <3>2. CASE /\ late' = late /\ Starts(j, Synced) /\ at = "published"
               /\ kycRuns' = [kycRuns EXCEPT ![j.doc] = @ + 1]
      <4>1. kycRuns \in [Docs -> Nat]  BY <1>1 DEF Records
      <4>2. kycRuns'[d] = IF d = j.doc THEN kycRuns[d] + 1 ELSE kycRuns[d]
        BY <1>1, <3>2, <4>1
      <4> QED  BY <1>2, <2>9, <3>2, <4>2
    <3> QED  BY <3>1, <3>2
  <2>11. runs <= Cardinality(TakenKeys(Synced, d)) + late[<<Synced, d>>]
    BY <2>9 DEF Chain, Paid
  <2>12. then <= Cardinality(TakenKeys(Synced, d)') + late'[<<Synced, d>>]
    <3>1. PICK e \in Events : e = Synced  BY <2>7
    <3> HIDE DEF Synced
    <3>2. then <= Cardinality(TakenKeys(e, d)') + late'[<<e, d>>]
      BY <1>1, <1>2, <1>3, <1>4, <2>10, <2>11, <3>1, LinkStep DEF Chain
    <3> QED  BY <3>1, <3>2
  <2> QED  BY <2>1, <2>6, <2>8, <2>9, <2>12
<1>8. Paid'  BY <1>7 DEF Paid
<1> QED  BY <1>3, <1>6, <1>8 DEF Chain

\* The request of a route is in order if it pays for a key it makes up.
LEMMA SendChain ==
    ASSUME IInv, Chain, NEW k, jobs' = jobs \cup {k}, k.event # Face, k.doc \in Docs,
           UNCHANGED <<processed, reviews, kycRuns, late>>,
           \/ ~ByHand(k) /\ k.event \notin {Approved, Synced} /\ overrides' = overrides
           \/ ByHand(k) /\ overrides' = [overrides EXCEPT ![k.doc] = @ + 1]
    PROVE  Chain'
<1>1. Records /\ IsFiniteSet(jobs')
  BY FS_AddElement DEF IInv, Chain
<1>2. \A d : FaceIds(d)' = FaceIds(d)
  BY DEF FaceIds
<1>3. Origins'
  <2>1. SUFFICES ASSUME NEW i \in jobs'
                 PROVE  /\ i.event = Approved =>
                               ByHand(i) \/ \E r \in reviews' : /\ r.doc = i.doc /\ r.decision = "approved"
                                                                /\ i.key = <<"review-approved", r.id>>
                        /\ i.event = Synced =>
                               ByHand(i) \/ \E o \in FaceIds(i.doc)' : i.key = <<"crm-sync-completed", i.doc, o>>
    BY DEF Origins
  <2> HIDE DEF ByHand, FaceIds
  <2>2. CASE i \in jobs
    BY <1>2, <2>2 DEF Chain, Origins
  <2>3. CASE i = k
    BY <2>3
  <2> QED  BY <2>2, <2>3
<1>4. \A e, d : IsFiniteSet(TakenKeys(e, d)) /\ IsFiniteSet(TakenKeys(e, d)')
  <2>1. \A e, d : IsFiniteSet(TakenKeys(e, d))  BY SetsAreFinite DEF Chain
  <2>2. (IsFiniteSet(jobs) => \A e, d : IsFiniteSet(TakenKeys(e, d)))'
    BY TakenIsFinite, PTL
  <2> QED  BY <1>1, <2>1, <2>2
<1>5. ASSUME NEW e \in Events, NEW d \in Docs, NEW n \in Nat,
             n <= Cardinality(TakenKeys(e, d)) + late[<<e, d>>]
      PROVE  n <= Cardinality(TakenKeys(e, d)') + late'[<<e, d>>]
  <2>1. TakenKeys(e, d) \subseteq TakenKeys(e, d)'
    BY DEF TakenKeys, Scope
  <2>2. PICK T, U : T = TakenKeys(e, d) /\ U = TakenKeys(e, d)'  OBVIOUS
  <2>3. Cardinality(T) \in Nat /\ Cardinality(U) \in Nat /\ Cardinality(T) <= Cardinality(U)
    BY <1>4, <2>1, <2>2, FS_Subset, FS_CardinalityType
  <2>4. PICK x \in Events \X Docs : x = <<e, d>>  OBVIOUS
  <2>5. late[x] \in Nat  BY <1>1 DEF Records
  <2> QED  BY <1>5, <2>2, <2>3, <2>4, <2>5
<1>6. ASSUME NEW d \in Docs PROVE Cardinality(HandKeys(d)') <= overrides'[d]
  <2>1. PICK S : S = HandKeys(d)  OBVIOUS
  <2>2. IsFiniteSet(S)  BY <2>1, SetsAreFinite DEF Chain
  <2>3. PICK n \in Nat, b \in Nat : n = Cardinality(S) /\ b = overrides[d]
    BY <1>1, <2>2, FS_CardinalityType DEF Records
  <2>4. n <= b  BY <2>1, <2>3 DEF Chain, Paid
  <2>5. overrides \in [Docs -> Nat]  BY <1>1 DEF Records
  <2>6. CASE HandKeys(d)' = S
    BY <2>3, <2>4, <2>5, <2>6
  <2>7. CASE HandKeys(d)' # S
    <3>1. k.doc = d /\ ByHand(k) /\ HandKeys(d)' = S \cup {k.key}
      <4> HIDE DEF ByHand
      <4> QED  BY <2>1, <2>7 DEF HandKeys
    <3>2. overrides'[d] = b + 1  BY <2>3, <2>5, <3>1
    <3>3. PICK x : x = k.key  OBVIOUS
    <3>4. Cardinality(S \cup {x}) \in {n, n + 1}  BY <2>2, <2>3, FS_AddElement
    <3>5. PICK c \in {n, n + 1} : c = Cardinality(S \cup {x})  BY <3>4
    <3>6. c <= b + 1  BY <2>4, <3>5
    <3> QED  BY <3>1, <3>2, <3>3, <3>5, <3>6
  <2> QED  BY <2>6, <2>7
<1>7. ASSUME NEW d \in Docs
      PROVE  /\ Cardinality(FaceIds(d)') <= Cardinality(TakenKeys(Approved, d)') + late'[<<Approved, d>>]
             /\ kycRuns'[d] <= Cardinality(TakenKeys(Synced, d)') + late'[<<Synced, d>>]
  <2>1. PICK n \in Nat : n = Cardinality(FaceIds(d))
    BY SetsAreFinite, FS_CardinalityType DEF Chain
  <2>2. PICK m \in Nat : m = kycRuns[d]  BY <1>1 DEF Records
  <2>3. PICK e \in Events, o \in Events : e = Approved /\ o = Synced
    BY DEF Events, Approved, Synced
  <2>4. /\ n <= Cardinality(TakenKeys(e, d)) + late[<<e, d>>]
        /\ m <= Cardinality(TakenKeys(o, d)) + late[<<o, d>>]
    BY <2>1, <2>2, <2>3 DEF Chain, Paid
  <2>5. /\ n <= Cardinality(TakenKeys(e, d)') + late'[<<e, d>>]
        /\ m <= Cardinality(TakenKeys(o, d)') + late'[<<o, d>>]
    BY <1>5, <2>4
  <2> QED  BY <1>2, <2>1, <2>2, <2>3, <2>5
<1> QED  BY <1>1, <1>3, <1>6, <1>7 DEF Chain, Paid

LEMMA RoutesChain ==
    ASSUME IInv, Chain, Routes
    PROVE  Chain'
<1>1. PICK id : id = FromRoute  OBVIOUS
<1>2. ASSUME NEW event, NEW key, NEW doc \in Docs, NEW c, NEW q, Send(event, key, doc, c, q),
             UNCHANGED <<processed, reviews, kycRuns, late>>, event # Face,
             LET tag == key[1]
                 hand == \/ event = Synced /\ tag = "crm-sync-completed-api"
                         \/ event = Approved /\ tag = "review-approve"
             IN  \/ event \notin {Approved, Synced} /\ overrides' = overrides
                 \/ hand /\ overrides' = [overrides EXCEPT ![doc] = @ + 1]
      PROVE  Chain'
  <2>1. PICK k : k = Message(id, event, key, doc, c, q)  OBVIOUS
  <2>2. k.event = event /\ k.key = key /\ k.doc = doc  BY <2>1 DEF Message
  <2>3. jobs' = jobs \cup {k}  BY <1>1, <1>2, <2>1 DEF Send, Message
  <2>4. \/ ~ByHand(k) /\ k.event \notin {Approved, Synced} /\ overrides' = overrides
        \/ ByHand(k) /\ overrides' = [overrides EXCEPT ![k.doc] = @ + 1]
    BY <1>2, <2>2 DEF ByHand
  <2> QED  BY <1>2, <2>2, <2>3, <2>4, SendChain
<1>3. ASSUME NEW d \in Docs, SyncCrm(d) PROVE Chain'
  <2>1. PICK event, key : event = Synced /\ key = <<"crm-sync-completed-api", d>>  OBVIOUS
  <2>2. Send(event, key, d, d, "marginal")  BY <1>3, <2>1 DEF SyncCrm, Synced
  <2>3. event # Face /\ key[1] = "crm-sync-completed-api"  BY <2>1 DEF Synced, Face
  <2> QED  BY <1>2, <1>3, <2>1, <2>2, <2>3 DEF SyncCrm
<1>4. ASSUME NEW d \in Docs, NEW q, NEW c, Extract(d, c, q) PROVE Chain'
  <2>1. PICK event, key : event = "document.ocr.completed" /\ key = <<"ocr-extract", d>>  OBVIOUS
  <2>2. Send(event, key, d, c, q)  BY <1>4, <2>1 DEF Extract
  <2>3. event # Face /\ event \notin {Approved, Synced}  BY <2>1 DEF Synced, Face, Approved
  <2> QED  BY <1>2, <1>4, <2>2, <2>3 DEF Extract
<1>5. ASSUME NEW d \in Docs, NEW q, NEW c, Validate(d, c, q) PROVE Chain'
  <2>1. PICK event, key : event = "document.validation.completed" /\ key = <<"validation", d>>  OBVIOUS
  <2>2. Send(event, key, d, c, q)  BY <1>5, <2>1 DEF Validate
  <2>3. event # Face /\ event \notin {Approved, Synced}  BY <2>1 DEF Synced, Face, Approved
  <2> QED  BY <1>2, <1>5, <2>2, <2>3 DEF Validate
<1>6. ASSUME NEW r \in reviews \cup {UnknownReview(d) : d \in Docs}, NEW c, Approve(r, c) PROVE Chain'
  <2>1. PICK d \in Docs : d = r.doc  BY DEF IInv, Records, UnknownReview
  <2>2. PICK event, key : event = Approved /\ key = <<"review-approve", r.id>>  OBVIOUS
  <2>3. Send(event, key, d, c, r.quality)  BY <1>6, <2>1, <2>2 DEF Approve, Approved
  <2>4. event # Face /\ key[1] = "review-approve"  BY <2>2 DEF Approved, Face
  <2>5. overrides' = [overrides EXCEPT ![d] = @ + 1] /\ UNCHANGED <<processed, reviews, kycRuns, late>>
    BY <1>6, <2>1 DEF Approve
  <2> QED  BY <1>2, <2>2, <2>3, <2>4, <2>5
<1> QED  BY <1>3, <1>4, <1>5, <1>6 DEF Routes

LEMMA DeliverChain ==
    ASSUME IInv, Records', Chain, Budget', NEW j \in jobs,
           Deliver(j) \/ FailsBefore(j) \/ FailsAfter(j)
    PROVE  Chain'
<1>1. JobOK(j) /\ IsFiniteSet(reviews') /\ IsFiniteSet(reviews)
  BY DEF IInv, Jobs, Budget, Chain
<1>2. PICK id : id = From(j)  OBVIOUS
\* What a consumer sends on.
<1>3. ASSUME NEW event, NEW key, NEW k \in Forward(j, event, key)
      PROVE  /\ Forward(j, event, key) = {k}
             /\ k.id = From(j) /\ k.event = event /\ k.key = key /\ k.doc = j.doc
  BY <1>3 DEF Forward, Message
<1>4. ASSUME NEW event, NEW key PROVE IsFiniteSet(Forward(j, event, key))
  <2>1. PICK k : k = Message(From(j), event, key, j.doc, j.client, j.quality)  OBVIOUS
  <2> QED  BY <2>1, FS_Singleton DEF Forward
<1>5. CASE ValidationConsumer(j)
  <2>1. PICK event, new : /\ event = "document.validation.completed"
                          /\ new = Forward(j, event, <<"validation", j.doc>>)
    OBVIOUS
  <2>2. IsFiniteSet(new) /\ \A k \in new : k.event = event
    BY <1>3, <1>4, <2>1
  <2>3. \A k \in new : ~ByHand(k) /\ k.event \notin {Approved, Synced, Face}
    BY <2>1, <2>2 DEF ByHand, Approved, Synced, Face
  <2>4. /\ j.at # "published" /\ late' = late /\ kycRuns' = kycRuns
        /\ UNCHANGED <<processed, overrides, reviews>>
        /\ jobs' = Becomes(j, "published", j.attempts) \cup new
    BY <1>5, <2>1 DEF ValidationConsumer, Starts, Publishes
  <2> QED  BY <1>1, <2>2, <2>3, <2>4, MoveChain
<1>6. CASE ReviewConsumer(j)
  <2>1. PICK decision : decision = Decision(Score(j.quality), Valid(j.quality))  OBVIOUS
  <2>2. PICK r : /\ r = [id |-> id, doc |-> j.doc, quality |-> j.quality, decision |-> decision]
                 /\ r.id = id /\ r.doc = j.doc /\ r.decision = decision
    <3> DEFINE review == [id |-> id, doc |-> j.doc, quality |-> j.quality, decision |-> decision]
    <3>1. review.id = id /\ review.doc = j.doc /\ review.decision = decision
      OBVIOUS
    <3> QED  BY <3>1
  <2>3. PICK event, key : event = Approved /\ key = <<"review-approved", id>>  OBVIOUS
  <2>4. PICK new : new = IF decision = "approved" THEN Forward(j, event, key) ELSE {}  OBVIOUS
  <2>5. /\ j.at # "published" /\ late' = late /\ kycRuns' = kycRuns
        /\ UNCHANGED <<processed, overrides>>
        /\ reviews' = reviews \cup {r}
        /\ jobs' = Becomes(j, "published", j.attempts) \cup new
    BY <1>2, <1>6, <2>1, <2>2, <2>3, <2>4 DEF ReviewConsumer, Starts, Publishes, Approved
  <2>6. /\ IsFiniteSet(new)
        /\ \A k \in new : k.event = Approved /\ k.key = key /\ k.doc = j.doc /\ decision = "approved"
    BY <1>3, <1>4, <2>3, <2>4, FS_EmptySet
  <2>7. ASSUME NEW k \in new
        PROVE  /\ ~ByHand(k) /\ k.event # Synced /\ k.event # Face
               /\ \E a \in reviews' : /\ a.doc = k.doc /\ a.decision = "approved"
                                      /\ k.key = <<"review-approved", a.id>>
    <3>1. k.event = "review.approved" /\ k.key = <<"review-approved", id>>
      BY <2>3, <2>6 DEF Approved
    <3>2. ~ByHand(k) /\ k.event # Synced /\ k.event # Face
      BY <3>1 DEF ByHand, Synced, Face
    <3>3. r \in reviews' /\ r.doc = k.doc /\ r.decision = "approved"
      BY <2>2, <2>5, <2>6
    <3> QED  BY <2>2, <3>1, <3>2, <3>3
  <2> QED  BY <1>1, <2>5, <2>6, <2>7, MoveChain
<1>7. CASE FaceConsumer(j)
  <2>1. PICK event, new : event = Face /\ new = Forward(j, event, <<"face", From(j)>>)  OBVIOUS
  <2>2. PICK k : new = {k} /\ k.event = Face /\ k.doc = j.doc
    BY <1>3, <2>1 DEF Forward
  <2>3. IsFiniteSet(new)  BY <1>4, <2>1
  <2>4. ~ByHand(k) /\ k.event # Approved /\ k.event # Synced
    BY <2>2 DEF ByHand, Approved, Synced, Face
  <2>5. /\ Starts(j, Approved) /\ late' = late /\ kycRuns' = kycRuns
        /\ UNCHANGED <<processed, overrides, reviews>>
        /\ jobs' = Becomes(j, "published", j.attempts) \cup new
    BY <1>7, <2>1 DEF FaceConsumer, Publishes, Approved, Face
  <2>6. j.at # "published"  BY <2>5 DEF Starts
  <2> QED  BY <1>1, <2>2, <2>3, <2>4, <2>5, <2>6, MoveChain
<1>8. CASE CrmSyncConsumer(j)
  <2>1. /\ Starts(j, Face) /\ j.client # None
        /\ late' = late /\ kycRuns' = kycRuns /\ UNCHANGED <<processed, overrides, reviews>>
    BY <1>8 DEF CrmSyncConsumer, Face
  <2>2. j.client = j.doc /\ j.event = Face /\ j.at # "published"
    BY <1>1, <2>1 DEF JobOK, Starts
  <2>3. j.id \in FaceIds(j.doc)
    BY <2>2 DEF FaceIds
  <2>4. PICK event, key : event = Synced /\ key = <<"crm-sync-completed", j.doc, j.id>>  OBVIOUS
  <2>5. PICK new : new = Forward(j, event, key)  OBVIOUS
  <2>6. jobs' = Becomes(j, "published", j.attempts) \cup new
    BY <1>8, <2>2, <2>4, <2>5 DEF CrmSyncConsumer, Publishes, Synced
  <2>7. IsFiniteSet(new) /\ \A k \in new : k.event = Synced /\ k.key = key /\ k.doc = j.doc
    BY <1>3, <1>4, <2>4, <2>5
  <2>8. \A k \in new : ~ByHand(k) /\ k.event # Approved /\ k.event # Face
    BY <2>4, <2>7 DEF ByHand, Approved, Synced, Face
  <2>9. \A k \in new : \E i \in FaceIds(k.doc) : k.key = <<"crm-sync-completed", k.doc, i>>
    BY <2>3, <2>4, <2>7
  <2> QED  BY <1>1, <2>1, <2>2, <2>6, <2>7, <2>8, <2>9, MoveChain
<1>9. CASE KycConsumer(j)
  <2>1. PICK new : new = {}  OBVIOUS
  <2>2. /\ Starts(j, Synced) /\ late' = late /\ UNCHANGED <<processed, overrides, reviews>>
        /\ jobs' = Becomes(j, "published", j.attempts) \cup new
        /\ kycRuns' = [kycRuns EXCEPT ![j.client] = @ + 1]
    BY <1>9, <2>1 DEF KycConsumer, Publishes, Synced
  <2>3. j.client = j.doc /\ j.at # "published"  BY <1>1, <2>2 DEF JobOK, Starts, Synced
  <2>4. IsFiniteSet(new)  BY <2>1, FS_EmptySet
  <2> QED  BY <1>1, <2>1, <2>2, <2>3, <2>4, MoveChain
\* Steps that send nothing.
<1>10. ASSUME NEW at, NEW n, jobs' = Becomes(j, at, n), processed \subseteq processed',
              UNCHANGED <<overrides, reviews, kycRuns>>,
              \/ late' = late /\ (j.at # "published" \/ at = "published" \/ Scope(j) \in processed')
              \/ late' = [late EXCEPT ![<<j.event, j.doc>>] = @ + 1]
       PROVE  Chain'
  <2>1. PICK new : new = {}  OBVIOUS
  <2>2. IsFiniteSet(new) /\ jobs' = Becomes(j, at, n) \cup new
    BY <1>10, <2>1, FS_EmptySet
  <2> QED  BY <1>1, <1>10, <2>1, <2>2, MoveChain
<1>11. CASE SkipDuplicate(j)
  BY <1>10, <1>11 DEF SkipDuplicate
<1>12. CASE MarkProcessed(j)
  <2>1. Scope(j) \in processed' /\ processed \subseteq processed'
    BY <1>12 DEF MarkProcessed
  <2> QED  BY <1>10, <1>12, <2>1 DEF MarkProcessed
<1>13. CASE UnknownCustomer(j) \/ FailsBefore(j)
  <2>1. j.at # "published" /\ AttemptFails(j) /\ UNCHANGED <<processed, overrides, reviews, kycRuns, late>>
    BY <1>13 DEF UnknownCustomer, FailsBefore, Starts
  <2>2. PICK at, n : jobs' = Becomes(j, at, n)
    BY <2>1 DEF AttemptFails
  <2> QED  BY <1>10, <2>1, <2>2
<1>14. CASE FailsAfter(j)
  <2>1. PICK at, n : jobs' = Becomes(j, at, n)
    BY <1>14 DEF FailsAfter, AttemptFails
  <2>2. /\ UNCHANGED <<processed, overrides, reviews, kycRuns>>
        /\ late' = [late EXCEPT ![<<j.event, j.doc>>] = @ + 1]
    BY <1>14 DEF FailsAfter
  <2> QED  BY <1>10, <2>1, <2>2
<1> QED  BY <1>5, <1>6, <1>7, <1>8, <1>9, <1>11, <1>12, <1>13, <1>14 DEF Deliver

LEMMA InitChain == Init => Chain
<1> SUFFICES ASSUME Init PROVE Chain  OBVIOUS
<1>1. jobs = {} /\ reviews = {} /\ IsFiniteSet(jobs) /\ IsFiniteSet(reviews)
  BY FS_EmptySet DEF Init
<1>2. Origins  BY <1>1 DEF Origins
<1>3. ASSUME NEW d \in Docs
      PROVE  /\ Cardinality(HandKeys(d)) = 0 /\ Cardinality(FaceIds(d)) = 0
             /\ \A e : Cardinality(TakenKeys(e, d)) = 0
             /\ overrides[d] = 0 /\ kycRuns[d] = 0
             /\ late[<<Approved, d>>] = 0 /\ late[<<Synced, d>>] = 0
  <2>1. HandKeys(d) = {} /\ FaceIds(d) = {} /\ \A e : TakenKeys(e, d) = {}
    BY <1>1 DEF HandKeys, FaceIds, TakenKeys
  <2>2. PICK x \in Events \X Docs, y \in Events \X Docs : x = <<Approved, d>> /\ y = <<Synced, d>>
    BY DEF Events, Approved, Synced
  <2>3. late[x] = 0 /\ late[y] = 0  BY DEF Init
  <2> QED  BY <2>1, <2>2, <2>3, FS_EmptySet DEF Init
<1>4. Paid  BY <1>3 DEF Paid
<1> QED  BY <1>1, <1>2, <1>4 DEF Chain

LEMMA NextChain == IInv /\ Budget /\ Chain /\ [Next]_vars => Chain'
<1> SUFFICES ASSUME IInv, Budget, Chain, [Next]_vars PROVE Chain'  OBVIOUS
<1>1. Records' /\ Budget'  BY NextIInv, NextBudget DEF IInv
<1>2. CASE UNCHANGED vars
  BY <1>2 DEF vars, Chain, Origins, Paid, FaceIds, HandKeys, TakenKeys
<1>3. CASE Routes
  BY <1>3, RoutesChain
<1>4. CASE \E j \in jobs : Deliver(j) \/ FailsBefore(j) \/ FailsAfter(j)
  BY <1>1, <1>4, DeliverChain
<1> QED  BY <1>2, <1>3, <1>4 DEF Next

LEMMA UnionSize ==
    ASSUME NEW T, NEW A, NEW B, IsFiniteSet(A), IsFiniteSet(B), T \subseteq A \cup B
    PROVE  /\ Cardinality(A) \in Nat /\ Cardinality(B) \in Nat /\ Cardinality(T) \in Nat
           /\ Cardinality(T) <= Cardinality(A) + Cardinality(B)
<1>1. /\ IsFiniteSet(A \cup B)
      /\ Cardinality(A \cup B) = Cardinality(A) + Cardinality(B) - Cardinality(A \cap B)
  BY FS_Union
<1>2. IsFiniteSet(A \cap B)  BY FS_Intersection
<1>3. PICK n \in Nat : n = Cardinality(A \cap B)  BY <1>2, FS_CardinalityType
<1>4. Cardinality(T) <= Cardinality(A \cup B) /\ IsFiniteSet(T)  BY <1>1, FS_Subset
<1>5. PICK a \in Nat, b \in Nat, t \in Nat :
          a = Cardinality(A) /\ b = Cardinality(B) /\ t = Cardinality(T)
  BY <1>4, FS_CardinalityType
<1>6. t <= a + b - n  BY <1>1, <1>3, <1>4, <1>5
<1> QED  BY <1>5, <1>6

LEMMA PartSizes ==
    ASSUME NEW H, NEW M, IsFiniteSet(H), M \subseteq H
    PROVE  Cardinality(M) + Cardinality(H \ M) = Cardinality(H)
<1>1. IsFiniteSet(M)  BY FS_Subset
<1>2. H \cap M = M  OBVIOUS
<1>3. Cardinality(H \ M) = Cardinality(H) - Cardinality(M)
  BY <1>2, FS_Difference
<1>4. Cardinality(H) \in Nat /\ Cardinality(M) \in Nat
  BY <1>1, FS_CardinalityType
<1> QED  BY <1>3, <1>4

\* The reviews of d that were approved.
Approvals(d) == {r \in reviews : r.doc = d /\ r.decision = "approved"}

\* The links of the chain add up: a KYC run has a key of a CRM sync, which was
\* made up by a request or has a face verification, which has a key of an
\* approval, which was made up by a request or has an approving review.
LEMMA ChainAddsUp ==
    ASSUME IInv, Chain, NEW d \in Docs
    PROVE  kycRuns[d] <= Cardinality(Approvals(d)) + overrides[d]
                         + late[<<Approved, d>>] + late[<<Synced, d>>]
<1>1. PICK R : R = Approvals(d)  OBVIOUS
<1>2. IsFiniteSet(R)
  <2>1. R \subseteq reviews  BY <1>1 DEF Approvals
  <2> QED  BY <2>1, FS_Subset DEF Chain
<1>3. PICK F, H : F = FaceIds(d) /\ H = HandKeys(d)  OBVIOUS
<1>4. IsFiniteSet(F) /\ IsFiniteSet(H)  BY <1>3, SetsAreFinite DEF Chain
<1>5. PICK M, N : /\ M = {x \in H : x[1] = "crm-sync-completed-api"}
                  /\ N = H \ M
  OBVIOUS
<1>6. M \subseteq H /\ IsFiniteSet(M) /\ IsFiniteSet(N)
  <2>1. M \subseteq H /\ N \subseteq H  BY <1>5
  <2> QED  BY <1>4, <2>1, FS_Subset
<1>7. PICK T, U : T = TakenKeys(Synced, d) /\ U = TakenKeys(Approved, d)  OBVIOUS
<1>8. PICK C : C = {<<"crm-sync-completed", d, i>> : i \in F}  OBVIOUS
<1>9. PICK E : E = {<<"review-approved", r.id>> : r \in R}  OBVIOUS
<1>10. /\ IsFiniteSet(C) /\ Cardinality(C) <= Cardinality(F)
       /\ IsFiniteSet(E) /\ Cardinality(E) <= Cardinality(R)
  BY <1>2, <1>4, <1>8, <1>9, SyncKeysOf, ReviewKeysOf
<1>11. T \subseteq M \cup C
  <2>1. SUFFICES ASSUME NEW key \in T PROVE key \in M \cup C  OBVIOUS
  <2>2. PICK j \in jobs : j.event = Synced /\ j.doc = d /\ j.key = key
    BY <1>7 DEF TakenKeys
  <2>3. ByHand(j) \/ \E i \in FaceIds(j.doc) : j.key = <<"crm-sync-completed", j.doc, i>>
    BY <2>2 DEF Chain, Origins
  <2>4. CASE ByHand(j)
    <3>1. key \in H  BY <1>3, <2>2, <2>4 DEF HandKeys
    <3>2. key[1] = "crm-sync-completed-api"
      BY <2>2, <2>4 DEF ByHand, Synced, Approved
    <3> QED  BY <1>5, <3>1, <3>2
  <2>5. CASE \E i \in FaceIds(j.doc) : j.key = <<"crm-sync-completed", j.doc, i>>
    BY <1>3, <1>8, <2>2, <2>5
  <2> QED  BY <2>3, <2>4, <2>5
<1>12. U \subseteq N \cup E
  <2>1. SUFFICES ASSUME NEW key \in U PROVE key \in N \cup E  OBVIOUS
  <2>2. PICK j \in jobs : j.event = Approved /\ j.doc = d /\ j.key = key
    BY <1>7 DEF TakenKeys
  <2>3. ByHand(j) \/ \E r \in reviews : /\ r.doc = j.doc /\ r.decision = "approved"
                                        /\ j.key = <<"review-approved", r.id>>
    BY <2>2 DEF Chain, Origins
  <2>4. CASE ByHand(j)
    <3>1. key \in H  BY <1>3, <2>2, <2>4 DEF HandKeys
    <3>2. key[1] # "crm-sync-completed-api"
      BY <2>2, <2>4 DEF ByHand, Synced, Approved
    <3> QED  BY <1>5, <3>1, <3>2
  <2>5. CASE \E r \in reviews : /\ r.doc = j.doc /\ r.decision = "approved"
                               /\ j.key = <<"review-approved", r.id>>
    <3>1. PICK r \in reviews : /\ r.doc = j.doc /\ r.decision = "approved"
                               /\ j.key = <<"review-approved", r.id>>
      BY <2>5
    <3>2. r \in R  BY <1>1, <2>2, <3>1 DEF Approvals
    <3> QED  BY <1>9, <2>2, <3>1, <3>2
  <2> QED  BY <2>3, <2>4, <2>5
<1>13. PICK m \in Nat, n \in Nat, c \in Nat, e \in Nat, t \in Nat, u \in Nat :
          /\ m = Cardinality(M) /\ n = Cardinality(N) /\ c = Cardinality(C)
          /\ e = Cardinality(E) /\ t = Cardinality(T) /\ u = Cardinality(U)
          /\ t <= m + c /\ u <= n + e
  BY <1>6, <1>10, <1>11, <1>12, UnionSize
<1>14. PICK f \in Nat, h \in Nat, r \in Nat :
          f = Cardinality(F) /\ h = Cardinality(H) /\ r = Cardinality(R)
  BY <1>2, <1>4, FS_CardinalityType
<1>15. m + n = h /\ c <= f /\ e <= r
  BY <1>4, <1>5, <1>6, <1>10, <1>13, <1>14, PartSizes
<1>16. PICK x \in Events \X Docs, y \in Events \X Docs :
          x = <<Approved, d>> /\ y = <<Synced, d>>
  BY DEF Events, Approved, Synced
<1>17. PICK k \in Nat, o \in Nat, a \in Nat, b \in Nat :
          /\ k = kycRuns[d] /\ o = overrides[d]
          /\ a = late[<<Approved, d>>] /\ b = late[<<Synced, d>>]
  BY <1>16 DEF IInv, Records
<1>18. h <= o /\ f <= u + a /\ k <= t + b
  BY <1>3, <1>7, <1>13, <1>14, <1>17 DEF Chain, Paid
<1>19. k <= r + o + a + b
  BY <1>13, <1>15, <1>18
<1> QED  BY <1>1, <1>14, <1>17, <1>19

\* A client is approved once per approving review or request past the review,
\* and once more for each late failure of the face or the KYC consumer.
THEOREM KycStaysBounded == Spec => []KycRunsAreBounded
<1>1. IInv /\ Chain => KycRunsAreBounded
  BY ChainAddsUp DEF KycRunsAreBounded, Approvals, Approved, Synced
<1> QED  BY <1>1, InitIInv, NextIInv, InitBudget, NextBudget, InitChain, NextChain, PTL DEF Spec

-----------------------------------------------------------------------------
(* No clean document is lost on its way to KYC: the safety under           *)
(* CleanDocumentReachesKyc, true without fairness and whatever jobs die.   *)

Extracted == "document.ocr.completed"

\* A key names its document, or the event that has it alone.
Named(j) ==
    /\ j.event = Extracted => j.key = <<"ocr-extract", j.doc>>
    /\ j.event = Approved => j.key = <<"review-approved", j.id>> \/ j.key[1] = "review-approve"
    /\ j.event = Face => j.key = <<"face", j.id>>
    /\ j.event = Synced => j.key[2] = j.doc

\* Every id goes back to the request that started it all, and so to its document.
Rooted ==
    /\ \A j \in jobs : Len(j.id) > 0 /\ j.id[1] <= requests
    /\ \A j, k \in jobs : j.id[1] = k.id[1] => j.doc = k.doc

\* What has been sent once event e of document d was handled under key.
Follows(e, key, d) ==
    /\ e = Extracted => \E k \in jobs : k.event = Reviewing /\ k.doc = d
    /\ e = Reviewing /\ ~OtherValidation(d) =>
           \E k \in jobs : k.event = Approved /\ k.doc = d /\ k.key[1] = "review-approved"
    /\ e = Approved /\ key[1] = "review-approved" /\ ~OtherValidation(d) =>
           \E k \in jobs : k.event = Face /\ k.doc = d /\ k.client = d
    /\ e = Face => \E k \in jobs : k.event = Synced /\ k.doc = d
    /\ e = Synced => kycRuns[d] > 0

\* The key of j is processed, or its handler has published.
Ran(j) == j.at = "published" \/ Scope(j) \in processed

Trail ==
    /\ Rooted
    /\ \A j \in jobs : Named(j)
    /\ \A j \in jobs : Ran(j) => Follows(j.event, j.key, j.doc)
    /\ \A j \in jobs : j.at = "done" => Scope(j) \in processed
    /\ \A s \in processed : \E j \in jobs : Scope(j) = s
    /\ \A j \in jobs : j.event = Approved /\ j.key[1] = "review-approved" /\ j.client = None =>
                           OtherValidation(j.doc)


\* What the events of Follows have in common: their keys tell the document.
Tells(e, key) ==
    e \in {Extracted, Reviewing, Face, Synced} \/ (e = Approved /\ key[1] = "review-approved")

LEMMA SameDocument ==
    ASSUME NEW j, NEW k, JobOK(j), JobOK(k), Named(j), Named(k), Scope(j) = Scope(k),
           j.id[1] = k.id[1] => j.doc = k.doc, Tells(j.event, j.key)
    PROVE  j.doc = k.doc
<1>1. j.event = k.event /\ j.key = k.key  BY DEF Scope
<1>2. CASE j.event = Extracted
  BY <1>1, <1>2 DEF Named
<1>3. CASE j.event = Reviewing
  BY <1>1, <1>3 DEF JobOK, Reviewing
<1>4. CASE j.event = Face
  <2>1. j.id = k.id  BY <1>1, <1>4 DEF Named
  <2> QED  BY <2>1
<1>5. CASE j.event = Synced
  BY <1>1, <1>5 DEF Named
<1>6. CASE j.event = Approved /\ j.key[1] = "review-approved"
  <2>1. j.key = <<"review-approved", j.id>> /\ k.key = <<"review-approved", k.id>>
    BY <1>1, <1>6 DEF Named
  <2>2. j.key[2] = j.id /\ k.key[2] = k.id  BY <2>1
  <2>3. j.id = k.id  BY <1>1, <2>2
  <2> QED  BY <2>3
<1> QED  BY <1>2, <1>3, <1>4, <1>5, <1>6 DEF Tells

\* A job may reach another point but is never forgotten.
Kept ==
    \A k \in jobs : \E i \in jobs' :
        /\ i.id = k.id /\ i.event = k.event /\ i.key = k.key /\ i.doc = k.doc
        /\ i.client = k.client /\ i.quality = k.quality

LEMMA FollowsStays ==
    ASSUME Kept, NEW e, NEW key, NEW d, kycRuns[d] > 0 => kycRuns'[d] > 0, Follows(e, key, d)
    PROVE  Follows(e, key, d)'
<1>1. OtherValidation(d) => OtherValidation(d)'
  BY DEF Kept, OtherValidation
<1>2. ASSUME NEW f, NEW k \in jobs, k.event = f, k.doc = d
      PROVE  \E i \in jobs' : i.event = f /\ i.doc = d /\ i.key = k.key /\ i.client = k.client
  BY <1>2 DEF Kept
<1>3. e = Extracted => \E k \in jobs' : k.event = Reviewing /\ k.doc = d
  BY <1>2 DEF Follows
<1>4. e = Reviewing /\ ~OtherValidation(d)' =>
         \E k \in jobs' : k.event = Approved /\ k.doc = d /\ k.key[1] = "review-approved"
  <2>1. SUFFICES ASSUME e = Reviewing, ~OtherValidation(d)
                 PROVE  \E k \in jobs' : k.event = Approved /\ k.doc = d /\ k.key[1] = "review-approved"
    BY <1>1
  <2>2. PICK k \in jobs : k.event = Approved /\ k.doc = d /\ k.key[1] = "review-approved"
    BY <2>1 DEF Follows
  <2>3. PICK i \in jobs' : i.event = Approved /\ i.doc = d /\ i.key = k.key
    BY <1>2, <2>2
  <2> QED  BY <2>2, <2>3
<1>5. e = Approved /\ key[1] = "review-approved" /\ ~OtherValidation(d)' =>
         \E k \in jobs' : k.event = Face /\ k.doc = d /\ k.client = d
  <2>1. SUFFICES ASSUME e = Approved, key[1] = "review-approved", ~OtherValidation(d)
                 PROVE  \E k \in jobs' : k.event = Face /\ k.doc = d /\ k.client = d
    BY <1>1
  <2>2. PICK k \in jobs : k.event = Face /\ k.doc = d /\ k.client = d
    BY <2>1 DEF Follows
  <2> QED  BY <1>2, <2>2
<1>6. e = Face => \E k \in jobs' : k.event = Synced /\ k.doc = d
  BY <1>2 DEF Follows
<1>7. e = Synced => kycRuns'[d] > 0
  BY DEF Follows
<1> QED  BY <1>3, <1>4, <1>5, <1>6, <1>7 DEF Follows

\* What a step has to show for the jobs it leaves.
LEMMA TrailGrows ==
    ASSUME Jobs, Jobs', Trail, Kept, Rooted', processed \subseteq processed',
           \A d \in Docs : kycRuns[d] > 0 => kycRuns'[d] > 0,
           \A k \in jobs' : Named(k),
           \A i \in jobs, k \in jobs' : i.id[1] = k.id[1] => i.doc = k.doc,
           \A k \in jobs' \ jobs : k.at = "published" => Follows(k.event, k.key, k.doc)',
           \A s \in processed' : \E i \in jobs : Scope(i) = s /\ Ran(i),
           \A k \in jobs' \ jobs : k.at = "done" => Scope(k) \in processed',
           \A k \in jobs' : k.event = Approved /\ k.key[1] = "review-approved" /\ k.client = None =>
                                OtherValidation(k.doc)'
    PROVE  Trail'
<1>1. ASSUME NEW k \in jobs', Ran(k)'
      PROVE  Follows(k.event, k.key, k.doc)'
  <2>1. ASSUME NEW i \in jobs, Scope(i) = Scope(k), Ran(i)
        PROVE  Follows(k.event, k.key, k.doc)'
    <3>1. i.event = k.event /\ i.key = k.key  BY <2>1 DEF Scope
    <3>2. Follows(i.event, i.key, i.doc)  BY <2>1 DEF Trail
    <3>3. JobOK(i) /\ JobOK(k) /\ Named(i) /\ Named(k)
      BY DEF Jobs, Trail
    <3>4. CASE Tells(i.event, i.key)
      <4>1. i.doc = k.doc  BY <2>1, <3>3, <3>4, SameDocument
      <4>2. i.doc \in Docs  BY <3>3 DEF JobOK
      <4>3. Follows(i.event, i.key, i.doc)'
        BY <3>2, <4>2, FollowsStays
      <4> QED  BY <3>1, <4>1, <4>3
    <3>5. CASE ~Tells(i.event, i.key)
      BY <3>1, <3>5 DEF Tells, Follows, Extracted, Reviewing, Approved, Face, Synced
    <3> QED  BY <3>4, <3>5
  <2>2. CASE Scope(k) \in processed'
    BY <2>1, <2>2
  <2>3. CASE k.at = "published" /\ k \in jobs
    BY <2>1, <2>3 DEF Ran
  <2>4. CASE k.at = "published" /\ k \notin jobs
    BY <2>4
  <2> QED  BY <1>1, <2>2, <2>3, <2>4 DEF Ran
<1>2. ASSUME NEW k \in jobs', k.at = "done" PROVE Scope(k) \in processed'
  BY <1>2 DEF Trail
<1>3. \A s \in processed' : \E k \in jobs' : Scope(k) = s
  BY DEF Kept, Scope
<1> QED  BY <1>1, <1>2, <1>3 DEF Trail

\* A job that moves, and what its handler sends: the new jobs have its root.
LEMMA MoveTrail ==
    ASSUME Jobs, Jobs', Trail, NEW j \in jobs, NEW at, NEW n, NEW new,
           jobs' = Becomes(j, at, n) \cup new, requests' = requests,
           \A d \in Docs : kycRuns[d] > 0 => kycRuns'[d] > 0,
           \A k \in new :
               /\ k.id = From(j) /\ k.doc = j.doc /\ k.at = "queued" /\ Named(k)
               /\ k.event = Approved /\ k.client = None => OtherValidation(k.doc),
           \/ processed' = processed
           \/ j.at = "published" /\ processed' = processed \cup {Scope(j)},
           at = "done" => Scope(j) \in processed',
           at = "published" => Follows(j.event, j.key, j.doc)'
    PROVE  Trail'
<1>1. PICK m : Moves(j, m, new) /\ m.at = at
  BY BecomesMoves
<1>2. Kept
  BY <1>1 DEF Moves, Kept
<1>3. \A k \in jobs' : k \in jobs \/ k = m \/ k \in new
  BY <1>1 DEF Moves
<1>4. m.id = j.id /\ m.event = j.event /\ m.key = j.key /\ m.doc = j.doc
      /\ m.client = j.client /\ Scope(m) = Scope(j)
  BY <1>1 DEF Moves, Scope
<1>5. \A k \in new : k.id[1] = j.id[1] /\ Len(k.id) > 0
  <2>1. PICK id \in Seq(Nat), a \in Nat : id = j.id /\ a = j.attempts
    BY PipelineAssumption DEF Jobs, JobOK
  <2>2. Len(id) > 0  BY <2>1 DEF Trail, Rooted
  <2>3. Append(id, a)[1] = id[1] /\ Len(Append(id, a)) > 0
    BY <2>2
  <2> QED  BY <2>1, <2>3 DEF From
\* Every job still has the document and the root of an old one.
<1>6. \A k \in jobs' : Len(k.id) > 0 /\ \E o \in jobs : k.id[1] = o.id[1] /\ k.doc = o.doc
  BY <1>3, <1>4, <1>5 DEF Trail, Rooted
<1>7. Rooted'
  BY <1>6 DEF Trail, Rooted
<1>8. \A i \in jobs, k \in jobs' : i.id[1] = k.id[1] => i.doc = k.doc
  BY <1>6 DEF Trail, Rooted
<1>9. \A k \in jobs' : Named(k)
  BY <1>3, <1>4 DEF Trail, Named
<1>10. \A s \in processed' : \E i \in jobs : Scope(i) = s /\ Ran(i)
  BY DEF Trail, Ran
<1>11. \A k \in jobs' \ jobs : /\ k.at = "published" => Follows(k.event, k.key, k.doc)'
                               /\ k.at = "done" => Scope(k) \in processed'
  BY <1>1, <1>3, <1>4
<1>12. \A d : OtherValidation(d) => OtherValidation(d)'
  BY <1>2 DEF Kept, OtherValidation
<1>13. \A k \in jobs' : k.event = Approved /\ k.key[1] = "review-approved" /\ k.client = None =>
                            OtherValidation(k.doc)'
  BY <1>3, <1>4, <1>12 DEF Trail
<1> QED  BY <1>2, <1>7, <1>8, <1>9, <1>10, <1>11, <1>13, TrailGrows

\* A request starts a new root.
LEMMA SendTrail ==
    ASSUME IInv, Jobs', Trail, NEW k, jobs' = jobs \cup {k}, requests' = requests + 1,
           UNCHANGED <<processed, kycRuns>>,
           k.id = FromRoute, k.at = "queued", Named(k),
           k.event = Approved => k.key[1] = "review-approve"
    PROVE  Trail'
<1>1. Jobs /\ requests \in Nat
  BY PipelineAssumption DEF IInv, Records
<1>2. Kept
  BY DEF Kept
<1>3. Len(k.id) > 0 /\ k.id[1] = requests + 1
  BY DEF FromRoute
<1>4. \A i \in jobs : i.id[1] \in Nat /\ Len(i.id) > 0 /\ i.id[1] <= requests
  <2>1. SUFFICES ASSUME NEW i \in jobs PROVE i.id[1] \in Nat
    BY DEF Trail, Rooted
  <2>2. PICK id \in Seq(Nat) : id = i.id  BY <1>1 DEF Jobs, JobOK
  <2>3. Len(id) > 0  BY <2>2 DEF Trail, Rooted
  <2>4. id[1] \in Nat  BY <2>3
  <2> QED  BY <2>2, <2>4
<1>5. Rooted'
  BY <1>1, <1>3, <1>4 DEF Trail, Rooted
<1>6. \A i \in jobs, l \in jobs' : i.id[1] = l.id[1] => i.doc = l.doc
  BY <1>1, <1>3, <1>4 DEF Trail, Rooted
<1>7. \A s \in processed' : \E i \in jobs : Scope(i) = s /\ Ran(i)
  BY DEF Trail, Ran
<1>8. \A d : OtherValidation(d) => OtherValidation(d)'
  BY DEF OtherValidation
<1>9. \A l \in jobs' : l.event = Approved /\ l.key[1] = "review-approved" /\ l.client = None =>
                           OtherValidation(l.doc)'
  BY <1>8 DEF Trail
<1>10. \A l \in jobs' : Named(l)
  BY DEF Trail
<1> QED  BY <1>1, <1>2, <1>5, <1>6, <1>7, <1>9, <1>10, TrailGrows

LEMMA RoutesTrail ==
    ASSUME IInv, Jobs', Trail, Routes PROVE Trail'
<1>1. ASSUME NEW event, NEW key, NEW doc, NEW client, NEW quality,
             Send(event, key, doc, client, quality), Serve, UNCHANGED <<processed, kycRuns>>,
             event = Extracted => key = <<"ocr-extract", doc>>,
             event = Approved => key[1] = "review-approve",
             event # Face, event = Synced => key[2] = doc
      PROVE  Trail'
  <2>1. PICK k : k = Message(FromRoute, event, key, doc, client, quality)  OBVIOUS
  <2>2. /\ k.id = FromRoute /\ k.event = event /\ k.key = key /\ k.doc = doc /\ k.at = "queued"
    BY <2>1 DEF Message
  <2>3. jobs' = jobs \cup {k} /\ requests' = requests + 1
    BY <1>1, <2>1 DEF Send, Serve
  <2>4. Named(k) /\ (k.event = Approved => k.key[1] = "review-approve")
    BY <1>1, <2>2 DEF Named
  <2> QED  BY <1>1, <2>2, <2>3, <2>4, SendTrail
<1>2. ASSUME NEW d \in Docs, SyncCrm(d) PROVE Trail'
  <2>1. PICK event, key : event = "crm.sync.completed" /\ key = <<"crm-sync-completed-api", d>>
    OBVIOUS
  <2>2. Send(event, key, d, d, "marginal") /\ Serve /\ UNCHANGED <<processed, kycRuns>>
    BY <1>2, <2>1 DEF SyncCrm
  <2>3. event # Extracted /\ event # Approved /\ event # Face /\ key[2] = d
    BY <2>1 DEF Extracted, Approved, Face
  <2> QED  BY <1>1, <2>2, <2>3
<1>3. ASSUME NEW d \in Docs, NEW q, NEW c, Extract(d, c, q) PROVE Trail'
  <2>1. PICK event, key : event = "document.ocr.completed" /\ key = <<"ocr-extract", d>>
    OBVIOUS
  <2>2. Send(event, key, d, c, q) /\ Serve /\ UNCHANGED <<processed, kycRuns>>
    BY <1>3, <2>1 DEF Extract
  <2>3. event # Synced /\ event # Approved /\ event # Face /\ key = <<"ocr-extract", d>>
    BY <2>1 DEF Synced, Approved, Face
  <2> QED  BY <1>1, <2>2, <2>3
<1>4. ASSUME NEW d \in Docs, NEW q, NEW c, Validate(d, c, q) PROVE Trail'
  <2>1. PICK event, key : event = "document.validation.completed" /\ key = <<"validation", d>>
    OBVIOUS
  <2>2. Send(event, key, d, c, q) /\ Serve /\ UNCHANGED <<processed, kycRuns>>
    BY <1>4, <2>1 DEF Validate
  <2>3. event # Synced /\ event # Approved /\ event # Face /\ event # Extracted
    BY <2>1 DEF Synced, Approved, Face, Extracted
  <2> QED  BY <1>1, <2>2, <2>3
<1>5. ASSUME NEW r \in reviews \cup {UnknownReview(d) : d \in Docs}, NEW c, Approve(r, c) PROVE Trail'
  <2>1. PICK event, key : event = "review.approved" /\ key = <<"review-approve", r.id>>
    OBVIOUS
  <2>2. Send(event, key, r.doc, c, r.quality) /\ Serve /\ UNCHANGED <<processed, kycRuns>>
    BY <1>5, <2>1 DEF Approve
  <2>3. event # Synced /\ event # Face /\ event # Extracted /\ key[1] = "review-approve"
    BY <2>1 DEF Synced, Face, Extracted
  <2> QED  BY <1>1, <2>2, <2>3
<1> QED  BY <1>2, <1>3, <1>4, <1>5 DEF Routes

\* A consumer sends the next event.
LEMMA ForwardTrail ==
    ASSUME IInv, Jobs', Trail, NEW j \in jobs, NEW event, NEW key,
           Publishes(j, Forward(j, event, key)), UNCHANGED <<processed, kycRuns, requests>>,
           event # Extracted,
           event = Approved => key = <<"review-approved", From(j)>>,
           event = Approved => j.client # None \/ OtherValidation(j.doc),
           event = Face => key = <<"face", From(j)>>,
           event = Synced => key[2] = j.doc,
           \A k \in jobs' : k.event = event /\ k.key = key /\ k.doc = j.doc /\ k.client = j.client =>
                            Follows(j.event, j.key, j.doc)'
    PROVE  Trail'
<1>1. PICK k : k = Message(From(j), event, key, j.doc, j.client, j.quality)  OBVIOUS
<1>2. PICK new : new = {k}  OBVIOUS
<1>3. /\ k.id = From(j) /\ k.event = event /\ k.key = key /\ k.doc = j.doc
      /\ k.client = j.client /\ k.at = "queued"
  BY <1>1 DEF Message
<1>4. jobs' = Becomes(j, "published", j.attempts) \cup new
  BY <1>1, <1>2 DEF Publishes, Forward
<1>5. \A i \in new : /\ i.id = From(j) /\ i.doc = j.doc /\ i.at = "queued" /\ Named(i)
                     /\ i.event = Approved /\ i.client = None => OtherValidation(i.doc)
  <2>1. Named(k)  BY <1>3 DEF Named
  <2>2. k.event = Approved /\ k.client = None => OtherValidation(k.doc)  BY <1>3
  <2> QED  BY <1>2, <1>3, <2>1, <2>2
<1>6. Follows(j.event, j.key, j.doc)'
  BY <1>2, <1>3, <1>4
<1>7. /\ Jobs /\ processed' = processed /\ requests' = requests
      /\ \A d \in Docs : kycRuns[d] > 0 => kycRuns'[d] > 0
  BY DEF IInv
<1>8. PICK at, n : at = "published" /\ n = j.attempts  OBVIOUS
<1>9. at # "done" /\ jobs' = Becomes(j, at, n) \cup new
  BY <1>4, <1>8
<1> QED  BY <1>5, <1>6, <1>7, <1>9, MoveTrail

LEMMA DeliverTrail ==
    ASSUME IInv, Jobs', Trail, NEW j \in jobs, Deliver(j) \/ FailsBefore(j) \/ FailsAfter(j)
    PROVE  Trail'
<1>1. Jobs /\ Records /\ JobOK(j) /\ Named(j)
  BY DEF IInv, Jobs, Trail
\* Steps that send nothing.
<1>2. ASSUME NEW at, NEW n, jobs' = Becomes(j, at, n), requests' = requests,
             \A d \in Docs : kycRuns[d] > 0 => kycRuns'[d] > 0,
             \/ processed' = processed
             \/ j.at = "published" /\ processed' = processed \cup {Scope(j)},
             at = "done" => Scope(j) \in processed',
             at = "published" => Follows(j.event, j.key, j.doc)'
      PROVE  Trail'
  <2>1. PICK new : new = {}  OBVIOUS
  <2>2. jobs' = Becomes(j, at, n) \cup new  BY <1>2, <2>1
  <2> QED  BY <1>1, <1>2, <2>1, <2>2, MoveTrail
<1>3. CASE ValidationConsumer(j)
  <2>1. PICK event, key : event = Reviewing /\ key = <<"validation", j.doc>>  OBVIOUS
  <2>2. /\ j.event = Extracted /\ Publishes(j, Forward(j, event, key))
        /\ UNCHANGED <<processed, kycRuns, requests>>
    BY <1>3, <2>1 DEF ValidationConsumer, Starts, Extracted, Reviewing
  <2>3. event # Extracted /\ event # Face /\ event # Approved /\ event # Synced
    BY <2>1 DEF Reviewing, Extracted, Face, Approved, Synced
  <2>4. ASSUME NEW k \in jobs', k.event = event, k.doc = j.doc
        PROVE  Follows(j.event, j.key, j.doc)'
    BY <2>1, <2>2, <2>4 DEF Follows, Extracted, Reviewing, Approved, Face, Synced
  <2> QED  BY <2>2, <2>3, <2>4, ForwardTrail
<1>4. CASE ReviewConsumer(j)
  <2>1. j.event = Reviewing /\ UNCHANGED <<processed, kycRuns, requests>>
    BY <1>4 DEF ReviewConsumer, Starts, Reviewing
  <2>2. PICK decision : decision = Decision(Score(j.quality), Valid(j.quality))  OBVIOUS
  <2>3. PICK event, key : event = Approved /\ key = <<"review-approved", From(j)>>  OBVIOUS
  <2>4. Publishes(j, IF decision = "approved" THEN Forward(j, event, key) ELSE {})
    BY <1>4, <2>2, <2>3 DEF ReviewConsumer, Approved
  <2>5. j.client = None \/ j.quality # "clean" => OtherValidation(j.doc)
    BY <2>1 DEF OtherValidation, Reviewing
  <2>6. CASE decision = "approved"
    <3>1. Publishes(j, Forward(j, event, key))  BY <2>4, <2>6
    <3>2. event # Extracted /\ event # Face /\ event # Synced /\ key[1] = "review-approved"
      BY <2>3 DEF Extracted, Face, Approved, Synced
    <3>3. ASSUME NEW k \in jobs', k.event = event, k.key = key, k.doc = j.doc, k.client = j.client
          PROVE  Follows(j.event, j.key, j.doc)'
      BY <2>1, <2>3, <3>2, <3>3 DEF Follows, Extracted, Reviewing, Approved, Face, Synced
    <3>4. /\ event # Extracted
          /\ event = Face => key = <<"face", From(j)>>
          /\ event = Approved => key = <<"review-approved", From(j)>>
          /\ event = Approved => j.client # None \/ OtherValidation(j.doc)
          /\ event = Synced => key[2] = j.doc
      BY <2>3, <2>5, <3>2
    <3> QED  BY <2>1, <3>1, <3>3, <3>4, ForwardTrail
  <2>7. CASE decision # "approved"
    <3>1. jobs' = Becomes(j, "published", j.attempts)
      BY <2>4, <2>7 DEF Publishes
    <3>2. j.quality # "clean"
      BY <2>2, <2>7 DEF Decision, Score, Valid
    <3>3. j.event = Reviewing /\ OtherValidation(j.doc)
      BY <2>1, <2>5, <3>2
    <3>4. OtherValidation(j.doc)'
      <4>1. PICK new : new = {}  OBVIOUS
      <4>2. jobs' = Becomes(j, "published", j.attempts) \cup new  BY <3>1, <4>1
      <4>3. PICK m : Moves(j, m, new)  BY <4>2, BecomesMoves
      <4>4. m \in jobs'  BY <4>3 DEF Moves
      <4> QED  BY <2>1, <3>2, <4>3, <4>4 DEF Moves, OtherValidation, Reviewing
    <3>5. Follows(j.event, j.key, j.doc)'
      BY <3>3, <3>4 DEF Follows, Extracted, Reviewing, Approved, Face, Synced
    <3> QED  BY <1>2, <2>1, <3>1, <3>5
  <2> QED  BY <2>6, <2>7
<1>5. CASE FaceConsumer(j)
  <2>1. PICK event, key : event = Face /\ key = <<"face", From(j)>>  OBVIOUS
  <2>2. /\ j.event = Approved /\ Publishes(j, Forward(j, event, key))
        /\ UNCHANGED <<processed, kycRuns, requests>>
    BY <1>5, <2>1 DEF FaceConsumer, Starts, Approved, Face
  <2>3. event # Extracted /\ event # Approved /\ event # Synced
    BY <2>1 DEF Extracted, Face, Approved, Synced
  <2>4. ASSUME NEW k \in jobs', k.event = event, k.doc = j.doc, k.client = j.client
        PROVE  Follows(j.event, j.key, j.doc)'
    <3>1. PICK new : new = Forward(j, event, key)  OBVIOUS
    <3>2. jobs' = Becomes(j, "published", j.attempts) \cup new  BY <2>2, <3>1 DEF Publishes
    <3>3. PICK m : Moves(j, m, new)  BY <3>2, BecomesMoves
    <3>4. Kept  BY <3>3 DEF Moves, Kept
    <3>5. OtherValidation(j.doc) => OtherValidation(j.doc)'
      BY <3>4 DEF Kept, OtherValidation
    <3>6. j.client = j.doc \/ j.key[1] # "review-approved" \/ OtherValidation(j.doc)
      BY <1>1, <2>2 DEF Trail, JobOK
    <3> QED  BY <2>1, <2>2, <2>4, <3>5, <3>6 DEF Follows, Extracted, Reviewing, Approved, Face, Synced
  <2> QED  BY <2>1, <2>2, <2>3, <2>4, ForwardTrail
<1>6. CASE CrmSyncConsumer(j)
  <2>1. PICK event, key : event = Synced /\ key = <<"crm-sync-completed", j.client, j.id>>  OBVIOUS
  <2>2. /\ j.event = Face /\ j.client # None /\ Publishes(j, Forward(j, event, key))
        /\ UNCHANGED <<processed, kycRuns, requests>>
    BY <1>6, <2>1 DEF CrmSyncConsumer, Starts, Synced, Face
  <2>3. event # Extracted /\ event # Approved /\ event # Face /\ key[2] = j.doc
    BY <1>1, <2>1, <2>2 DEF Extracted, Face, Approved, Synced, JobOK
  <2>4. ASSUME NEW k \in jobs', k.event = event, k.doc = j.doc
        PROVE  Follows(j.event, j.key, j.doc)'
    BY <2>1, <2>2, <2>4 DEF Follows, Extracted, Reviewing, Approved, Face, Synced
  <2> QED  BY <2>2, <2>3, <2>4, ForwardTrail
<1>7. CASE KycConsumer(j)
  <2>1. j.event = Synced /\ j.client = j.doc /\ j.doc \in Docs
    BY <1>1, <1>7 DEF KycConsumer, Starts, Synced, JobOK
  <2>2. /\ kycRuns' = [kycRuns EXCEPT ![j.doc] = @ + 1] /\ UNCHANGED <<processed, requests>>
        /\ jobs' = Becomes(j, "published", j.attempts)
    BY <1>7, <2>1 DEF KycConsumer, Publishes
  <2>3. kycRuns \in [Docs -> Nat]  BY <1>1 DEF Records
  <2>4. kycRuns'[j.doc] > 0 /\ \A d \in Docs : kycRuns[d] > 0 => kycRuns'[d] > 0
    BY <2>1, <2>2, <2>3
  <2>5. Follows(j.event, j.key, j.doc)'
    BY <2>1, <2>4 DEF Follows, Extracted, Reviewing, Approved, Face, Synced
  <2> QED  BY <1>2, <2>2, <2>4, <2>5
<1>8. CASE SkipDuplicate(j)
  BY <1>2, <1>8 DEF SkipDuplicate
<1>9. CASE MarkProcessed(j)
  BY <1>2, <1>9 DEF MarkProcessed
<1>10. CASE UnknownCustomer(j) \/ FailsBefore(j) \/ FailsAfter(j)
  <2>1. AttemptFails(j) /\ UNCHANGED <<processed, kycRuns, requests>>
    BY <1>10 DEF UnknownCustomer, FailsBefore, FailsAfter
  <2>2. PICK at, n : jobs' = Becomes(j, at, n) /\ at \in {"queued", "dead"}
    BY <2>1 DEF AttemptFails
  <2> QED  BY <1>2, <2>1, <2>2
<1> QED  BY <1>3, <1>4, <1>5, <1>6, <1>7, <1>8, <1>9, <1>10 DEF Deliver

LEMMA InitTrail == Init => Trail
  BY DEF Init, Trail, Rooted

LEMMA NextTrail == IInv /\ Trail /\ [Next]_vars => Trail'
<1> SUFFICES ASSUME IInv, Trail, [Next]_vars PROVE Trail'  OBVIOUS
<1>1. Jobs'  BY NextIInv DEF IInv
<1>2. CASE UNCHANGED vars
  BY <1>2 DEF vars, Trail, Rooted, Ran, Follows, OtherValidation, Scope
<1>3. CASE Routes
  BY <1>1, <1>3, RoutesTrail
<1>4. CASE \E j \in jobs : Deliver(j) \/ FailsBefore(j) \/ FailsAfter(j)
  BY <1>1, <1>4, DeliverTrail
<1> QED  BY <1>2, <1>3, <1>4 DEF Next

\* A clean document with a clientId that entered by OCR extraction was approved
\* by KYC, or still has a job that waits, runs or lies in the dead letters, or
\* another request was validated in its place.
NoneIsLost ==
    \A d \in Docs :
        CleanExtraction(d) => \/ kycRuns[d] > 0 \/ OtherValidation(d)
                              \/ \E j \in jobs : j.doc = d /\ j.client = d /\ j.at # "done"

LEMMA TrailLeadsOn ==
    ASSUME Jobs, Trail, NEW d \in Docs, CleanExtraction(d), ~OtherValidation(d),
           \A j \in jobs : j.doc = d /\ j.client = d => j.at = "done"
    PROVE  kycRuns[d] > 0
<1>1. ASSUME NEW j \in jobs, j.doc = d, j.client = d
      PROVE  Follows(j.event, j.key, d)
  BY <1>1 DEF Trail, Ran
<1>2. PICK j \in jobs : j.event = Extracted /\ j.doc = d /\ j.client = d
  BY DEF CleanExtraction, Extracted
<1>3. PICK k \in jobs : k.event = Reviewing /\ k.doc = d
  BY <1>1, <1>2 DEF Follows
<1>4. k.client = d
  BY <1>3 DEF OtherValidation, Jobs, JobOK, Reviewing
<1>5. PICK a \in jobs : a.event = Approved /\ a.doc = d /\ a.key[1] = "review-approved"
  BY <1>1, <1>3, <1>4 DEF Follows
<1>6. a.client = d
  BY <1>5 DEF Trail, Jobs, JobOK
<1>7. PICK f \in jobs : f.event = Face /\ f.doc = d /\ f.client = d
  BY <1>1, <1>5, <1>6 DEF Follows
<1>8. PICK s \in jobs : s.event = Synced /\ s.doc = d
  BY <1>1, <1>7 DEF Follows
<1>9. s.client = d
  BY <1>8 DEF Jobs, JobOK, Synced
<1> QED  BY <1>1, <1>8, <1>9 DEF Follows

\* No clean document is dropped on its way to KYC: not by a skipped duplicate,
\* not by a failed attempt, not by a request that took its key.
THEOREM NoDocumentIsLost == Spec => []NoneIsLost
<1>1. IInv /\ Trail => NoneIsLost
  BY TrailLeadsOn DEF IInv, NoneIsLost
<1>2. IInv /\ Trail /\ [Next]_vars => Trail'
  BY NextTrail
<1> QED  BY <1>1, <1>2, InitIInv, NextIInv, InitTrail, PTL DEF Spec
==============================================================================
