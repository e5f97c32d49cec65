--------------------------- MODULE DocumentReview ---------------------------
(***************************************************************************)
(* Processing of a document (OCR, validation checks, the decision that a   *)
(* person must look at it), the review queue with the actions of reviewers *)
(* and the chaser that escalates overdue items.  All of them are requests  *)
(* that interleave freely; every database call a handler awaits is a step, *)
(* a transaction is one.  Foreign keys are those of schema.prisma: deleting *)
(* an OCR result clears the references to it, and a row that refers to a   *)
(* missing one is refused, which ends the handler.                         *)
(***************************************************************************)
EXTENDS Naturals, FiniteSets, FiniteSetsExt

CONSTANTS
    Documents,
    Requests,   \* handlers that may run at once
    Readings,   \* what the OCR and the checks may make of a document
    MaxRuns,    \* bound on processings
    MaxActs,    \* bound on review actions
    MaxFaults   \* bound on calls that fail and handlers that stop

FieldNames == {"name", "dob", "address", "documentNumber", "documentExpiry", "issuedAt"}
Rules == {"name_match", "dob_match", "address_match", "document_expiry",
          "recency_check", "duplicate_detection"}

ASSUME ReviewAssumption ==
    /\ MaxRuns \in Nat /\ MaxActs \in Nat /\ MaxFaults \in Nat
    /\ Readings \subseteq [fields : SUBSET FieldNames, wrong : SUBSET Rules, checksum : BOOLEAN]

Runs == 1..MaxRuns
Statuses == {"pending", "assigned", "approved", "rejected", "escalated"}
Decisions == {"approve", "reject"}

VARIABLES
    document,  \* Document.status
    ocr,       \* the run whose OcrResult the document has, 0 for none
    checks,    \* per document, the runs it has ValidationResult rows of
    queue,     \* its ReviewQueue row: status, priority, OcrResult referred to
    overdue,   \* is the row's dueAt past?
    runs,      \* runs so far
    reading,   \* what each run read
    req,       \* per handler: the call it is about to make and what it knows
    acts,      \* ReviewAction rows written
    crossed,   \* documents two decisions overlapped on or one broke off (history)
    broken,    \* documents with overlapping or broken-off runs (history)
    faults

rows == <<document, ocr, checks, queue, overdue>>
vars == <<rows, runs, reading, req, acts, crossed, broken, faults>>

NoReading == [fields |-> {}, wrong |-> {}, checksum |-> FALSE]
NoItem == [status |-> "none", priority |-> "normal", ocr |-> 0]
Steps == {"idle", "store", "clear", "write", "queue", "audit", "decide", "escalate"}

TypeOK ==
    /\ document \in [Documents -> {"uploaded", "rejected"}]
    /\ ocr \in [Documents -> 0..MaxRuns]
    /\ checks \in [Documents -> SUBSET Runs]
    /\ queue \in [Documents ->
          [status : Statuses \cup {"none"}, priority : {"normal", "high"}, ocr : 0..MaxRuns]]
    /\ \A d \in Documents : queue[d].ocr \in {0, ocr[d]}
    /\ overdue \in SUBSET {d \in Documents : queue[d].status # "none"}
    /\ runs \in 0..MaxRuns
    /\ reading \in [Runs -> Readings \cup {NoReading}]
    /\ req \in [Requests ->
          [pc : Steps, on : SUBSET Documents, run : 0..MaxRuns,
           act : Decisions, late : SUBSET Documents]]
    /\ acts \in 0..MaxActs
    /\ crossed \in SUBSET Documents /\ broken \in SUBSET Documents
    /\ faults \in 0..MaxFaults

Doing(pc, on, run, act) == [pc |-> pc, on |-> on, run |-> run, act |-> act, late |-> {}]
Idle == Doing("idle", {}, 0, "approve")

Init ==
    /\ document = [d \in Documents |-> "uploaded"]
    /\ ocr = [d \in Documents |-> 0]
    /\ checks = [d \in Documents |-> {}]
    /\ queue = [d \in Documents |-> NoItem]
    /\ overdue = {}
    /\ runs = 0
    /\ reading = [n \in Runs |-> NoReading]
    /\ req = [r \in Requests |-> Idle]
    /\ acts = 0
    /\ crossed = {} /\ broken = {}
    /\ faults = 0

Fault == faults < MaxFaults /\ faults' = faults + 1
Go(r, next) == req' = [req EXCEPT ![r] = next]
Queued(d) == queue[d].status # "none"
Decided(d) == queue[d].status \in {"approved", "rejected"}
Processing == {"store", "clear", "write", "queue"}

-----------------------------------------------------------------------------
(* What a run finds.                                                       *)

ConfidenceOf == [name |-> 86, dob |-> 90, address |-> 78, documentNumber |-> 82,
                 documentExpiry |-> 88, issuedAt |-> 75]
FieldOf == [name_match |-> "name", dob_match |-> "dob", address_match |-> "address",
            document_expiry |-> "documentExpiry"]

\* The average of the fields' confidences, 0.35 without a field, against 0.7.
Confident(x) ==
    MapThenSumSet(LAMBDA f : ConfidenceOf[f], x.fields) > 70 * Cardinality(x.fields)

OcrStatus(x) == IF Confident(x) THEN "completed" ELSE "requires_review"

\* validateName ... validateDuplicate: a field or a checksum that is missing
\* leaves its rule to a person.
Undecidable(rule, x) ==
    \/ rule \in DOMAIN FieldOf /\ FieldOf[rule] \notin x.fields
    \/ rule = "duplicate_detection" /\ ~x.checksum

CheckStatus(rule, x) ==
    IF Undecidable(rule, x) THEN "needs_review"
    ELSE IF rule \in x.wrong THEN "failed" ELSE "passed"

NeedsIfCritical(x) == \E rule \in Rules : CheckStatus(rule, x) = "failed"
NeedsHumanReview(x) ==
    ~Confident(x) \/ \E rule \in Rules : CheckStatus(rule, x) # "passed"

Priority(x) ==
    IF \E rule \in Rules : CheckStatus(rule, x) = "failed" THEN "high" ELSE "normal"

-----------------------------------------------------------------------------
(* processUploadedDocument.                                                *)

OtherRunOn(r, d) == \E q \in Requests \ {r} : req[q].pc \in Processing /\ d \in req[q].on

\* findUnique and the extraction.
Process(r, d) ==
    /\ req[r].pc = "idle" /\ runs < MaxRuns
    /\ runs' = runs + 1
    /\ \E x \in Readings : reading' = [reading EXCEPT ![runs + 1] = x]
    /\ Go(r, Doing("store", {d}, runs + 1, "approve"))
    /\ broken' = IF OtherRunOn(r, d) THEN broken \cup {d} ELSE broken
    /\ UNCHANGED <<rows, acts, crossed, faults>>

\* $transaction: the old OcrResult goes, the new one comes.
StoreOcr(r, d) ==
    /\ req[r].pc = "store"
    /\ ocr' = [ocr EXCEPT ![d] = req[r].run]
    /\ queue' = [queue EXCEPT ![d] = [@ EXCEPT !.ocr = 0]]
    /\ Go(r, [req[r] EXCEPT !.pc = "clear"])
    /\ UNCHANGED <<document, checks, overdue, runs, reading, acts, crossed, broken, faults>>

ClearChecks(r, d) ==
    /\ req[r].pc = "clear"
    /\ checks' = [checks EXCEPT ![d] = {}]
    /\ Go(r, [req[r] EXCEPT !.pc = "write"])
    /\ UNCHANGED <<document, ocr, queue, overdue, runs, reading, acts, crossed, broken, faults>>

\* The row referred to must exist.
ReferAnything(r, d) == TRUE
Refers(r, d) == ocr[d] = req[r].run

WriteChecks(r, d) ==
    /\ req[r].pc = "write"
    /\ Refers(r, d)
    /\ checks' = [checks EXCEPT ![d] = @ \cup {req[r].run}]
    /\ Go(r, [req[r] EXCEPT !.pc = IF NeedsHumanReview(reading[req[r].run])
                                   THEN "queue" ELSE "audit"])
    /\ UNCHANGED <<document, ocr, queue, overdue, runs, reading, acts, crossed, broken, faults>>

\* ensureReviewQueue: an item there is opened again with a new deadline.
EnsureReviewQueue(r, d) ==
    /\ req[r].pc = "queue"
    /\ Refers(r, d)
    /\ queue' = [queue EXCEPT ![d] =
          [status |-> "pending", priority |-> Priority(reading[req[r].run]),
           ocr |-> req[r].run]]
    /\ overdue' = overdue \ {d}
    /\ Go(r, [req[r] EXCEPT !.pc = "audit"])
    /\ UNCHANGED <<document, ocr, checks, runs, reading, acts, crossed, broken, faults>>

\* A run that stored its result while this one was in its own transaction: the
\* row it created was not there to delete, and documentId is unique.
StoredMeanwhile(r, d) ==
    \E q \in Requests \ {r} : /\ req[q].pc \in Processing /\ d \in req[q].on
                              /\ req[q].run = ocr[d]

Refused(r, d) ==
    /\ \/ req[r].pc = "store" /\ StoredMeanwhile(r, d)
       \/ req[r].pc \in {"write", "queue"} /\ ~Refers(r, d)
    /\ Go(r, Idle)
    /\ UNCHANGED <<rows, runs, reading, acts, crossed, broken, faults>>

\* The audit entry and the answer.
Answer(r) ==
    /\ req[r].pc = "audit"
    /\ Go(r, Idle)
    /\ UNCHANGED <<rows, runs, reading, acts, crossed, broken, faults>>

-----------------------------------------------------------------------------
(* The actions of reviewers: no status forbids any of them.                *)

\* recordReviewAction: the item and its ReviewAction row in one transaction.
Record(d, item) ==
    /\ Queued(d) /\ acts < MaxActs
    /\ queue' = [queue EXCEPT ![d] = item]
    /\ acts' = acts + 1
    /\ UNCHANGED <<document, ocr, checks, overdue, runs, reading, broken, faults>>

\* assignReviewer, commentOnReview, escalateReview.
Assign(r, d) ==
    /\ req[r].pc = "idle"
    /\ Record(d, [queue[d] EXCEPT !.status = "assigned"])
    /\ Go(r, Idle) /\ UNCHANGED crossed

Comment(r, d) ==
    /\ req[r].pc = "idle"
    /\ Record(d, queue[d])
    /\ Go(r, Idle) /\ UNCHANGED crossed

Escalated(item) == [status |-> "escalated", priority |-> "high", ocr |-> item.ocr]

Escalate(r, d) ==
    /\ req[r].pc = "idle"
    /\ Record(d, Escalated(queue[d]))
    /\ Go(r, Idle) /\ UNCHANGED crossed

StatusOf(act) == IF act = "approve" THEN "approved" ELSE "rejected"

\* approveReview, rejectReview: the document is updated by a later call.
Decide(r, d, act) ==
    /\ req[r].pc = "idle"
    /\ Record(d, [queue[d] EXCEPT !.status = StatusOf(act)])
    /\ req' = [q \in Requests |->
          IF q = r THEN Doing("decide", {d}, 0, act)
          ELSE IF req[q].pc = "escalate" /\ d \in req[q].on
          THEN [req[q] EXCEPT !.late = @ \cup {d}]
          ELSE req[q]]
    /\ crossed' = IF \E q \in Requests \ {r} : req[q].pc = "decide" /\ d \in req[q].on
                  THEN crossed \cup {d} ELSE crossed

DocumentOf(act) == IF act = "approve" THEN "uploaded" ELSE "rejected"
DecideDocumentLate(r, d) ==
    /\ req[r].pc = "decide"
    /\ document' = [document EXCEPT ![d] =
          IF req[r].act = "reject" THEN "rejected" ELSE @]
    /\ Go(r, Idle)
    /\ UNCHANGED <<ocr, checks, queue, overdue, runs, reading, acts, crossed, broken, faults>>
DecideDocument(r, d) ==
    /\ req[r].pc = "decide"
    /\ document' = [document EXCEPT ![d] = DocumentOf(req[r].act)]
    /\ Go(r, Idle)
    /\ UNCHANGED <<ocr, checks, queue, overdue, runs, reading, acts, crossed, broken, faults>>

-----------------------------------------------------------------------------
(* sendEscalationEmails.                                                   *)

DueDatePasses(d) ==
    /\ Queued(d) /\ d \notin overdue
    /\ overdue' = overdue \cup {d}
    /\ UNCHANGED <<document, ocr, checks, queue, runs, reading, req, acts, crossed, broken, faults>>

StaleWhatever == overdue
Stale == {d \in overdue : queue[d].status \in {"pending", "assigned"}}

ListStale(r) ==
    /\ req[r].pc = "idle" /\ Stale # {}
    /\ Go(r, Doing("escalate", Stale, 0, "approve"))
    /\ UNCHANGED <<rows, runs, reading, acts, crossed, broken, faults>>

\* The item is updated as listed, whatever became of it since; then the e-mail
\* and the audit entry, the failure of which ends the loop.
EscalateListed(r, d) ==
    /\ req[r].pc = "escalate" /\ d \in req[r].on
    /\ queue' = [queue EXCEPT ![d] = Escalated(@)]
    /\ LET rest == req[r].on \ {d} IN
       \/ /\ Go(r, IF rest = {} THEN Idle ELSE [req[r] EXCEPT !.on = rest])
          /\ UNCHANGED faults
       \/ Fault /\ Go(r, Idle)
    /\ UNCHANGED <<document, ocr, checks, overdue, runs, reading, acts, crossed, broken>>

-----------------------------------------------------------------------------

\* The call the handler is about to make fails, or its gateway stops.
HandlerFails(r) ==
    /\ req[r].pc # "idle"
    /\ Fault
    /\ crossed' = IF req[r].pc = "decide" THEN crossed \cup req[r].on ELSE crossed
    /\ broken' = IF req[r].pc \in Processing THEN broken \cup req[r].on ELSE broken
    /\ Go(r, Idle)
    /\ UNCHANGED <<rows, runs, reading, acts>>

Advance(r, d) ==
    /\ d \in req[r].on
    /\ \/ StoreOcr(r, d) \/ ClearChecks(r, d) \/ WriteChecks(r, d)
       \/ EnsureReviewQueue(r, d) \/ Refused(r, d) \/ DecideDocument(r, d)
       \/ EscalateListed(r, d)

Review(r, d) ==
    \/ Assign(r, d) \/ Comment(r, d) \/ Escalate(r, d)
    \/ \E act \in Decisions : Decide(r, d, act)

Next ==
    \/ \E r \in Requests, d \in Documents : Process(r, d) \/ Review(r, d) \/ Advance(r, d)
    \/ \E r \in Requests : Answer(r) \/ ListStale(r) \/ HandlerFails(r)
    \/ \E d \in Documents : DueDatePasses(d)

Spec == Init /\ [][Next]_vars

-----------------------------------------------------------------------------
(* Properties.                                                             *)

Busy(d, steps) == \E r \in Requests : req[r].pc \in steps /\ d \in req[r].on

\* The document carries the decision its review item shows, unless two decisions
\* overlapped or one broke off between its two writes
\* (reviewQueue.service.ts:90-97, 106-116).
DocumentAgrees ==
    \A d \in Documents \ crossed : ~Busy(d, {"decide"}) =>
        /\ queue[d].status = "approved" => document[d] = "uploaded"
        /\ queue[d].status = "rejected" => document[d] = "rejected"

\* The checks a document has come from one run, however many ran at once: only
\* the run that stored its OCR result last can write, because the others refer
\* to a result that is gone (validationEngine.service.ts:48-61).
ChecksOfOneRun == \A d \in Documents : Cardinality(checks[d]) <= 1

\* Once its processing is over, a document has the checks of the OCR result it
\* shows, and is in the review queue under that result if the result is marked
\* for review or some check did not pass, unless runs overlapped or broke off
\* (document.processor.ts:35-84).
LatestRunIsComplete ==
    \A d \in Documents \ broken :
        ocr[d] # 0 /\ ~Busy(d, Processing) =>
            LET x == reading[ocr[d]] IN
            /\ checks[d] = {ocr[d]}
            /\ OcrStatus(x) = "requires_review" \/ (\E rule \in Rules : CheckStatus(rule, x) # "passed")
                  => queue[d].ocr = ocr[d]

\* The chaser overrides a decision only if it was taken after the chaser read
\* its list (chaserEmail.service.ts:67-79).
EscalationRespectsDecisions ==
    [][\A d \in Documents :
          Decided(d) /\ queue'[d].status = "escalated" /\ acts' = acts =>
              \E r \in Requests : d \in req[r].late]_vars
=============================================================================
