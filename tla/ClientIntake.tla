---------------------------- MODULE ClientIntake ----------------------------
(***************************************************************************)
(* How a client and its documents enter the system: the four routes and    *)
(* the workflow that publish client.created and document.uploaded, the     *)
(* fan-out of each publication to one queue per consumer, and the handlers *)
(* of the CRM, data-room and onboarding consumers, each of which makes its *)
(* own record of the client.                                               *)
(*                                                                         *)
(* A queue keeps the promise of DeliveryContract, which EventDelivery      *)
(* shows the subscriber to implement: a job runs until its handler         *)
(* succeeded for its idempotency key or it is dead-lettered.  Handlers and *)
(* handler calls interleave freely, also over gateways and workers.        *)
(***************************************************************************)
EXTENDS Naturals, FiniteSets

CONSTANTS
    MaxClients,  \* bound on client ids ever used
    Documents,   \* document ids
    MaxPubs,     \* bound on publications, those a route is preparing included
    MaxFaults,   \* bound on failed calls, crashes and replays' causes
    None

ASSUME IntakeAssumption ==
    /\ MaxClients \in Nat /\ MaxPubs \in Nat /\ MaxFaults \in Nat
    /\ None \notin Nat \cup Documents

Clients == 1..MaxClients  \* numbered in the order of their first use
Pubs == 1..MaxPubs
Consumers == {"crm", "data-room", "onboarding"}
Routes == {"dashboard", "workflow", "event", "document"}

VARIABLES
    row,       \* the Client row of each client: absent, a placeholder or entered
    creating,  \* clients POST /api/clients has a row for but no event yet
    upload,    \* how far each document of the upload route has come
    pub,       \* the envelopes published
    job,       \* per publication and consumer, the state of the job
    processed, \* idempotency keys each consumer has marked
    made,      \* clients each consumer has its record for
    linked,    \* <<client, document>> each consumer has recorded
    early,     \* document events the CRM took before it had the client (history)
    faults

stores == <<row, made, linked, early>>
vars == <<stores, creating, upload, pub, job, processed, faults>>

NoPub == [via |-> "document", client |-> None, doc |-> None]
NoUpload == [at |-> "none", client |-> None]
Running == {"ensured", "written"}

TypeOK ==
    /\ row \in [Clients -> {"absent", "placeholder", "entered"}]
    /\ creating \in SUBSET {c \in Clients : row[c] = "entered"}
    /\ upload \in [Documents -> [at : {"none", "filed", "published", "abandoned"},
                                 client : Clients \cup {None}]]
    /\ pub \in [Pubs -> [via : Routes, client : Clients \cup {None},
                         doc : Documents \cup {None}]]
    /\ job \in [Pubs -> [Consumers ->
                  {"absent", "lost", "waiting", "done", "dead"} \cup Running]]
    /\ processed \in SUBSET (Consumers \X (Routes \X (Clients \cup Documents)))
    /\ made \in [Consumers -> SUBSET Clients]
    /\ linked \in [Consumers -> SUBSET (Clients \X Documents)]
    /\ early \in SUBSET Pubs
    /\ faults \in 0..MaxFaults

Init ==
    /\ row = [c \in Clients |-> "absent"]
    /\ creating = {}
    /\ upload = [d \in Documents |-> NoUpload]
    /\ pub = [p \in Pubs |-> NoPub]
    /\ job = [p \in Pubs |-> [t \in Consumers |-> "absent"]]
    /\ processed = {}
    /\ made = [t \in Consumers |-> {}]
    /\ linked = [t \in Consumers |-> {}]
    /\ early = {}
    /\ faults = 0

Fault == faults < MaxFaults /\ faults' = faults + 1
Published == {p \in Pubs : pub[p].client # None}
IsDocument(p) == pub[p].via = "document"
TheClient(p) == pub[p].client

\* Ids made with randomUUID; a caller may name one of those or one of its own.
Unused(c) == row[c] = "absent" /\ \A p \in Pubs : pub[p].client # c
NewClient(c) == c = Cardinality({b \in Clients : ~Unused(b)}) + 1
AnyClient(c) == ~Unused(c) \/ NewClient(c)
NewDocument(d) == upload[d] = NoUpload /\ \A p \in Pubs : pub[p].doc # d

Preparing == creating \cup {d \in Documents : upload[d].at = "filed"}
Room == Cardinality(Published) + Cardinality(Preparing) < MaxPubs

\* The targets each publisher names.
TargetsWithoutRoom(via) ==
    {t \in Consumers : /\ via = "document" => t # "data-room"
                       /\ via = "event" => t = "crm"}
Targets(via) ==
    {t \in Consumers : /\ via = "document" => t # "data-room"
                       /\ via = "event" => t # "onboarding"}

\* Scope of the idempotency keys: `client-created-${id}`, `client-created${id}`,
\* `client.created:${id}` and, for both document routes, `document-uploaded-${id}`.
Key(p) == <<pub[p].via, IF IsDocument(p) THEN pub[p].doc ELSE pub[p].client>>

-----------------------------------------------------------------------------
(* Publishing.                                                             *)

\* The adds of Promise.all: one that fails rejects the call, the others are not
\* taken back.  An add that is late is a job fetched late.
Publish(p, via, c, d) ==
    /\ p = Cardinality(Published) + 1
    /\ pub' = [pub EXCEPT ![p] = [via |-> via, client |-> c, doc |-> d]]
    /\ \E added \in SUBSET Targets(via) :
          /\ job' = [job EXCEPT ![p] = [t \in Consumers |->
                IF t \in added THEN "waiting"
                ELSE IF t \in Targets(via) THEN "lost" ELSE "absent"]]
          /\ IF added = Targets(via) THEN UNCHANGED faults ELSE Fault
    /\ UNCHANGED <<stores, processed>>

\* POST /api/clients: createClient, then audit and publish.
CreateClient(c) ==
    /\ Room /\ NewClient(c)
    /\ row' = [row EXCEPT ![c] = "entered"]
    /\ creating' = creating \cup {c}
    /\ UNCHANGED <<made, linked, early, upload, pub, job, processed, faults>>

PublishClient(p, c) ==
    /\ c \in creating
    /\ creating' = creating \ {c}
    /\ Publish(p, "dashboard", c, None)
    /\ UNCHANGED upload

\* The audit entry fails or the gateway stops: the row stays without its event.
CreateFails(c) ==
    /\ c \in creating
    /\ Fault
    /\ creating' = creating \ {c}
    /\ UNCHANGED <<stores, upload, pub, job, processed>>

\* OnboardClientWorkflow.execute.
OnboardClient(p, c) ==
    /\ Room /\ NewClient(c)
    /\ Publish(p, "workflow", c, None)
    /\ UNCHANGED <<creating, upload>>

\* POST /api/events/client-created, with the caller's id or a new one.
ClientCreatedEvent(p, c) ==
    /\ Room /\ AnyClient(c)
    /\ Publish(p, "event", c, None)
    /\ UNCHANGED <<creating, upload>>

\* POST /api/events/document-uploaded: neither client nor document is looked up.
DocumentUploadedEvent(p, c, d) ==
    /\ Room /\ AnyClient(c)
    /\ Publish(p, "document", c, d)
    /\ UNCHANGED <<creating, upload>>

\* POST /api/onboarding/:clientId/documents/upload: addDocument stores the file
\* and creates the Document row; audit and publish follow.
AddDocument(c, d) ==
    /\ Room /\ row[c] # "absent" /\ NewDocument(d)
    /\ upload' = [upload EXCEPT ![d] = [at |-> "filed", client |-> c]]
    /\ UNCHANGED <<stores, creating, pub, job, processed, faults>>

PublishUpload(p, d) ==
    /\ upload[d].at = "filed"
    /\ upload' = [upload EXCEPT ![d] = [at |-> "published", client |-> upload[d].client]]
    /\ Publish(p, "document", upload[d].client, d)
    /\ UNCHANGED creating

UploadFails(d) ==
    /\ upload[d].at = "filed"
    /\ Fault
    /\ upload' = [upload EXCEPT ![d] = [at |-> "abandoned", client |-> upload[d].client]]
    /\ UNCHANGED <<stores, creating, pub, job, processed>>

-----------------------------------------------------------------------------
(* Consuming.                                                              *)

Go(p, t, state) == job' = [job EXCEPT ![p] = [@ EXCEPT ![t] = state]]
Others == <<creating, upload, pub>>

\* A key that is being processed is deferred, which leaves the job where it is.
HandlerStarts(p, t) ==
    /\ job[p][t] = "waiting"
    /\ <<t, Key(p)>> \notin processed
    /\ \A q \in Published : Key(q) = Key(p) => job[q][t] \notin Running

\* A processed key is acknowledged without the handler.
SkipDuplicate(p, t) ==
    /\ job[p][t] = "waiting"
    /\ <<t, Key(p)>> \in processed
    /\ Go(p, t, "done")
    /\ UNCHANGED <<stores, Others, processed, faults>>

\* ensureEventClient, ensureClientFromCreatedEvent, ensureClientFromDocumentEvent:
\* an upsert whose update is empty, the handler's first call.
UpsertClient(c) == row' = [row EXCEPT ![c] = IF @ = "absent" THEN "placeholder" ELSE @]

EnsureAndMark(p, t) ==
    /\ HandlerStarts(p, t)
    /\ ~(IsDocument(p) /\ t = "crm")
    /\ UpsertClient(TheClient(p))
    /\ processed' = processed \cup {<<t, Key(p)>>}
    /\ Go(p, t, "ensured")
    /\ UNCHANGED <<made, linked, early, Others, faults>>
EnsureClient(p, t) ==
    /\ HandlerStarts(p, t)
    /\ ~(IsDocument(p) /\ t = "crm")
    /\ UpsertClient(TheClient(p))
    /\ Go(p, t, "ensured")
    /\ UNCHANGED <<made, linked, early, Others, processed, faults>>

\* createCrmRecord, provisionDataRoom, initializeOnboardingState: the upsert.
MakeRecord(p, t) ==
    /\ job[p][t] = "ensured" /\ ~IsDocument(p)
    /\ made' = [made EXCEPT ![t] = @ \cup {TheClient(p)}]
    /\ Go(p, t, "written")
    /\ UNCHANGED <<row, linked, early, Others, processed, faults>>

\* updateOnboardingProgress: the row is made if need be, the step recorded.
RecordStep(p) ==
    /\ job[p]["onboarding"] = "ensured" /\ IsDocument(p)
    /\ made' = [made EXCEPT !["onboarding"] = @ \cup {TheClient(p)}]
    /\ linked' = [linked EXCEPT !["onboarding"] = @ \cup {<<TheClient(p), pub[p].doc>>}]
    /\ Go(p, "onboarding", "written")
    /\ UNCHANGED <<row, early, Others, processed, faults>>

\* associateCrmDocument: findUnique; without a record it returns.
FindRecord(p) ==
    /\ HandlerStarts(p, "crm") /\ IsDocument(p)
    /\ IF TheClient(p) \in made["crm"]
       THEN Go(p, "crm", "ensured") /\ UNCHANGED early
       ELSE Go(p, "crm", "written") /\ early' = early \cup {p}
    /\ UNCHANGED <<row, made, linked, Others, processed, faults>>

Associate(p) ==
    /\ job[p]["crm"] = "ensured" /\ IsDocument(p)
    /\ linked' = [linked EXCEPT !["crm"] = @ \cup {<<TheClient(p), pub[p].doc>>}]
    /\ Go(p, "crm", "written")
    /\ UNCHANGED <<row, made, early, Others, processed, faults>>

MarkEverywhere(p, t) ==
    /\ job[p][t] = "written"
    /\ processed' = processed \cup {<<u, Key(p)>> : u \in Consumers}
    /\ Go(p, t, "done")
    /\ UNCHANGED <<stores, Others, faults>>
MarkProcessed(p, t) ==
    /\ job[p][t] = "written"
    /\ processed' = processed \cup {<<t, Key(p)>>}
    /\ Go(p, t, "done")
    /\ UNCHANGED <<stores, Others, faults>>

\* The call the handler is about to make fails, or its worker stops: the job is
\* tried again, or dead-lettered after its last attempt.
HandlerFails(p, t) ==
    /\ job[p][t] \in Running
    /\ Fault
    /\ Go(p, t, "waiting") \/ Go(p, t, "dead")
    /\ UNCHANGED <<stores, Others, processed>>

\* POST /api/events/replay: QueueManager.replayJob as one step. Its three calls (get
\* the entry, add the copy, remove the entry) and what may come between them are
\* the Replay actions of module EventDelivery.
Replay(p, t) ==
    /\ job[p][t] = "dead"
    /\ Go(p, t, "waiting")
    /\ UNCHANGED <<stores, Others, processed, faults>>

-----------------------------------------------------------------------------

Consume(p, t) ==
    \/ SkipDuplicate(p, t) \/ EnsureClient(p, t) \/ MakeRecord(p, t) \/ MarkProcessed(p, t)
    \/ t = "onboarding" /\ RecordStep(p)
    \/ t = "crm" /\ (FindRecord(p) \/ Associate(p))

Next ==
    \/ \E c \in Clients : CreateClient(c) \/ CreateFails(c)
    \/ \E d \in Documents : UploadFails(d)
    \/ \E c \in Clients, d \in Documents : AddDocument(c, d)
    \/ \E p \in Pubs, c \in Clients :
          PublishClient(p, c) \/ OnboardClient(p, c) \/ ClientCreatedEvent(p, c)
    \/ \E p \in Pubs, d \in Documents : PublishUpload(p, d)
    \/ \E p \in Pubs, c \in Clients, d \in Documents : DocumentUploadedEvent(p, c, d)
    \/ \E p \in Pubs, t \in Consumers : Consume(p, t) \/ HandlerFails(p, t) \/ Replay(p, t)

Spec == Init /\ [][Next]_vars
Consuming == \E p \in Pubs, t \in Consumers : Consume(p, t)
FairSpec == Spec /\ WF_vars(Consuming)

-----------------------------------------------------------------------------
(* Properties.                                                             *)

\* What a publication asks of a consumer is done.
Done(p, t) ==
    IF IsDocument(p) THEN <<TheClient(p), pub[p].doc>> \in linked[t]
    ELSE TheClient(p) \in made[t]

\* The same document was published for another client: its key is taken.
KeyTaken(p) == \E q \in Published : Key(q) = Key(p) /\ TheClient(q) # TheClient(p)

\* Some publication of the document found no CRM record and used up its key.
TooEarly(p) == \E q \in early : Key(q) = Key(p)

\* ... or it was taken too early, or for another client.
Fulfilled(p, t) == Done(p, t) \/ KeyTaken(p) \/ (t = "crm" /\ TooEarly(p))

\* A consumer acknowledges an event only if what it asks is done, by this event
\* or by another with its key, whatever failed and was retried in between.  The
\* exceptions are a document the CRM took before the client and a document id
\* published for two clients (eventSubscriber.ts:161-195, crmState.service.ts:71-74).
AcknowledgedIsDone ==
    \A p \in Published, t \in Consumers : job[p][t] = "done" => Fulfilled(p, t)

\* No record without its Client row, which the schema's foreign keys demand.
RecordsHaveClients ==
    /\ \A c \in Clients : (\E t \in Consumers : c \in made[t]) => row[c] # "absent"
    /\ \A d \in Documents : upload[d].client # None => row[upload[d].client] # "absent"
    /\ \A x \in linked["crm"] : x[1] \in made["crm"]

\* CRM and data room know the same clients, up to events that are on their way,
\* dead-lettered or refused by a queue while another took them (Promise.all,
\* eventPublisher.ts:60-67).
NoSilentDivergence ==
    \A t \in {"crm", "data-room"}, u \in {"crm", "data-room"} :
        \A c \in made[t] \ made[u] :
            \E p \in Published : /\ ~IsDocument(p) /\ TheClient(p) = c
                                 /\ job[p][u] \notin {"absent", "done"}

\* What the dashboard entered about a client is never replaced by the
\* placeholders of an event, whichever consumer comes first.
DetailsSurvive == [][\A c \in Clients : row[c] = "entered" => row'[c] = "entered"]_vars

Accepted(p) == p \in Published /\ \A t \in Consumers : job[p][t] # "lost"

\* An accepted publication, be it the second attempt after one that reached only
\* some queues, ends at every target as it should, unless it is dead-lettered.
AcceptedReachesAll ==
    \A p \in Pubs : Accepted(p) ~>
        \A t \in Targets(pub[p].via) : job[p][t] = "dead" \/ Fulfilled(p, t)
=============================================================================
