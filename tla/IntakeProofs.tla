---------------------------- MODULE IntakeProofs ----------------------------
(***************************************************************************)
(* Proofs about ClientIntake for any number of clients, documents,         *)
(* publications and failures.                                              *)
(***************************************************************************)
EXTENDS ClientIntake, FiniteSetTheorems, TLAPS

\* Publications are numbered without a gap and never change; who publishes
\* client.created names the CRM and the data room.
PubsInv ==
    /\ Published = 1..Cardinality(Published)
    /\ \A p \in Pubs \ Published, t \in Consumers : job[p][t] = "absent"
    /\ \A p \in Published :
          /\ pub[p].client \in Clients
          /\ IsDocument(p) => pub[p].doc \in Documents
          /\ \A t \in {"crm", "data-room"} : job[p][t] = "absent" => IsDocument(p)
    /\ \A p \in early : p \in Published /\ IsDocument(p)

\* What a handler relies on when it writes.
HandlerInv ==
    /\ \A p \in Published, t \in Consumers :
          job[p][t] = "ensured" =>
              IF IsDocument(p) /\ t = "crm" THEN TheClient(p) \in made["crm"]
              ELSE row[TheClient(p)] # "absent"
    /\ \A t \in Consumers : \A c \in made[t] : row[c] # "absent"
    /\ \A d \in Documents :
          /\ upload[d].client # None => row[upload[d].client] # "absent"
          /\ upload[d].at = "filed" => upload[d].client # None
    /\ \A x \in linked["crm"] : x[1] \in made["crm"]

Settled(p, t) == Done(p, t) \/ (t = "crm" /\ p \in early)

\* A mark, and a handler past its last write, stand for work that was done.
DoneInv ==
    /\ \A p \in Published, t \in Consumers : job[p][t] = "written" => Settled(p, t)
    /\ \A m \in processed : \E q \in Published : Key(q) = m[2] /\ Settled(q, m[1])
    /\ AcknowledgedIsDone
    /\ \A t \in {"crm", "data-room"} : \A c \in made[t] :
          \E p \in Published : ~IsDocument(p) /\ TheClient(p) = c

IInv == TypeOK /\ PubsInv /\ HandlerInv /\ DoneInv

-----------------------------------------------------------------------------
(* The initial state.                                                      *)

LEMMA NoneIsNew == None \notin Clients /\ None \notin Documents
  BY IntakeAssumption DEF Clients

LEMMA InitType == Init => TypeOK
<1> SUFFICES ASSUME Init PROVE TypeOK  OBVIOUS
<1> QED  BY IntakeAssumption DEF Init, TypeOK, NoPub, NoUpload, Routes, Consumers, Running

LEMMA InitInv == Init => IInv
<1> SUFFICES ASSUME Init PROVE IInv  OBVIOUS
<1>1. TypeOK  BY InitType
<1>2. Published = {}  BY DEF Init, Published, NoPub
<1>3. PubsInv
  <2>1. Cardinality(Published) = 0  BY <1>2, FS_EmptySet
  <2>2. 1..0 = {}  OBVIOUS
  <2> QED  BY <1>2, <2>1, <2>2 DEF Init, PubsInv
<1>4. HandlerInv  BY <1>2, NoneIsNew DEF Init, HandlerInv, NoUpload, Consumers
<1>5. DoneInv  BY <1>2 DEF Init, DoneInv, AcknowledgedIsDone, Consumers
<1> QED  BY <1>1, <1>3, <1>4, <1>5 DEF IInv

-----------------------------------------------------------------------------
(* Publishing.                                                             *)

\* The number of a new publication is new, and its envelope is added to those
\* there are.
LEMMA PublishAdds ==
    ASSUME TypeOK, PubsInv, NEW p \in Pubs, NEW via \in Routes, NEW c \in Clients,
           NEW d \in Documents \cup {None}, Publish(p, via, c, d)
    PROVE  /\ p \notin Published
           /\ Published' = Published \cup {p}
           /\ Published' = 1..Cardinality(Published')
           /\ pub'[p] = [via |-> via, client |-> c, doc |-> d]
           /\ \A q \in Published : pub'[q] = pub[q]
<1> DEFINE n == Cardinality(Published)
<1>1. Published = 1..n /\ p = n + 1 /\ IsFiniteSet(Published)
  <2>1. Published \subseteq 1..MaxPubs  BY DEF Published, Pubs
  <2>2. IsFiniteSet(1..MaxPubs)
    <3>1. 1 \in Int /\ MaxPubs \in Int  BY IntakeAssumption
    <3> QED  BY <3>1, FS_Interval
  <2>3. IsFiniteSet(Published)
    <3> HIDE DEF Published
    <3> QED  BY <2>1, <2>2, FS_Subset
  <2> QED  BY <2>3 DEF PubsInv, Publish
<1>2. n \in Nat  BY <1>1, FS_CardinalityType
<1>3. p \notin Published  BY <1>1, <1>2
<1>4. /\ pub'[p] = [via |-> via, client |-> c, doc |-> d]
      /\ \A q \in Pubs \ {p} : pub'[q] = pub[q]
  BY DEF Publish, TypeOK
<1>5. Published' = Published \cup {p}
  <2>1. pub'[p].client # None  BY <1>4, NoneIsNew
  <2> QED  BY <2>1, <1>4 DEF Published
<1>6. Published' = 1..(n + 1)  BY <1>1, <1>2, <1>5
<1>7. Cardinality(1..(n + 1)) = n + 1
  BY <1>2, FS_Interval
<1> QED  BY <1>3, <1>4, <1>5, <1>6, <1>7, <1>1 DEF Published

-----------------------------------------------------------------------------
(* Types.                                                                  *)

LEMMA KeyType ==
    ASSUME TypeOK, PubsInv, NEW p \in Published
    PROVE  Key(p) \in Routes \X (Clients \cup Documents)
  BY DEF TypeOK, PubsInv, Key, Published, IsDocument, TheClient

\* A job in any state but "absent" is a published one.
LEMMA JobIsPublished ==
    ASSUME PubsInv, NEW p \in Pubs, NEW t \in Consumers, job[p][t] # "absent"
    PROVE  p \in Published
  BY DEF PubsInv

\* A step of one job.
LEMMA GoType ==
    ASSUME TypeOK, NEW p \in Pubs, NEW t \in Consumers, NEW s, Go(p, t, s),
           s \in {"waiting", "done", "dead", "ensured", "written"}
    PROVE  /\ job' \in [Pubs -> [Consumers ->
                  {"absent", "lost", "waiting", "done", "dead"} \cup Running]]
           /\ job'[p][t] = s
           /\ \A q \in Pubs, u \in Consumers : <<q, u>> # <<p, t>> => job'[q][u] = job[q][u]
<1>1. job[p] \in [Consumers -> {"absent", "lost", "waiting", "done", "dead"} \cup Running]
  BY DEF TypeOK
<1>2. job' = [job EXCEPT ![p] = [job[p] EXCEPT ![t] = s]]  BY DEF Go
<1> QED  BY <1>1, <1>2 DEF TypeOK, Running

LEMMA PublishType ==
    ASSUME TypeOK, NEW p \in Pubs, NEW via \in Routes, NEW c \in Clients,
           NEW d \in Documents \cup {None}, Publish(p, via, c, d)
    PROVE  /\ pub' \in [Pubs -> [via : Routes, client : Clients \cup {None},
                                 doc : Documents \cup {None}]]
           /\ job' \in [Pubs -> [Consumers ->
                  {"absent", "lost", "waiting", "done", "dead"} \cup Running]]
           /\ faults' \in 0..MaxFaults
           /\ UNCHANGED <<row, made, linked, early, processed>>
<1>1. faults' \in 0..MaxFaults
  BY IntakeAssumption DEF Publish, TypeOK, Fault
<1>2. job' \in [Pubs -> [Consumers ->
                  {"absent", "lost", "waiting", "done", "dead"} \cup Running]]
  BY DEF Publish, TypeOK
<1>3. pub' \in [Pubs -> [via : Routes, client : Clients \cup {None},
                         doc : Documents \cup {None}]]
  BY DEF Publish, TypeOK
<1> QED  BY <1>1, <1>2, <1>3 DEF Publish, stores

LEMMA FaultType == ASSUME TypeOK, Fault PROVE faults' \in 0..MaxFaults
  BY IntakeAssumption DEF TypeOK, Fault

-----------------------------------------------------------------------------
(* A step is one of three: a route that has not published yet, a           *)
(* publication, or a step of one job.                                      *)

Queues == <<pub, job, processed, made, linked, early>>

RouteStep ==
    \/ \E c \in Clients : CreateClient(c) \/ CreateFails(c)
    \/ \E d \in Documents : UploadFails(d)
    \/ \E c \in Clients, d \in Documents : AddDocument(c, d)

PublishStep(p) ==
    \/ \E c \in Clients :
          PublishClient(p, c) \/ OnboardClient(p, c) \/ ClientCreatedEvent(p, c)
    \/ \E d \in Documents : PublishUpload(p, d)
    \/ \E c \in Clients, d \in Documents : DocumentUploadedEvent(p, c, d)

JobStep(p, t) == Consume(p, t) \/ HandlerFails(p, t) \/ Replay(p, t)

\* The part of a publication that the queues see.
Publishes(p) ==
    \E via \in Routes, c \in Clients, d \in Documents \cup {None} :
        /\ via = "document" => d \in Documents
        /\ Publish(p, via, c, d)

LEMMA StepCases ==
    ASSUME Next
    PROVE  \/ RouteStep
           \/ \E p \in Pubs : PublishStep(p)
           \/ \E p \in Pubs, t \in Consumers : JobStep(p, t)
  BY Zenon DEF Next, RouteStep, PublishStep, JobStep

LEMMA PublishStepPublishes ==
    ASSUME TypeOK, HandlerInv, NEW p \in Pubs, PublishStep(p)
    PROVE  /\ Publishes(p)
           /\ creating' \subseteq creating
           /\ upload' \in [Documents -> [at : {"none", "filed", "published", "abandoned"},
                                        client : Clients \cup {None}]]
           /\ \A e \in Documents :
                 /\ upload'[e].client = upload[e].client
                 /\ upload'[e].at = "filed" => upload[e].at = "filed"
<1>1. ASSUME NEW c \in Clients, PublishClient(p, c) \/ OnboardClient(p, c) \/ ClientCreatedEvent(p, c)
      PROVE  Publishes(p) /\ creating' \subseteq creating /\ upload' = upload
  BY <1>1 DEF PublishClient, OnboardClient, ClientCreatedEvent, Publishes, Routes
<1>2. ASSUME NEW c \in Clients, NEW d \in Documents, DocumentUploadedEvent(p, c, d)
      PROVE  Publishes(p) /\ creating' \subseteq creating /\ upload' = upload
  BY <1>2 DEF DocumentUploadedEvent, Publishes, Routes
<1>3. CASE UNCHANGED upload /\ Publishes(p) /\ creating' \subseteq creating
  BY <1>3 DEF TypeOK
<1>4. ASSUME NEW d \in Documents, PublishUpload(p, d)
      PROVE  /\ Publishes(p) /\ creating' = creating
             /\ upload' \in [Documents -> [at : {"none", "filed", "published", "abandoned"},
                                          client : Clients \cup {None}]]
             /\ \A e \in Documents :
                   /\ upload'[e].client = upload[e].client
                   /\ upload'[e].at = "filed" => upload[e].at = "filed"
  <2>1. PICK b : b = upload[d].client  OBVIOUS
  <2>2. b \in Clients  BY <1>4, <2>1 DEF PublishUpload, HandlerInv, TypeOK
  <2>3. Publish(p, "document", b, d)  BY <1>4, <2>1 DEF PublishUpload
  <2>4. upload' = [upload EXCEPT ![d] = [at |-> "published", client |-> b]]
    BY <1>4, <2>1 DEF PublishUpload
  <2>5. Publishes(p)  BY <2>2, <2>3 DEF Publishes, Routes
  <2>6. creating' = creating  BY <1>4 DEF PublishUpload
  <2> QED  BY <2>1, <2>2, <2>4, <2>5, <2>6 DEF TypeOK
<1> QED  BY <1>1, <1>2, <1>3, <1>4 DEF PublishStep

LEMMA RouteStepType ==
    ASSUME TypeOK, RouteStep
    PROVE  TypeOK' /\ UNCHANGED Queues /\ \A c \in Clients : row[c] # "absent" => row'[c] # "absent"
<1>1. ASSUME NEW c \in Clients, CreateClient(c)
      PROVE  TypeOK' /\ UNCHANGED Queues /\ \A b \in Clients : row[b] # "absent" => row'[b] # "absent"
  <2>1. /\ row' \in [Clients -> {"absent", "placeholder", "entered"}]
        /\ \A b \in Clients : row'[b] = IF b = c THEN "entered" ELSE row[b]
    BY <1>1 DEF CreateClient, TypeOK
  <2>2. creating' \in SUBSET {b \in Clients : row'[b] = "entered"}
    BY <1>1, <2>1 DEF CreateClient, TypeOK
  <2> QED  BY <1>1, <2>1, <2>2 DEF CreateClient, TypeOK, Queues
<1>2. ASSUME NEW c \in Clients, CreateFails(c)
      PROVE  TypeOK' /\ UNCHANGED <<Queues, row>>
  BY <1>2, FaultType DEF CreateFails, TypeOK, Queues, stores
<1>3. ASSUME NEW d \in Documents, UploadFails(d)
      PROVE  TypeOK' /\ UNCHANGED <<Queues, row>>
  <2>1. PICK b : b = upload[d].client  OBVIOUS
  <2>2. upload' = [upload EXCEPT ![d] = [at |-> "abandoned", client |-> b]] /\ b \in Clients \cup {None}
    BY <1>3, <2>1 DEF UploadFails, TypeOK
  <2>3. upload' \in [Documents -> [at : {"none", "filed", "published", "abandoned"},
                                  client : Clients \cup {None}]]
    BY <2>2 DEF TypeOK
  <2> QED  BY <1>3, <2>3, FaultType DEF UploadFails, TypeOK, Queues, stores
<1>4. ASSUME NEW c \in Clients, NEW d \in Documents, AddDocument(c, d)
      PROVE  TypeOK' /\ UNCHANGED <<Queues, row>>
  <2>1. upload' \in [Documents -> [at : {"none", "filed", "published", "abandoned"},
                                  client : Clients \cup {None}]]
    BY <1>4 DEF AddDocument, TypeOK
  <2> QED  BY <1>4, <2>1 DEF AddDocument, TypeOK, Queues, stores
<1> QED  BY <1>1, <1>2, <1>3, <1>4 DEF RouteStep

LEMMA PublishStepType ==
    ASSUME TypeOK, HandlerInv, NEW p \in Pubs, PublishStep(p)
    PROVE  TypeOK'
<1>1. PICK via \in Routes, c \in Clients, d \in Documents \cup {None} : Publish(p, via, c, d)
  BY PublishStepPublishes DEF Publishes
<1>2. /\ pub' \in [Pubs -> [via : Routes, client : Clients \cup {None},
                           doc : Documents \cup {None}]]
      /\ job' \in [Pubs -> [Consumers ->
                  {"absent", "lost", "waiting", "done", "dead"} \cup Running]]
      /\ faults' \in 0..MaxFaults
      /\ UNCHANGED <<row, made, linked, early, processed>>
  BY <1>1, PublishType
<1> QED  BY <1>2, PublishStepPublishes DEF TypeOK

LEMMA JobStepType ==
    ASSUME TypeOK, PubsInv, NEW p \in Pubs, NEW t \in Consumers, JobStep(p, t)
    PROVE  TypeOK' /\ UNCHANGED <<creating, upload, pub>>
           /\ \A c \in Clients : row[c] # "absent" => row'[c] # "absent"
<1>0. p \in Published /\ TheClient(p) \in Clients /\ (IsDocument(p) => pub[p].doc \in Documents)
  <2>1. p \in Published
    <3>1. job[p][t] # "absent" \/ job[p]["crm"] # "absent" \/ job[p]["onboarding"] # "absent"
      BY DEF JobStep, Consume, SkipDuplicate, EnsureClient, HandlerStarts, MakeRecord, RecordStep,
             FindRecord, Associate, MarkProcessed, HandlerFails, Replay, Running
    <3> QED  BY <3>1, JobIsPublished DEF Consumers
  <2> QED  BY <2>1 DEF PubsInv, TheClient
<1>1. CASE SkipDuplicate(p, t)
  BY <1>1, GoType DEF SkipDuplicate, TypeOK, Others, stores
<1>2. CASE EnsureClient(p, t)
  <2>1. /\ row' \in [Clients -> {"absent", "placeholder", "entered"}]
        /\ \A c \in Clients : row'[c] = row[c] \/ (row[c] = "absent" /\ row'[c] = "placeholder")
    BY <1>2, <1>0 DEF EnsureClient, UpsertClient, TypeOK
  <2>2. creating' \in SUBSET {c \in Clients : row'[c] = "entered"}
    BY <1>2, <2>1 DEF EnsureClient, TypeOK, Others
  <2> QED  BY <1>2, <2>1, <2>2, GoType DEF EnsureClient, TypeOK, Others
<1>3. CASE MakeRecord(p, t)
  <2>1. made' \in [Consumers -> SUBSET Clients]  BY <1>3, <1>0 DEF MakeRecord, TypeOK
  <2> QED  BY <1>3, <2>1, GoType DEF MakeRecord, TypeOK, Others
<1>4. CASE MarkProcessed(p, t)
  <2>1. Key(p) \in Routes \X (Clients \cup Documents)  BY <1>0, KeyType
  <2>2. processed' \in SUBSET (Consumers \X (Routes \X (Clients \cup Documents)))
    BY <1>4, <2>1 DEF MarkProcessed, TypeOK
  <2> QED  BY <1>4, <2>2, GoType DEF MarkProcessed, TypeOK, Others, stores
<1>5. CASE RecordStep(p)
  <2>1. made' \in [Consumers -> SUBSET Clients]
    BY <1>5, <1>0 DEF RecordStep, TypeOK, Consumers
  <2>2. linked' \in [Consumers -> SUBSET (Clients \X Documents)]
    BY <1>5, <1>0 DEF RecordStep, TypeOK, Consumers
  <2>3. "onboarding" \in Consumers  BY DEF Consumers
  <2> QED  BY <1>5, <2>1, <2>2, <2>3, GoType DEF RecordStep, TypeOK, Others
<1>6. CASE FindRecord(p)
  <2>1. "crm" \in Consumers  BY DEF Consumers
  <2> QED  BY <1>6, <2>1, GoType DEF FindRecord, TypeOK, Others
<1>7. CASE Associate(p)
  <2>1. linked' \in [Consumers -> SUBSET (Clients \X Documents)]
    BY <1>7, <1>0 DEF Associate, TypeOK, Consumers
  <2>2. "crm" \in Consumers  BY DEF Consumers
  <2> QED  BY <1>7, <2>1, <2>2, GoType DEF Associate, TypeOK, Others
<1>8. CASE HandlerFails(p, t)
  BY <1>8, GoType, FaultType DEF HandlerFails, TypeOK, Others, stores
<1>9. CASE Replay(p, t)
  BY <1>9, GoType DEF Replay, TypeOK, Others, stores
<1> QED  BY <1>1, <1>2, <1>3, <1>4, <1>5, <1>6, <1>7, <1>8, <1>9 DEF JobStep, Consume

-----------------------------------------------------------------------------
(* The order of publications, and what handlers rely on.                   *)

\* Whoever takes a step of a job takes it of a published one.
LEMMA JobStepPublished ==
    ASSUME PubsInv, NEW p \in Pubs, NEW t \in Consumers, JobStep(p, t)
    PROVE  p \in Published
<1>1. job[p][t] # "absent" \/ job[p]["crm"] # "absent" \/ job[p]["onboarding"] # "absent"
  BY DEF JobStep, Consume, SkipDuplicate, EnsureClient, HandlerStarts, MakeRecord, RecordStep,
         FindRecord, Associate, MarkProcessed, HandlerFails, Replay, Running
<1> QED  BY <1>1, JobIsPublished DEF Consumers

\* Records, associations and marks are only ever added; the step moves its own
\* job, and no job of a published event becomes absent again.
LEMMA JobStepGrows ==
    ASSUME TypeOK, PubsInv, NEW p \in Pubs, NEW t \in Consumers, JobStep(p, t)
    PROVE  /\ \A u \in Consumers : made[u] \subseteq made'[u] /\ linked[u] \subseteq linked'[u]
           /\ early \subseteq early' /\ \A q \in early' \ early : q = p /\ IsDocument(p)
           /\ processed \subseteq processed'
           /\ job'[p][t] # "absent"
           /\ \A q \in Pubs, u \in Consumers : <<q, u>> # <<p, t>> => job'[q][u] = job[q][u]
<1> "crm" \in Consumers /\ "onboarding" \in Consumers  BY DEF Consumers
<1>1. CASE SkipDuplicate(p, t)
  BY <1>1, GoType DEF SkipDuplicate, Others, stores
<1>2. CASE EnsureClient(p, t)
  BY <1>2, GoType DEF EnsureClient, Others
<1>3. CASE MakeRecord(p, t)
  BY <1>3, GoType DEF MakeRecord, TypeOK, Others
<1>4. CASE MarkProcessed(p, t)
  BY <1>4, GoType DEF MarkProcessed, Others, stores
<1>5. CASE t = "onboarding" /\ RecordStep(p)
  BY <1>5, GoType DEF RecordStep, TypeOK, Others
<1>6. CASE t = "crm" /\ FindRecord(p)
  BY <1>6, GoType DEF FindRecord, Others
<1>7. CASE t = "crm" /\ Associate(p)
  BY <1>7, GoType DEF Associate, TypeOK, Others
<1>8. CASE HandlerFails(p, t)
  BY <1>8, GoType DEF HandlerFails, stores
<1>9. CASE Replay(p, t)
  BY <1>9, GoType DEF Replay, stores
<1> QED  BY <1>1, <1>2, <1>3, <1>4, <1>5, <1>6, <1>7, <1>8, <1>9 DEF JobStep, Consume

LEMMA PubsStep == ASSUME IInv, Next PROVE PubsInv'
<1> USE DEF IInv
<1>1. CASE RouteStep
  <2>1. UNCHANGED Queues  BY <1>1, RouteStepType
  <2> QED  BY <2>1 DEF Queues, PubsInv, Published, IsDocument
<1>2. ASSUME NEW p \in Pubs, PublishStep(p) PROVE PubsInv'
  <2>1. PICK via \in Routes, c \in Clients, d \in Documents \cup {None} :
           (via = "document" => d \in Documents) /\ Publish(p, via, c, d)
    BY <1>2, PublishStepPublishes DEF Publishes
  <2>2. /\ p \notin Published /\ Published' = Published \cup {p}
        /\ Published' = 1..Cardinality(Published')
        /\ pub'[p] = [via |-> via, client |-> c, doc |-> d]
        /\ \A q \in Published : pub'[q] = pub[q]
    BY <2>1, PublishAdds
  <2>3. /\ \A q \in Pubs \ {p} : job'[q] = job[q]
        /\ \A t \in Targets(via) : job'[p][t] # "absent"
        /\ early' = early
    BY <2>1 DEF Publish, TypeOK, Targets, stores
  <2>4. \A q \in Published : IsDocument(q)' <=> IsDocument(q)
    BY <2>2 DEF IsDocument
  <2>5. IsDocument(p)' <=> via = "document"  BY <2>2 DEF IsDocument
  <2>6. \A q \in Published' :
          /\ pub'[q].client \in Clients
          /\ IsDocument(q)' => pub'[q].doc \in Documents
          /\ \A t \in {"crm", "data-room"} : job'[q][t] = "absent" => IsDocument(q)'
    <3>1. CASE via = "document"
      BY <2>1, <2>2, <2>3, <2>4, <2>5, <3>1 DEF PubsInv, Published
    <3>2. CASE via # "document"
      <4>1. {"crm", "data-room"} \subseteq Targets(via)
        BY <3>2 DEF Targets, Consumers
      <4> QED  BY <2>1, <2>2, <2>3, <2>4, <2>5, <3>2, <4>1 DEF PubsInv, Published
    <3> QED  BY <3>1, <3>2
  <2>7. \A q \in Pubs \ Published', t \in Consumers : job'[q][t] = "absent"
    <3> HIDE DEF Published
    <3> QED  BY <2>2, <2>3 DEF PubsInv
  <2>8. \A q \in early' : q \in Published' /\ IsDocument(q)'
    BY <2>2, <2>3, <2>4 DEF PubsInv
  <2> QED  BY <2>2, <2>6, <2>7, <2>8 DEF PubsInv
<1>3. ASSUME NEW p \in Pubs, NEW t \in Consumers, JobStep(p, t) PROVE PubsInv'
  <2>1. pub' = pub /\ Published' = Published
    BY <1>3, JobStepType DEF Published
  <2>2. \A q \in Pubs : IsDocument(q)' <=> IsDocument(q)  BY <2>1 DEF IsDocument
  <2>3. p \in Published  BY <1>3, JobStepPublished
  <2> QED  BY <1>3, <2>1, <2>2, <2>3, JobStepGrows DEF PubsInv, Published, Consumers
<1> QED  BY <1>1, <1>2, <1>3, StepCases

LEMMA HandlerStep == ASSUME IInv, Next PROVE HandlerInv'
<1> USE DEF IInv
<1>1. CASE RouteStep
  <2>1. /\ UNCHANGED Queues /\ \A c \in Clients : row[c] # "absent" => row'[c] # "absent"
        /\ Published' = Published
    BY <1>1, RouteStepType DEF Queues, Published
  <2>2. \A d \in Documents :
          /\ upload'[d].client # None => row'[upload'[d].client] # "absent"
          /\ upload'[d].at = "filed" => upload'[d].client # None
    <3>1. ASSUME NEW c \in Clients, CreateClient(c) \/ CreateFails(c) PROVE upload' = upload
      BY <3>1 DEF CreateClient, CreateFails
    <3>2. CASE upload' = upload  BY <2>1, <3>2 DEF HandlerInv, TypeOK
    <3>3. ASSUME NEW d \in Documents, UploadFails(d)
          PROVE  \A e \in Documents : /\ upload'[e].client = upload[e].client
                                      /\ upload'[e].at = "filed" => upload[e].at = "filed"
      <4>1. PICK b : b = upload[d].client  OBVIOUS
      <4>2. upload' = [upload EXCEPT ![d] = [at |-> "abandoned", client |-> b]]
        BY <3>3, <4>1 DEF UploadFails
      <4> QED  BY <4>1, <4>2 DEF TypeOK
    <3>4. ASSUME NEW c \in Clients, NEW d \in Documents, AddDocument(c, d)
          PROVE  \A e \in Documents : \/ upload'[e] = upload[e]
                                      \/ upload'[e].client = c /\ row[c] # "absent"
      BY <3>4 DEF AddDocument, TypeOK
    <3>5. CASE \E d \in Documents : UploadFails(d)
      BY <2>1, <3>3, <3>5 DEF HandlerInv, TypeOK
    <3>6. CASE \E c \in Clients, d \in Documents : AddDocument(c, d)
      BY <2>1, <3>4, <3>6, NoneIsNew DEF HandlerInv, TypeOK
    <3> QED  BY <1>1, <3>1, <3>2, <3>5, <3>6 DEF RouteStep
  <2> QED
    BY <2>1, <2>2 DEF Queues, HandlerInv, IsDocument, TheClient, PubsInv, TypeOK, Consumers
<1>2. ASSUME NEW p \in Pubs, PublishStep(p) PROVE HandlerInv'
  <2>1. PICK via \in Routes, c \in Clients, d \in Documents \cup {None} :
           (via = "document" => d \in Documents) /\ Publish(p, via, c, d)
    BY <1>2, PublishStepPublishes DEF Publishes
  <2>2. /\ Published' = Published \cup {p}
        /\ \A q \in Published : pub'[q] = pub[q]
        /\ p \notin Published
    BY <2>1, PublishAdds
  <2>3. /\ \A q \in Pubs \ {p} : job'[q] = job[q]
        /\ \A t \in Consumers : job'[p][t] # "ensured"
        /\ UNCHANGED <<row, made, linked>>
    BY <2>1 DEF Publish, TypeOK, stores
  <2>4. \A q \in Published : (IsDocument(q)' <=> IsDocument(q)) /\ TheClient(q)' = TheClient(q)
    BY <2>2 DEF IsDocument, TheClient
  <2>5. \A e \in Documents : /\ upload'[e].client = upload[e].client
                             /\ upload'[e].at = "filed" => upload[e].at = "filed"
    BY <1>2, PublishStepPublishes
  <2>6. Published \subseteq Pubs  BY DEF Published
  <2> QED  BY <2>2, <2>3, <2>4, <2>5, <2>6 DEF HandlerInv
<1>3. ASSUME NEW p \in Pubs, NEW t \in Consumers, JobStep(p, t) PROVE HandlerInv'
  <2>1. /\ pub' = pub /\ upload' = upload /\ Published' = Published
        /\ \A c \in Clients : row[c] # "absent" => row'[c] # "absent"
    BY <1>3, JobStepType DEF Published
  <2>2. p \in Published /\ TheClient(p) \in Clients
    BY <1>3, JobStepPublished DEF PubsInv, TheClient
  <2>3. \A q \in Pubs : (IsDocument(q)' <=> IsDocument(q)) /\ TheClient(q)' = TheClient(q)
    BY <2>1 DEF IsDocument, TheClient
  <2>4. job'[p][t] = "ensured" =>
          IF IsDocument(p) /\ t = "crm" THEN TheClient(p) \in made["crm"]
          ELSE row'[TheClient(p)] # "absent"
    <3> "crm" \in Consumers /\ "onboarding" \in Consumers  BY DEF Consumers
    <3>1. CASE EnsureClient(p, t)
      BY <3>1, <2>2 DEF EnsureClient, UpsertClient, TypeOK
    <3>2. CASE t = "crm" /\ FindRecord(p)
      BY <3>2, GoType DEF FindRecord
    <3>3. CASE SkipDuplicate(p, t) \/ MakeRecord(p, t) \/ MarkProcessed(p, t)
      BY <3>3, GoType DEF SkipDuplicate, MakeRecord, MarkProcessed
    <3>4. CASE (t = "onboarding" /\ RecordStep(p)) \/ (t = "crm" /\ Associate(p))
      BY <3>4, GoType DEF RecordStep, Associate
    <3>5. CASE HandlerFails(p, t) \/ Replay(p, t)
      BY <3>5, GoType DEF HandlerFails, Replay
    <3> QED  BY <1>3, <3>1, <3>2, <3>3, <3>4, <3>5 DEF JobStep, Consume
  <2>5. /\ \A u \in Consumers : \A c \in made'[u] : row'[c] # "absent"
        /\ \A x \in linked'["crm"] : x[1] \in made'["crm"]
    <3> "crm" \in Consumers /\ "onboarding" \in Consumers  BY DEF Consumers
    <3>1. CASE UNCHANGED <<made, linked>>
      BY <2>1, <3>1 DEF HandlerInv, TypeOK
    <3>2. CASE MakeRecord(p, t)
      BY <2>1, <2>2, <3>2 DEF MakeRecord, HandlerInv, TypeOK
    <3>3. CASE t = "onboarding" /\ RecordStep(p)
      BY <2>1, <2>2, <3>3 DEF RecordStep, HandlerInv, TypeOK
    <3>4. CASE t = "crm" /\ Associate(p)
      BY <2>1, <2>2, <3>4 DEF Associate, HandlerInv, TypeOK
    <3> QED
      BY <1>3, <3>1, <3>2, <3>3, <3>4 DEF JobStep, Consume, SkipDuplicate, EnsureClient, MarkProcessed,
         FindRecord, HandlerFails, Replay, stores
  <2>6. /\ \A q \in Pubs, u \in Consumers : <<q, u>> # <<p, t>> => job'[q][u] = job[q][u]
        /\ made["crm"] \subseteq made'["crm"]
    BY <1>3, JobStepGrows DEF Consumers
  <2>7. ASSUME NEW q \in Published, NEW u \in Consumers, job'[q][u] = "ensured"
        PROVE  IF IsDocument(q) /\ u = "crm" THEN TheClient(q) \in made'["crm"]
               ELSE row'[TheClient(q)] # "absent"
    <3>1. q \in Pubs /\ TheClient(q) \in Clients  BY DEF PubsInv, Published, TheClient
    <3>2. CASE q = p /\ u = t  BY <2>4, <2>6, <2>7, <3>2
    <3>3. CASE <<q, u>> # <<p, t>>
      BY <2>1, <2>6, <2>7, <3>1, <3>3 DEF HandlerInv
    <3> QED  BY <3>2, <3>3
  <2>8. \A d \in Documents :
          /\ upload'[d].client # None => row'[upload'[d].client] # "absent"
          /\ upload'[d].at = "filed" => upload'[d].client # None
    BY <2>1 DEF HandlerInv, TypeOK
  <2>9. Published \subseteq Pubs  BY DEF Published
  <2> QED  BY <2>1, <2>3, <2>5, <2>7, <2>8, <2>9 DEF HandlerInv
<1> QED  BY <1>1, <1>2, <1>3, StepCases

-----------------------------------------------------------------------------
(* What is done stays done.                                                *)

LEMMA Growth ==
    ASSUME IInv, Next
    PROVE  /\ Published \subseteq Published'
           /\ \A q \in Published : pub'[q] = pub[q]
           /\ \A u \in Consumers : made[u] \subseteq made'[u] /\ linked[u] \subseteq linked'[u]
           /\ early \subseteq early'
<1> USE DEF IInv
<1>1. CASE RouteStep
  BY <1>1, RouteStepType DEF Queues, Published
<1>2. ASSUME NEW p \in Pubs, PublishStep(p)
      PROVE  /\ Published \subseteq Published' /\ \A q \in Published : pub'[q] = pub[q]
             /\ UNCHANGED <<made, linked, early>>
  <2>1. PICK via \in Routes, c \in Clients, d \in Documents \cup {None} : Publish(p, via, c, d)
    BY <1>2, PublishStepPublishes DEF Publishes
  <2>2. Published' = Published \cup {p} /\ \A q \in Published : pub'[q] = pub[q]
    BY <2>1, PublishAdds
  <2>3. UNCHANGED <<made, linked, early>>  BY <2>1 DEF Publish, stores
  <2> QED  BY <2>2, <2>3
<1>3. ASSUME NEW p \in Pubs, NEW t \in Consumers, JobStep(p, t)
      PROVE  /\ Published \subseteq Published' /\ \A q \in Published : pub'[q] = pub[q]
             /\ \A u \in Consumers : made[u] \subseteq made'[u] /\ linked[u] \subseteq linked'[u]
             /\ early \subseteq early'
  BY <1>3, JobStepType, JobStepGrows DEF Published
<1> QED  BY <1>1, <1>2, <1>3, StepCases

LEMMA Persistence ==
    ASSUME IInv, Next, NEW q \in Published
    PROVE  /\ q \in Published' /\ Key(q)' = Key(q) /\ TheClient(q)' = TheClient(q)
           /\ IsDocument(q)' = IsDocument(q)
           /\ \A t \in Consumers : (Done(q, t) => Done(q, t)') /\ (Settled(q, t) => Settled(q, t)')
           /\ KeyTaken(q) => KeyTaken(q)'
           /\ TooEarly(q) => TooEarly(q)'
<1>1. /\ q \in Published'
      /\ \A r \in Published : /\ Key(r)' = Key(r) /\ TheClient(r)' = TheClient(r)
                             /\ IsDocument(r)' = IsDocument(r)
  BY Growth DEF Key, TheClient, IsDocument
<1>2. \A t \in Consumers : Done(q, t) => Done(q, t)'
  BY <1>1, Growth DEF Done
<1>3. \A t \in Consumers : Settled(q, t) => Settled(q, t)'
  BY <1>2, Growth DEF Settled
<1>4. KeyTaken(q) => KeyTaken(q)'
  BY <1>1, Growth DEF KeyTaken
<1>5. early \subseteq Published  BY DEF IInv, PubsInv
<1>6. TooEarly(q) => TooEarly(q)'
  BY <1>1, <1>5, Growth DEF TooEarly
<1> QED  BY <1>1, <1>2, <1>3, <1>4, <1>6

\* What is settled for one event is fulfilled for every event with its key.
LEMMA SameKey ==
    ASSUME NEW p \in Published, NEW q \in Published, NEW t \in Consumers,
           Key(p) = Key(q), Settled(q, t)
    PROVE  Fulfilled(p, t)
<1>1. IsDocument(p) = IsDocument(q)  BY DEF Key, IsDocument
<1>2. CASE TheClient(p) # TheClient(q)
  BY <1>2 DEF Fulfilled, KeyTaken
<1>3. CASE TheClient(p) = TheClient(q) /\ Done(q, t)
  BY <1>1, <1>3 DEF Fulfilled, Done, Key, IsDocument
<1>4. CASE t = "crm" /\ q \in early
  BY <1>4 DEF Fulfilled, TooEarly
<1> QED  BY <1>2, <1>3, <1>4 DEF Settled

\* Whatever job was written or done before still is what it claims.
LEMMA OthersStay ==
    ASSUME IInv, Next, NEW q \in Published, NEW t \in Consumers,
           job'[q][t] = job[q][t]
    PROVE  /\ job'[q][t] = "written" => Settled(q, t)'
           /\ job'[q][t] = "done" => Fulfilled(q, t)'
<1>1. job[q][t] = "written" => Settled(q, t)  BY DEF IInv, DoneInv
<1>2. job[q][t] = "done" => Fulfilled(q, t)  BY DEF IInv, DoneInv, AcknowledgedIsDone
<1>3. Fulfilled(q, t) => Fulfilled(q, t)'  BY Persistence DEF Fulfilled
<1> QED  BY <1>1, <1>2, <1>3, Persistence

\* The job of the step, after the step.
LEMMA OwnJob ==
    ASSUME IInv, NEW p \in Pubs, NEW t \in Consumers, JobStep(p, t), Next
    PROVE  /\ job'[p][t] = "written" => Settled(p, t)'
           /\ job'[p][t] = "done" => Fulfilled(p, t)'
<1> USE DEF IInv
<1> "crm" \in Consumers /\ "onboarding" \in Consumers  BY DEF Consumers
<1>0. p \in Published /\ TheClient(p)' = TheClient(p) /\ IsDocument(p)' = IsDocument(p) /\ pub' = pub
  BY JobStepPublished, Persistence, JobStepType
<1>1. CASE SkipDuplicate(p, t)
  <2>1. job'[p][t] = "done"  BY <1>1, GoType DEF SkipDuplicate
  <2>2. <<t, Key(p)>> \in processed  BY <1>1 DEF SkipDuplicate
  <2>3. PICK q \in Published : Key(q) = Key(p) /\ Settled(q, t)
    BY <2>2 DEF DoneInv
  <2>4. Fulfilled(p, t)  BY <1>0, <2>3, SameKey
  <2> QED  BY <1>0, <2>1, <2>4, Persistence DEF Fulfilled
<1>2. CASE EnsureClient(p, t)
  BY <1>2, GoType DEF EnsureClient
<1>3. CASE MakeRecord(p, t)
  <2>1. job'[p][t] = "written"  BY <1>3, GoType DEF MakeRecord
  <2>2. TheClient(p) \in made'[t] /\ ~IsDocument(p)  BY <1>3 DEF MakeRecord, TypeOK
  <2> QED  BY <1>0, <2>1, <2>2 DEF Settled, Done
<1>4. CASE MarkProcessed(p, t)
  <2>1. job'[p][t] = "done" /\ job[p][t] = "written"  BY <1>4, GoType DEF MarkProcessed
  <2>2. Settled(p, t)'  BY <1>0, <2>1, Persistence DEF DoneInv
  <2> QED  BY <2>1, <2>2 DEF Settled, Fulfilled, TooEarly
<1>5. CASE t = "onboarding" /\ RecordStep(p)
  <2>1. job'[p][t] = "written"  BY <1>5, GoType DEF RecordStep
  <2>2. <<TheClient(p), pub[p].doc>> \in linked'[t] /\ IsDocument(p)
    BY <1>5 DEF RecordStep, TypeOK
  <2> QED  BY <1>0, <2>1, <2>2 DEF Settled, Done
<1>6. CASE t = "crm" /\ FindRecord(p)
  BY <1>6, GoType DEF FindRecord, Settled
<1>7. CASE t = "crm" /\ Associate(p)
  <2>1. job'[p][t] = "written"  BY <1>7, GoType DEF Associate
  <2>2. <<TheClient(p), pub[p].doc>> \in linked'[t] /\ IsDocument(p)
    BY <1>7 DEF Associate, TypeOK
  <2> QED  BY <1>0, <2>1, <2>2 DEF Settled, Done
<1>8. CASE HandlerFails(p, t) \/ Replay(p, t)
  BY <1>8, GoType DEF HandlerFails, Replay
<1> QED  BY <1>1, <1>2, <1>3, <1>4, <1>5, <1>6, <1>7, <1>8 DEF JobStep, Consume

\* A mark is set for the job of the step, a record of the CRM or the data room
\* made for the client it names.
LEMMA MarksAndRecords ==
    ASSUME IInv, NEW p \in Pubs, NEW t \in Consumers, JobStep(p, t)
    PROVE  /\ \A m \in processed' \ processed : m = <<t, Key(p)>> /\ job[p][t] = "written"
           /\ \A u \in {"crm", "data-room"} : \A c \in made'[u] \ made[u] :
                 ~IsDocument(p) /\ TheClient(p) = c
<1> USE DEF IInv
<1>1. CASE MarkProcessed(p, t)
  BY <1>1 DEF MarkProcessed, stores
<1>2. CASE MakeRecord(p, t)
  BY <1>2 DEF MakeRecord, TypeOK, Others
<1>3. CASE RecordStep(p)
  BY <1>3 DEF RecordStep, TypeOK
<1>4. CASE UNCHANGED <<made, processed>>
  BY <1>4
<1> QED
  BY <1>1, <1>2, <1>3, <1>4 DEF JobStep, Consume, SkipDuplicate, EnsureClient, FindRecord, Associate,
     HandlerFails, Replay, stores

LEMMA DoneStep == ASSUME IInv, Next PROVE DoneInv'
<1>1. ASSUME \A q \in Published, t \in Consumers : job'[q][t] = job[q][t],
             \A q \in Published' \ Published, t \in Consumers : job'[q][t] \notin {"written", "done"},
             UNCHANGED <<processed, made>>
      PROVE  DoneInv'
  <2>1. \A q \in Published', t \in Consumers :
          /\ job'[q][t] = "written" => Settled(q, t)'
          /\ job'[q][t] = "done" => Fulfilled(q, t)'
    BY <1>1, OthersStay
  <2>2. \A m \in processed' : \E q \in Published' : Key(q)' = m[2] /\ Settled(q, m[1])'
    BY <1>1, Persistence DEF IInv, DoneInv, TypeOK
  <2>3. \A t \in {"crm", "data-room"} : \A c \in made'[t] :
          \E q \in Published' : ~IsDocument(q)' /\ TheClient(q)' = c
    BY <1>1, Persistence DEF IInv, DoneInv
  <2> QED  BY <2>1, <2>2, <2>3 DEF DoneInv, AcknowledgedIsDone
<1>2. CASE RouteStep
  <2>1. UNCHANGED Queues  BY <1>2, RouteStepType DEF IInv
  <2> QED  BY <1>1, <2>1 DEF Queues, Published
<1>3. ASSUME NEW p \in Pubs, PublishStep(p) PROVE DoneInv'
  <2>1. PICK via \in Routes, c \in Clients, d \in Documents \cup {None} : Publish(p, via, c, d)
    BY <1>3, PublishStepPublishes DEF Publishes, IInv
  <2>2. p \notin Published /\ Published' = Published \cup {p}
    BY <2>1, PublishAdds DEF IInv
  <2>3. /\ \A q \in Pubs \ {p} : job'[q] = job[q]
        /\ \A t \in Consumers : job'[p][t] \notin {"written", "done"}
        /\ UNCHANGED <<made, processed>>
    BY <2>1 DEF Publish, TypeOK, stores, IInv
  <2>4. Published \subseteq Pubs  BY DEF Published
  <2> QED  BY <1>1, <2>2, <2>3, <2>4
<1>4. ASSUME NEW p \in Pubs, NEW t \in Consumers, JobStep(p, t) PROVE DoneInv'
  <2>1. p \in Published /\ Published' = Published
    BY <1>4, JobStepPublished, JobStepType DEF IInv, Published
  <2>2. \A q \in Published, u \in Consumers :
          /\ job'[q][u] = "written" => Settled(q, u)'
          /\ job'[q][u] = "done" => Fulfilled(q, u)'
    <3>1. SUFFICES ASSUME NEW q \in Published, NEW u \in Consumers
                   PROVE  /\ job'[q][u] = "written" => Settled(q, u)'
                          /\ job'[q][u] = "done" => Fulfilled(q, u)'
      OBVIOUS
    <3>2. CASE q = p /\ u = t  BY <1>4, <3>2, OwnJob
    <3>3. CASE <<q, u>> # <<p, t>>
      <4>1. q \in Pubs  BY DEF Published
      <4>2. job'[q][u] = job[q][u]  BY <1>4, <3>3, <4>1, JobStepGrows DEF IInv
      <4> QED  BY <4>2, OthersStay
    <3> QED  BY <3>2, <3>3
  <2>3. \A m \in processed' : \E q \in Published' : Key(q)' = m[2] /\ Settled(q, m[1])'
    <3>1. SUFFICES ASSUME NEW m \in processed'
                   PROVE  \E q \in Published : Key(q)' = m[2] /\ Settled(q, m[1])'
      BY <2>1
    <3>2. CASE m \in processed
      <4>1. PICK q \in Published : Key(q) = m[2] /\ Settled(q, m[1])
        BY <3>2 DEF IInv, DoneInv
      <4>2. m[1] \in Consumers  BY <3>2 DEF IInv, TypeOK
      <4> QED  BY <4>1, <4>2, Persistence
    <3>3. CASE m \notin processed
      <4>1. m = <<t, Key(p)>> /\ job[p][t] = "written"  BY <1>4, <3>3, MarksAndRecords
      <4>2. Settled(p, t)  BY <2>1, <4>1 DEF IInv, DoneInv
      <4> QED  BY <2>1, <4>1, <4>2, Persistence
    <3> QED  BY <3>2, <3>3
  <2>4. \A u \in {"crm", "data-room"} : \A c \in made'[u] :
          \E q \in Published' : ~IsDocument(q)' /\ TheClient(q)' = c
    <3>1. SUFFICES ASSUME NEW u \in {"crm", "data-room"}, NEW c \in made'[u]
                   PROVE  \E q \in Published : ~IsDocument(q)' /\ TheClient(q)' = c
      BY <2>1
    <3>2. CASE c \in made[u]
      <4>1. PICK q \in Published : ~IsDocument(q) /\ TheClient(q) = c
        BY <3>2 DEF IInv, DoneInv
      <4> QED  BY <4>1, Persistence
    <3>3. CASE c \notin made[u]
      <4>1. ~IsDocument(p) /\ TheClient(p) = c  BY <1>4, <3>3, MarksAndRecords
      <4> QED  BY <2>1, <4>1, Persistence
    <3> QED  BY <3>2, <3>3
  <2> QED  BY <2>1, <2>2, <2>3, <2>4 DEF DoneInv, AcknowledgedIsDone
<1> QED  BY <1>2, <1>3, <1>4, StepCases

-----------------------------------------------------------------------------
(* The theorems.                                                           *)

LEMMA InvStep == IInv /\ [Next]_vars => IInv'
<1>1. ASSUME IInv, Next PROVE IInv'
  <2>1. TypeOK'
    <3>1. CASE RouteStep  BY <1>1, <3>1, RouteStepType DEF IInv
    <3>2. ASSUME NEW p \in Pubs, PublishStep(p) PROVE TypeOK'
      BY <1>1, <3>2, PublishStepType DEF IInv
    <3>3. ASSUME NEW p \in Pubs, NEW t \in Consumers, JobStep(p, t) PROVE TypeOK'
      BY <1>1, <3>3, JobStepType DEF IInv
    <3> QED  BY <1>1, <3>1, <3>2, <3>3, StepCases
  <2> QED  BY <1>1, <2>1, PubsStep, HandlerStep, DoneStep DEF IInv
<1>2. ASSUME IInv, UNCHANGED vars PROVE IInv'
  BY <1>2 DEF IInv, vars, stores, TypeOK, PubsInv, HandlerInv, DoneInv, Published, IsDocument,
     TheClient, Settled, Done, Key, AcknowledgedIsDone, Fulfilled, KeyTaken, TooEarly
<1> QED  BY <1>1, <1>2

THEOREM IntakeInvariant == Spec => []IInv
  BY InitInv, InvStep, PTL DEF Spec

\* Every variable keeps its type; in particular each publication has its own
\* number and each mark is the key of a published event.
THEOREM IntakeTypes == Spec => []TypeOK
<1>1. IInv => TypeOK  BY DEF IInv
<1> QED  BY <1>1, IntakeInvariant, PTL

\* A consumer acknowledges an event only if what it asks is done, for any number
\* of clients, of documents and of publications that share keys, and any failures.
THEOREM AcknowledgedStaysDone == Spec => []AcknowledgedIsDone
<1>1. IInv => AcknowledgedIsDone  BY DEF IInv, DoneInv
<1> QED  BY <1>1, IntakeInvariant, PTL

\* No consumer makes a record of a client without a Client row, whichever of
\* them handles which event first.
THEOREM RecordsKeepClients == Spec => []RecordsHaveClients
<1>1. IInv => RecordsHaveClients
  BY DEF IInv, TypeOK, HandlerInv, RecordsHaveClients
<1> QED  BY <1>1, IntakeInvariant, PTL

\* CRM and data room diverge only over a client.created event that is pending,
\* dead-lettered or was refused by one of their queues.
THEOREM DivergenceIsAccounted == Spec => []NoSilentDivergence
<1>1. ASSUME IInv PROVE NoSilentDivergence
  <2>1. SUFFICES ASSUME NEW t \in {"crm", "data-room"}, NEW u \in {"crm", "data-room"},
                        NEW c \in made[t] \ made[u]
                 PROVE  \E p \in Published : /\ ~IsDocument(p) /\ TheClient(p) = c
                                             /\ job[p][u] \notin {"absent", "done"}
    BY DEF NoSilentDivergence
  <2>2. PICK p \in Published : ~IsDocument(p) /\ TheClient(p) = c
    BY <1>1 DEF IInv, DoneInv
  <2>3. job[p][u] # "absent"  BY <1>1, <2>2 DEF IInv, PubsInv
  <2>4. job[p][u] # "done"
    <3>1. SUFFICES ASSUME job[p][u] = "done" PROVE FALSE  OBVIOUS
    <3>2. Fulfilled(p, u)
      BY <1>1, <3>1 DEF IInv, DoneInv, AcknowledgedIsDone, Consumers
    <3>3. ~Done(p, u)  BY <2>2 DEF Done
    <3>4. ~KeyTaken(p)  BY <2>2 DEF KeyTaken, Key, IsDocument, TheClient
    <3>5. ~TooEarly(p)
      BY <1>1, <2>2 DEF IInv, PubsInv, TooEarly, Key, IsDocument
    <3> QED  BY <3>2, <3>3, <3>4, <3>5 DEF Fulfilled
  <2> QED  BY <2>2, <2>3, <2>4
<1> QED  BY <1>1, IntakeInvariant, PTL

\* What the dashboard entered about a client is never replaced by placeholders.
THEOREM DetailsAreKept == Spec => DetailsSurvive
<1> DEFINE Kept == \A c \in Clients : row[c] = "entered" => row'[c] = "entered"
<1>1. ASSUME IInv, Next PROVE Kept
  <2>1. ASSUME NEW c \in Clients, CreateClient(c) PROVE Kept
    BY <1>1, <2>1 DEF CreateClient, IInv, TypeOK
  <2>2. CASE UNCHANGED row  BY <2>2
  <2>3. ASSUME NEW p \in Pubs, PublishStep(p) PROVE UNCHANGED row
    <3>1. PICK via \in Routes, c \in Clients, d \in Documents \cup {None} : Publish(p, via, c, d)
      BY <1>1, <2>3, PublishStepPublishes DEF Publishes, IInv
    <3> QED  BY <3>1 DEF Publish, stores
  <2>4. ASSUME NEW p \in Pubs, NEW t \in Consumers, EnsureClient(p, t) PROVE Kept
    <3>1. PICK b : b = TheClient(p)  OBVIOUS
    <3>2. row' = [row EXCEPT ![b] = IF row[b] = "absent" THEN "placeholder" ELSE row[b]]
      BY <2>4, <3>1 DEF EnsureClient, UpsertClient
    <3> QED  BY <1>1, <3>2 DEF IInv, TypeOK
  <2>5. ASSUME NEW p \in Pubs, NEW t \in Consumers, JobStep(p, t), ~EnsureClient(p, t)
        PROVE  UNCHANGED row
    BY <2>5 DEF JobStep, Consume, SkipDuplicate, MakeRecord, MarkProcessed, RecordStep, FindRecord,
       Associate, HandlerFails, Replay, stores
  <2>6. CASE RouteStep
    BY <2>1, <2>2, <2>6 DEF RouteStep, CreateFails, UploadFails, AddDocument, stores
  <2> QED  BY <1>1, <2>2, <2>3, <2>4, <2>5, <2>6, StepCases
<1>2. UNCHANGED vars => Kept  BY DEF vars, stores
<1>3. IInv /\ [Next]_vars => [Kept]_vars  BY <1>1, <1>2
<1> QED  BY <1>3, IntakeInvariant, PTL DEF Spec, DetailsSurvive

-----------------------------------------------------------------------------
(* No target of an accepted publication goes without.                      *)

TargetsInv ==
    \A p \in Published : \A t \in Targets(pub[p].via) : job[p][t] # "absent"

\* Each target of an accepted publication is served, or has a job that waits,
\* runs or can be replayed.
NoneIsLeftOut ==
    \A p \in Pubs : Accepted(p) =>
        \A t \in Targets(pub[p].via) :
            job[p][t] \in {"waiting", "dead"} \cup Running \/ Fulfilled(p, t)

LEMMA TargetsStep == IInv /\ TargetsInv /\ [Next]_vars => TargetsInv'
<1> SUFFICES ASSUME IInv, TargetsInv, [Next]_vars PROVE TargetsInv'  OBVIOUS
<1>1. TypeOK /\ PubsInv /\ HandlerInv  BY DEF IInv
<1>2. ASSUME UNCHANGED <<pub, job>> PROVE TargetsInv'
  BY <1>2 DEF TargetsInv, Published
<1>3. CASE UNCHANGED vars
  BY <1>2, <1>3 DEF vars
<1>4. CASE RouteStep
  <2>1. UNCHANGED Queues  BY <1>1, <1>4, RouteStepType
  <2> QED  BY <1>2, <2>1 DEF Queues
<1>5. ASSUME NEW p \in Pubs, PublishStep(p) PROVE TargetsInv'
  <2>1. PICK via \in Routes, c \in Clients, d \in Documents \cup {None} : Publish(p, via, c, d)
    BY <1>1, <1>5, PublishStepPublishes DEF Publishes
  <2>2. /\ p \notin Published /\ Published' = Published \cup {p}
        /\ pub'[p].via = via /\ \A q \in Published : pub'[q] = pub[q]
    <3>1. /\ p \notin Published /\ Published' = Published \cup {p}
          /\ pub'[p] = [via |-> via, client |-> c, doc |-> d]
          /\ \A q \in Published : pub'[q] = pub[q]
      BY <1>1, <2>1, PublishAdds
    <3> QED  BY <3>1
  <2>3. \A q \in Published : job'[q] = job[q]
    BY <1>1, <2>1, <2>2 DEF Publish, TypeOK, Published
  <2>4. \A t \in Targets(via) : job'[p][t] # "absent"
    <3>1. PICK added \in SUBSET Targets(via) :
             job' = [job EXCEPT ![p] = [t \in Consumers |->
                        IF t \in added THEN "waiting"
                        ELSE IF t \in Targets(via) THEN "lost" ELSE "absent"]]
      BY <2>1 DEF Publish
    <3>2. Targets(via) \subseteq Consumers  BY DEF Targets
    <3>3. \A t \in Targets(via) : job'[p][t] = IF t \in added THEN "waiting" ELSE "lost"
      BY <1>1, <3>1, <3>2 DEF TypeOK
    <3> QED  BY <3>3
  <2> QED  BY <2>2, <2>3, <2>4 DEF TargetsInv
<1>6. ASSUME NEW p \in Pubs, NEW t \in Consumers, JobStep(p, t) PROVE TargetsInv'
  <2>1. pub' = pub  BY <1>1, <1>6, JobStepType
  <2>2. \A q \in Pubs, u \in Consumers : job[q][u] # "absent" => job'[q][u] # "absent"
    BY <1>1, <1>6, JobStepGrows
  <2>3. \A q \in Published : q \in Pubs /\ Targets(pub[q].via) \subseteq Consumers
    BY DEF Published, Targets
  <2>4. Published' = Published  BY <2>1 DEF Published
  <2> QED  BY <2>1, <2>2, <2>3, <2>4 DEF TargetsInv
<1> QED  BY <1>3, <1>4, <1>5, <1>6, StepCases

\* The safety under AcceptedReachesAll, true whatever is scheduled: no accepted
\* event is dropped on the way to a consumer its publisher names.
THEOREM AcceptedIsNeverDropped == Spec => []NoneIsLeftOut
<1>1. Init => TargetsInv
  <2>1. Init => Published = {}  BY DEF Init, Published, NoPub
  <2> QED  BY <2>1 DEF TargetsInv
<1>2. IInv /\ TargetsInv => NoneIsLeftOut
  <2> SUFFICES ASSUME IInv, TargetsInv, NEW p \in Pubs, Accepted(p),
                      NEW t \in Targets(pub[p].via)
               PROVE  job[p][t] \in {"waiting", "dead"} \cup Running \/ Fulfilled(p, t)
    BY DEF NoneIsLeftOut
  <2>1. t \in Consumers /\ p \in Published  BY DEF Targets, Accepted
  <2>2. job[p][t] \in {"absent", "lost", "waiting", "done", "dead"} \cup Running
    BY <2>1 DEF IInv, TypeOK
  <2>3. job[p][t] # "absent" /\ job[p][t] # "lost"
    BY <2>1 DEF TargetsInv, Accepted
  <2>4. job[p][t] = "done" => Fulfilled(p, t)
    BY <2>1 DEF IInv, DoneInv, AcknowledgedIsDone
  <2> QED  BY <2>2, <2>3, <2>4
<1> QED  BY <1>1, <1>2, TargetsStep, IntakeInvariant, InitInv, InvStep, PTL DEF Spec
==============================================================================
