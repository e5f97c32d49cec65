---------------------------- MODULE ReviewProofs ----------------------------
(***************************************************************************)
(* Proofs about DocumentReview for any documents, handlers and readings    *)
(* and any number of runs, review actions and failures.                    *)
(***************************************************************************)
EXTENDS DocumentReview, FiniteSetTheorems, TLAPS

\* A run and a decision concern one document; runs in progress have numbers of
\* their own, and no document an OCR result of a run to come.
HandlerInv ==
    /\ \A r \in Requests : req[r].pc \in Processing \cup {"decide"} =>
          \A d, e \in req[r].on : d = e
    /\ \A r \in Requests : req[r].pc \in Processing => req[r].run \in 1..runs
    /\ \A r, q \in Requests :
          req[r].pc \in Processing /\ req[q].pc \in Processing /\ r # q =>
             req[r].run # req[q].run
    /\ \A d \in Documents : ocr[d] <= runs

\* A document has the checks of one run, and none while the run that may write
\* them has not.
CheckInv ==
    /\ \A d \in Documents : \A m, n \in checks[d] : m = n
    /\ \A r \in Requests : req[r].pc = "write" =>
          \A d \in req[r].on : ocr[d] = req[r].run => checks[d] = {}

\* What a run has done at each of its steps, where runs do not overlap.
Complete(d) ==
    /\ checks[d] = {ocr[d]}
    /\ NeedsHumanReview(reading[ocr[d]]) => queue[d].ocr = ocr[d]

LatestInv ==
    \A d \in Documents \ broken :
       /\ \A r, q \in Requests :
             req[r].pc \in Processing /\ req[q].pc \in Processing
             /\ d \in req[r].on \cap req[q].on => r = q
       /\ \A r \in Requests : d \in req[r].on =>
             /\ req[r].pc \in {"clear", "write", "queue"} => ocr[d] = req[r].run
             /\ req[r].pc = "write" => checks[d] = {}
             /\ req[r].pc = "queue" => checks[d] = {req[r].run}
       /\ ocr[d] # 0 /\ ~Busy(d, Processing) => Complete(d)

\* A decision that is under way is the one the item shows, if it shows any.
DecisionInv ==
    \A d \in Documents \ crossed :
       /\ \A r, q \in Requests :
             req[r].pc = "decide" /\ req[q].pc = "decide"
             /\ d \in req[r].on \cap req[q].on => r = q
       /\ \A r \in Requests : req[r].pc = "decide" /\ d \in req[r].on /\ Decided(d) =>
             queue[d].status = StatusOf(req[r].act)

\* An item on the chaser's list that is decided was decided since.
LateInv ==
    \A r \in Requests : req[r].pc = "escalate" =>
       \A d \in req[r].on : Decided(d) => d \in req[r].late

-----------------------------------------------------------------------------
(* Types.                                                                  *)

Handlers == [pc : Steps, on : SUBSET Documents, run : 0..MaxRuns,
             act : Decisions, late : SUBSET Documents]
Items == [status : Statuses \cup {"none"}, priority : {"normal", "high"}, ocr : 0..MaxRuns]

LEMMA InitInv == Init => TypeOK /\ HandlerInv /\ CheckInv /\ LatestInv /\ DecisionInv /\ LateInv
<1> SUFFICES ASSUME Init
             PROVE  TypeOK /\ HandlerInv /\ CheckInv /\ LatestInv /\ DecisionInv /\ LateInv
  OBVIOUS
<1>1. 0 \in 0..MaxRuns /\ 0 \in 0..MaxActs /\ 0 \in 0..MaxFaults
  BY ReviewAssumption
<1>2. Idle \in Handlers /\ NoItem \in Items
  BY <1>1 DEF Idle, Doing, Handlers, Items, NoItem, Steps, Decisions, Statuses
<1>3. TypeOK  BY <1>1, <1>2 DEF Init, TypeOK, Handlers, Items, NoItem
<1>4. \A r \in Requests : req[r].pc = "idle"  BY DEF Init, Idle, Doing
<1>5. \A d \in Documents : ocr[d] = 0 /\ checks[d] = {}  BY DEF Init
<1>6. runs = 0  BY DEF Init
<1>7. HandlerInv  BY <1>4, <1>5, <1>6 DEF HandlerInv, Processing
<1>8. CheckInv  BY <1>4, <1>5 DEF CheckInv
<1>9. LatestInv  BY <1>4, <1>5 DEF LatestInv, Processing
<1>10. DecisionInv /\ LateInv  BY <1>4 DEF DecisionInv, LateInv
<1> QED  BY <1>3, <1>7, <1>8, <1>9, <1>10

LEMMA GoType ==
    ASSUME TypeOK, NEW r \in Requests, NEW next \in Handlers, Go(r, next)
    PROVE  /\ req' \in [Requests -> Handlers] /\ req'[r] = next
           /\ \A q \in Requests \ {r} : req'[q] = req[q]
  BY DEF Go, TypeOK, Handlers

\* A handler goes on to its next step with what it knows.
LEMMA GoStep ==
    ASSUME TypeOK, NEW r \in Requests, NEW s \in Steps, Go(r, [req[r] EXCEPT !.pc = s])
    PROVE  /\ req' \in [Requests -> Handlers]
           /\ req'[r].pc = s /\ req'[r].on = req[r].on /\ req'[r].run = req[r].run
           /\ req'[r].act = req[r].act /\ req'[r].late = req[r].late
           /\ \A q \in Requests \ {r} : req'[q] = req[q]
<1>1. req[r] \in Handlers  BY DEF TypeOK, Handlers
<1>2. /\ [req[r] EXCEPT !.pc = s] \in Handlers
      /\ [req[r] EXCEPT !.pc = s].pc = s /\ [req[r] EXCEPT !.pc = s].on = req[r].on
      /\ [req[r] EXCEPT !.pc = s].run = req[r].run
      /\ [req[r] EXCEPT !.pc = s].act = req[r].act
      /\ [req[r] EXCEPT !.pc = s].late = req[r].late
  BY <1>1 DEF Handlers
<1> QED  BY <1>2, GoType

LEMMA IdleType == Idle \in Handlers /\ Idle.pc = "idle" /\ Idle.on = {}
  BY ReviewAssumption DEF Idle, Doing, Handlers, Steps, Decisions

LEMMA StatusType ==
    ASSUME TypeOK, NEW d \in Documents, NEW status \in Statuses
    PROVE  /\ [queue[d] EXCEPT !.status = status] \in Items
           /\ [queue[d] EXCEPT !.status = status].status = status
           /\ [queue[d] EXCEPT !.status = status].ocr = queue[d].ocr
<1>1. queue[d] \in Items  BY DEF TypeOK, Items
<1> QED  BY <1>1 DEF Items

LEMMA StepTypes == ASSUME TypeOK, HandlerInv, [Next]_vars PROVE TypeOK'
<1> USE DEF Handlers, Items
<1>1. ASSUME NEW r \in Requests, NEW d \in Documents, Process(r, d) PROVE TypeOK'
  <2>1. runs + 1 \in 1..MaxRuns /\ runs + 1 \in 0..MaxRuns
    BY <1>1, ReviewAssumption DEF Process, TypeOK
  <2>2. Doing("store", {d}, runs + 1, "approve") \in Handlers
    BY <2>1 DEF Doing, Steps, Decisions
  <2>3. req' \in [Requests -> Handlers]  BY <1>1, <2>2, GoType DEF Process
  <2>4. reading' \in [Runs -> Readings \cup {NoReading}]
    BY <1>1, <2>1 DEF Process, TypeOK, Runs
  <2>5. broken' \in SUBSET Documents  BY <1>1 DEF Process, TypeOK
  <2> QED  BY <1>1, <2>1, <2>3, <2>4, <2>5 DEF Process, TypeOK, rows
<1>2. ASSUME NEW r \in Requests, NEW d \in Documents, StoreOcr(r, d) PROVE TypeOK'
  <2>1. req' \in [Requests -> Handlers]
    BY <1>2, GoStep DEF StoreOcr, Steps
  <2>2. ocr' \in [Documents -> 0..MaxRuns] /\ ocr'[d] = req[r].run
    BY <1>2 DEF StoreOcr, TypeOK
  <2>3. queue' \in [Documents -> Items]
        /\ (\A e \in Documents : queue'[e].status = queue[e].status
                              /\ (e # d => queue'[e] = queue[e]))
        /\ queue'[d].ocr = 0
    <3>1. queue[d] \in Items  BY DEF TypeOK, Items
    <3>2. PICK item : item = [queue[d] EXCEPT !.ocr = 0]  OBVIOUS
    <3>3. item \in Items /\ item.ocr = 0 /\ item.status = queue[d].status
      BY <3>1, <3>2, ReviewAssumption DEF Items
    <3>4. queue' = [queue EXCEPT ![d] = item]  BY <1>2, <3>2 DEF StoreOcr
    <3> QED  BY <3>3, <3>4 DEF TypeOK, Items
  <2>4. \A e \in Documents : queue'[e].ocr \in {0, ocr'[e]}
    BY <1>2, <2>3 DEF StoreOcr, TypeOK
  <2>5. overdue' \in SUBSET {e \in Documents : queue'[e].status # "none"}
    BY <1>2, <2>3 DEF StoreOcr, TypeOK
  <2> QED  BY <1>2, <2>1, <2>2, <2>3, <2>4, <2>5 DEF StoreOcr, TypeOK
<1>3. ASSUME NEW r \in Requests, NEW d \in Documents, ClearChecks(r, d) PROVE TypeOK'
  <2>1. req' \in [Requests -> Handlers]
    BY <1>3, GoStep DEF ClearChecks, Steps
  <2> QED  BY <1>3, <2>1 DEF ClearChecks, TypeOK
<1>4. ASSUME NEW r \in Requests, NEW d \in Documents, WriteChecks(r, d) PROVE TypeOK'
  <2>1. req' \in [Requests -> Handlers]
    BY <1>4, GoStep DEF WriteChecks, Steps
  <2>2. req[r].run \in Runs
    BY <1>4, ReviewAssumption DEF WriteChecks, HandlerInv, Processing, TypeOK, Runs
  <2>3. checks' \in [Documents -> SUBSET Runs]
    BY <1>4, <2>2 DEF WriteChecks, TypeOK
  <2> QED  BY <1>4, <2>1, <2>3 DEF WriteChecks, TypeOK
<1>5. ASSUME NEW r \in Requests, NEW d \in Documents, EnsureReviewQueue(r, d) PROVE TypeOK'
  <2>1. req' \in [Requests -> Handlers]
    BY <1>5, GoStep DEF EnsureReviewQueue, Steps
  <2>2. [status |-> "pending", priority |-> Priority(reading[req[r].run]),
         ocr |-> req[r].run] \in Items
    BY DEF TypeOK, Priority, Statuses
  <2>3. queue' \in [Documents -> Items] /\ queue'[d].ocr = req[r].run
        /\ queue'[d].status = "pending"
        /\ \A e \in Documents \ {d} : queue'[e] = queue[e]
    BY <1>5, <2>2 DEF EnsureReviewQueue, TypeOK
  <2>4. \A e \in Documents : queue'[e].ocr \in {0, ocr'[e]}
    BY <1>5, <2>3 DEF EnsureReviewQueue, Refers, TypeOK
  <2>5. overdue' \in SUBSET {e \in Documents : queue'[e].status # "none"}
    BY <1>5, <2>3 DEF EnsureReviewQueue, TypeOK
  <2> QED  BY <1>5, <2>1, <2>3, <2>4, <2>5 DEF EnsureReviewQueue, TypeOK
<1>6. ASSUME NEW r \in Requests, Go(r, Idle),
             UNCHANGED <<rows, runs, reading, acts, crossed, broken, faults>>
      PROVE  TypeOK'
  BY <1>6, GoType, IdleType DEF TypeOK, rows
<1>7. ASSUME NEW d \in Documents, NEW item \in Items, Record(d, item), item.ocr = queue[d].ocr,
             item.status # "none", req' \in [Requests -> Handlers], crossed' \in SUBSET Documents
      PROVE  TypeOK'
  <2>1. queue' \in [Documents -> Items] /\ queue'[d].ocr = queue[d].ocr
        /\ queue'[d].status # "none"
        /\ \A e \in Documents \ {d} : queue'[e] = queue[e]
    BY <1>7 DEF Record, TypeOK
  <2>2. \A e \in Documents : queue'[e].ocr \in {0, ocr'[e]}
    BY <1>7, <2>1 DEF Record, TypeOK
  <2>3. overdue' \in SUBSET {e \in Documents : queue'[e].status # "none"}
    BY <1>7, <2>1 DEF Record, TypeOK
  <2>4. acts' \in 0..MaxActs  BY <1>7, ReviewAssumption DEF Record, TypeOK
  <2> QED  BY <1>7, <2>1, <2>2, <2>3, <2>4 DEF Record, TypeOK
<1>8. ASSUME NEW r \in Requests, NEW d \in Documents, Assign(r, d) PROVE TypeOK'
  <2>1. /\ [queue[d] EXCEPT !.status = "assigned"] \in Items
        /\ [queue[d] EXCEPT !.status = "assigned"].status # "none"
        /\ [queue[d] EXCEPT !.status = "assigned"].ocr = queue[d].ocr
    BY StatusType DEF Statuses
  <2> QED  BY <1>7, <1>8, <2>1, GoType, IdleType DEF Assign, TypeOK
<1>9. ASSUME NEW r \in Requests, NEW d \in Documents, Comment(r, d) PROVE TypeOK'
  <2>1. queue[d] \in Items /\ queue[d].status # "none"
    BY <1>9 DEF TypeOK, Comment, Record, Queued
  <2> QED  BY <1>7, <1>9, <2>1, GoType, IdleType DEF Comment, TypeOK
<1>10. ASSUME NEW d \in Documents
       PROVE  Escalated(queue[d]) \in Items /\ Escalated(queue[d]).status = "escalated"
              /\ Escalated(queue[d]).ocr = queue[d].ocr
  BY DEF Escalated, TypeOK, Statuses
<1>11. ASSUME NEW r \in Requests, NEW d \in Documents, Escalate(r, d) PROVE TypeOK'
  BY <1>7, <1>10, <1>11, GoType, IdleType DEF Escalate, TypeOK
<1>12. ASSUME NEW r \in Requests, NEW d \in Documents, NEW act \in Decisions, Decide(r, d, act)
       PROVE  TypeOK'
  <2>1. /\ [queue[d] EXCEPT !.status = StatusOf(act)] \in Items
        /\ [queue[d] EXCEPT !.status = StatusOf(act)].status # "none"
        /\ [queue[d] EXCEPT !.status = StatusOf(act)].ocr = queue[d].ocr
    BY StatusType DEF Statuses, StatusOf
  <2>2. Doing("decide", {d}, 0, act) \in Handlers
    BY ReviewAssumption DEF Doing, Steps
  <2>3. \A q \in Requests : [req[q] EXCEPT !.late = @ \cup {d}] \in Handlers
    BY DEF TypeOK
  <2>4. req' \in [Requests -> Handlers]
    BY <1>12, <2>2, <2>3 DEF Decide, TypeOK
  <2>5. crossed' \in SUBSET Documents  BY <1>12 DEF Decide, TypeOK
  <2>6. Record(d, [queue[d] EXCEPT !.status = StatusOf(act)])  BY <1>12 DEF Decide
  <2> QED  BY <1>7, <2>1, <2>4, <2>5, <2>6
<1>13. ASSUME NEW r \in Requests, NEW d \in Documents, DecideDocument(r, d) PROVE TypeOK'
  <2>1. DocumentOf(req[r].act) \in {"uploaded", "rejected"}  BY DEF DocumentOf
  <2> QED  BY <1>13, <2>1, GoType, IdleType DEF DecideDocument, TypeOK
<1>14. ASSUME NEW d \in Documents, DueDatePasses(d) PROVE TypeOK'
  BY <1>14 DEF DueDatePasses, TypeOK, Queued
<1>15. ASSUME NEW r \in Requests, ListStale(r) PROVE TypeOK'
  <2>1. Doing("escalate", Stale, 0, "approve") \in Handlers
    BY ReviewAssumption DEF Doing, Steps, Decisions, Stale, TypeOK
  <2> QED  BY <1>15, <2>1, GoType DEF ListStale, TypeOK, rows
<1>16. ASSUME NEW r \in Requests, NEW d \in Documents, EscalateListed(r, d) PROVE TypeOK'
  <2>1. queue' \in [Documents -> Items]
        /\ queue'[d] = Escalated(queue[d])
        /\ \A e \in Documents \ {d} : queue'[e] = queue[e]
    BY <1>10, <1>16 DEF EscalateListed, TypeOK
  <2>2. \A e \in Documents : queue'[e].ocr \in {0, ocr'[e]}
    BY <1>10, <1>16, <2>1 DEF EscalateListed, TypeOK
  <2>3. overdue' \in SUBSET {e \in Documents : queue'[e].status # "none"}
    BY <1>10, <1>16, <2>1 DEF EscalateListed, TypeOK
  <2>4. [req[r] EXCEPT !.on = req[r].on \ {d}] \in Handlers
    <3>1. req[r] \in Handlers  BY DEF TypeOK
    <3> QED  BY <3>1
  <2>5. req' \in [Requests -> Handlers]
    BY <1>16, <2>4, GoType, IdleType DEF EscalateListed
  <2>6. faults' \in 0..MaxFaults
    BY <1>16, ReviewAssumption DEF EscalateListed, Fault, TypeOK
  <2> QED  BY <1>16, <2>1, <2>2, <2>3, <2>5, <2>6 DEF EscalateListed, TypeOK
<1>17. ASSUME NEW r \in Requests, HandlerFails(r) PROVE TypeOK'
  <2>1. faults' \in 0..MaxFaults
    BY <1>17, ReviewAssumption DEF HandlerFails, Fault, TypeOK
  <2>2. crossed' \in SUBSET Documents /\ broken' \in SUBSET Documents
    BY <1>17 DEF HandlerFails, TypeOK
  <2> QED  BY <1>17, <2>1, <2>2, GoType, IdleType DEF HandlerFails, TypeOK, rows
<1>18. CASE UNCHANGED vars  BY <1>18 DEF vars, rows, TypeOK
<1>19. ASSUME NEW r \in Requests, NEW d \in Documents, Refused(r, d) PROVE TypeOK'
  BY <1>6, <1>19 DEF Refused
<1>20. ASSUME NEW r \in Requests, Answer(r) PROVE TypeOK'
  BY <1>6, <1>20 DEF Answer
<1> QED
  BY <1>1, <1>2, <1>3, <1>4, <1>5, <1>8, <1>9, <1>11, <1>12, <1>13, <1>14, <1>15, <1>16,
     <1>17, <1>18, <1>19, <1>20, Zenon DEF Next, Advance, Review

-----------------------------------------------------------------------------
(* Runs.                                                                   *)

\* Steps of handlers that process nothing.
LEMMA RunsUntouched ==
    ASSUME HandlerInv, CheckInv, LatestInv,
           ocr' = ocr, checks' = checks, runs' = runs, reading' = reading, broken' = broken,
           \A d \in Documents : queue'[d].ocr = queue[d].ocr,
           \A r \in Requests :
              /\ req'[r].pc \in Processing <=> req[r].pc \in Processing
              /\ req'[r].pc \in Processing =>
                    /\ req'[r].pc = req[r].pc /\ req'[r].on = req[r].on
                    /\ req'[r].run = req[r].run
              /\ req'[r].pc = "decide" => \A d, e \in req'[r].on : d = e
    PROVE  HandlerInv' /\ CheckInv' /\ LatestInv'
<1>1. HandlerInv'  BY DEF HandlerInv, Processing
<1>2. CheckInv'  BY DEF CheckInv, Processing
<1>3. ASSUME NEW d \in Documents \ broken'
      PROVE  /\ \A r, q \in Requests :
                   req'[r].pc \in Processing /\ req'[q].pc \in Processing
                   /\ d \in req'[r].on \cap req'[q].on => r = q
             /\ \A r \in Requests : d \in req'[r].on =>
                   /\ req'[r].pc \in {"clear", "write", "queue"} => ocr'[d] = req'[r].run
                   /\ req'[r].pc = "write" => checks'[d] = {}
                   /\ req'[r].pc = "queue" => checks'[d] = {req'[r].run}
             /\ ocr'[d] # 0 /\ ~Busy(d, Processing)' => Complete(d)'
  <2>1. d \in Documents \ broken  OBVIOUS
  <2>2. \A r, q \in Requests :
                   req'[r].pc \in Processing /\ req'[q].pc \in Processing
                   /\ d \in req'[r].on \cap req'[q].on => r = q
    BY <2>1 DEF LatestInv
  <2>3. ASSUME NEW r \in Requests, d \in req'[r].on
        PROVE  /\ req'[r].pc \in {"clear", "write", "queue"} => ocr'[d] = req'[r].run
               /\ req'[r].pc = "write" => checks'[d] = {}
               /\ req'[r].pc = "queue" => checks'[d] = {req'[r].run}
    BY <2>1, <2>3 DEF LatestInv, Processing
  <2>4. ASSUME ocr'[d] # 0, ~Busy(d, Processing)' PROVE Complete(d)'
    <3>1. ~Busy(d, Processing)  BY <2>4 DEF Busy
    <3>2. Complete(d)  BY <2>1, <2>4, <3>1 DEF LatestInv
    <3> QED  BY <2>1, <3>2 DEF Complete
  <2> QED  BY <2>2, <2>3, <2>4
<1>4. LatestInv'  BY <1>3 DEF LatestInv
<1> QED  BY <1>1, <1>2, <1>4

\* The steps of a run, from what they write and what becomes of the handler.
LEMMA ProcessRuns ==
    ASSUME TypeOK, TypeOK', HandlerInv, CheckInv, LatestInv,
           NEW r \in Requests, NEW d \in Documents, Process(r, d)
    PROVE  HandlerInv' /\ CheckInv' /\ LatestInv'
<1>1. /\ req[r].pc = "idle" /\ runs' = runs + 1 /\ ocr' = ocr /\ checks' = checks /\ queue' = queue
      /\ req'[r].pc = "store" /\ req'[r].on = {d} /\ req'[r].run = runs + 1
      /\ \A q \in Requests \ {r} : req'[q] = req[q]
      /\ runs \in Nat
  BY ReviewAssumption DEF Process, Go, Doing, rows, TypeOK
<1>2. \A n \in Runs : n <= runs => reading'[n] = reading[n]
  BY <1>1 DEF Process, TypeOK
<1>3. \A e \in Documents : ocr[e] \in 0..MaxRuns  BY DEF TypeOK
<1>4. \A q \in Requests : req[q].run \in 0..MaxRuns /\ req'[q].run \in 0..MaxRuns
  BY DEF TypeOK
<1>5. HandlerInv'
  <2>1. \A q \in Requests : req'[q].pc \in Processing \cup {"decide"} =>
          \A e, f \in req'[q].on : e = f
    BY <1>1 DEF HandlerInv
  <2>2. \A q \in Requests : req'[q].pc \in Processing => req'[q].run \in 1..runs'
    BY <1>1, <1>4, ReviewAssumption DEF HandlerInv
  <2>3. \A p, q \in Requests :
          req'[p].pc \in Processing /\ req'[q].pc \in Processing /\ p # q =>
             req'[p].run # req'[q].run
    BY <1>1, <1>4, ReviewAssumption DEF HandlerInv
  <2>4. \A e \in Documents : ocr'[e] <= runs'
    BY <1>1, <1>3, ReviewAssumption DEF HandlerInv
  <2> QED  BY <2>1, <2>2, <2>3, <2>4 DEF HandlerInv
<1>6. CheckInv'  BY <1>1 DEF CheckInv
<1>7. ASSUME NEW e \in Documents \ broken'
      PROVE  /\ \A p, q \in Requests :
                   req'[p].pc \in Processing /\ req'[q].pc \in Processing
                   /\ e \in req'[p].on \cap req'[q].on => p = q
             /\ \A q \in Requests : e \in req'[q].on =>
                   /\ req'[q].pc \in {"clear", "write", "queue"} => ocr'[e] = req'[q].run
                   /\ req'[q].pc = "write" => checks'[e] = {}
                   /\ req'[q].pc = "queue" => checks'[e] = {req'[q].run}
             /\ ocr'[e] # 0 /\ ~Busy(e, Processing)' => Complete(e)'
  <2>1. e \in Documents \ broken /\ (e = d => ~OtherRunOn(r, d))
    BY <1>7 DEF Process
  <2>2. \A p, q \in Requests :
                   req'[p].pc \in Processing /\ req'[q].pc \in Processing
                   /\ e \in req'[p].on \cap req'[q].on => p = q
    BY <1>1, <2>1 DEF LatestInv, OtherRunOn
  <2>3. \A q \in Requests : e \in req'[q].on =>
                   /\ req'[q].pc \in {"clear", "write", "queue"} => ocr'[e] = req'[q].run
                   /\ req'[q].pc = "write" => checks'[e] = {}
                   /\ req'[q].pc = "queue" => checks'[e] = {req'[q].run}
    BY <1>1, <2>1 DEF LatestInv
  <2>4. ASSUME ocr'[e] # 0, ~Busy(e, Processing)' PROVE Complete(e)'
    <3>1. ~Busy(e, Processing)  BY <1>1, <2>4 DEF Busy, Processing
    <3>2. Complete(e)  BY <1>1, <2>1, <2>4, <3>1 DEF LatestInv
    <3>3. ocr[e] \in Runs /\ ocr[e] <= runs
      BY <1>1, <1>3, <2>4, ReviewAssumption DEF HandlerInv, Runs
    <3>4. reading'[ocr'[e]] = reading[ocr[e]]  BY <1>1, <1>2, <3>3
    <3> QED  BY <1>1, <3>2, <3>4 DEF Complete
  <2> QED  BY <2>2, <2>3, <2>4
<1>8. LatestInv'  BY <1>7 DEF LatestInv
<1> QED  BY <1>5, <1>6, <1>8

\* A run's step on its document: what is common to all of them.
LEMMA RunStep ==
    ASSUME TypeOK, TypeOK', HandlerInv, CheckInv, LatestInv,
           NEW r \in Requests, NEW d \in Documents, d \in req[r].on,
           req[r].pc \in Processing,
           req'[r].on = req[r].on, req'[r].run = req[r].run,
           \A q \in Requests \ {r} : req'[q] = req[q],
           req'[r].pc # "decide",
           runs' = runs, reading' = reading, broken' = broken,
           \A e \in Documents \ {d} :
              ocr'[e] = ocr[e] /\ checks'[e] = checks[e] /\ queue'[e].ocr = queue[e].ocr,
           ocr'[d] \in {ocr[d], req[r].run},
           \* the checks
           \A m, n \in checks'[d] : m = n,
           req'[r].pc = "write" => checks'[d] = {},
           \A q \in Requests \ {r} :
              req[q].pc = "write" /\ d \in req[q].on /\ ocr'[d] = req[q].run =>
                 ocr[d] = req[q].run /\ checks'[d] \subseteq checks[d],
           \* the state that the handler leaves
           d \notin broken =>
              /\ req'[r].pc \in {"clear", "write", "queue"} => ocr'[d] = req[r].run
              /\ req'[r].pc = "queue" => checks'[d] = {req[r].run}
              /\ req'[r].pc \notin Processing => Complete(d)'
    PROVE  HandlerInv' /\ CheckInv' /\ LatestInv'
<1>1. HandlerInv'
  <2>1. \A q \in Requests : req'[q].pc \in Processing \cup {"decide"} =>
          \A e, f \in req'[q].on : e = f
    BY DEF HandlerInv
  <2>2. \A q \in Requests : req'[q].pc \in Processing => req'[q].run \in 1..runs'
    BY DEF HandlerInv
  <2>3. \A p, q \in Requests :
          req'[p].pc \in Processing /\ req'[q].pc \in Processing /\ p # q =>
             req'[p].run # req'[q].run
    BY DEF HandlerInv
  <2>4. \A e \in Documents : ocr'[e] <= runs'
    <3>1. req[r].run <= runs  BY DEF HandlerInv
    <3> QED  BY <3>1 DEF HandlerInv
  <2> QED  BY <2>1, <2>2, <2>3, <2>4 DEF HandlerInv
<1>2. CheckInv'
  <2>1. \A e \in Documents : \A m, n \in checks'[e] : m = n
    BY DEF CheckInv
  <2>2. ASSUME NEW q \in Requests, req'[q].pc = "write", NEW e \in req'[q].on,
               ocr'[e] = req'[q].run
        PROVE  checks'[e] = {}
    <3>0. e \in Documents  BY DEF TypeOK
    <3>1. CASE q = r
      <4>1. e = d  BY <3>1 DEF HandlerInv
      <4> QED  BY <2>2, <3>1, <4>1
    <3>2. CASE q # r /\ e # d
      BY <2>2, <3>0, <3>2 DEF CheckInv
    <3>3. CASE q # r /\ e = d
      <4>1. ocr[d] = req[q].run /\ checks'[d] \subseteq checks[d]  BY <2>2, <3>3
      <4>2. checks[d] = {}  BY <2>2, <3>3, <4>1 DEF CheckInv
      <4> QED  BY <3>3, <4>1, <4>2
    <3> QED  BY <3>1, <3>2, <3>3
  <2> QED  BY <2>1, <2>2 DEF CheckInv
<1>3. ASSUME NEW e \in Documents \ broken'
      PROVE  /\ \A p, q \in Requests :
                   req'[p].pc \in Processing /\ req'[q].pc \in Processing
                   /\ e \in req'[p].on \cap req'[q].on => p = q
             /\ \A q \in Requests : e \in req'[q].on =>
                   /\ req'[q].pc \in {"clear", "write", "queue"} => ocr'[e] = req'[q].run
                   /\ req'[q].pc = "write" => checks'[e] = {}
                   /\ req'[q].pc = "queue" => checks'[e] = {req'[q].run}
             /\ ocr'[e] # 0 /\ ~Busy(e, Processing)' => Complete(e)'
  <2>0. e \in Documents \ broken  OBVIOUS
  <2>1. \A p, q \in Requests :
                   req'[p].pc \in Processing /\ req'[q].pc \in Processing
                   /\ e \in req'[p].on \cap req'[q].on => p = q
    BY <2>0 DEF LatestInv
  <2>2. \A f \in req[r].on : f = d  BY DEF HandlerInv
  <2>3. CASE e = d
    <3>1. \A q \in Requests \ {r} : d \in req'[q].on => req'[q].pc \notin Processing
      BY <2>0, <2>3 DEF LatestInv
    <3>2. \A q \in Requests : e \in req'[q].on =>
                   /\ req'[q].pc \in {"clear", "write", "queue"} => ocr'[e] = req'[q].run
                   /\ req'[q].pc = "write" => checks'[e] = {}
                   /\ req'[q].pc = "queue" => checks'[e] = {req'[q].run}
      <4> SUFFICES ASSUME NEW q \in Requests, e \in req'[q].on
                   PROVE  /\ req'[q].pc \in {"clear", "write", "queue"} => ocr'[e] = req'[q].run
                          /\ req'[q].pc = "write" => checks'[e] = {}
                          /\ req'[q].pc = "queue" => checks'[e] = {req'[q].run}
        OBVIOUS
      <4>1. CASE q = r  BY <2>0, <2>3, <4>1
      <4>2. CASE q # r  BY <2>3, <3>1, <4>2 DEF Processing
      <4> QED  BY <4>1, <4>2
    <3>3. ~Busy(e, Processing)' => Complete(e)'
      <4>1. ~Busy(e, Processing)' => req'[r].pc \notin Processing  BY <2>3 DEF Busy
      <4> QED  BY <2>0, <2>3, <4>1
    <3> QED  BY <2>1, <3>2, <3>3
  <2>4. CASE e # d
    <3>1. \A q \in Requests : e \in req'[q].on => q # r /\ req'[q] = req[q]
      BY <2>2, <2>4
    <3>2. \A q \in Requests : e \in req'[q].on =>
                   /\ req'[q].pc \in {"clear", "write", "queue"} => ocr'[e] = req'[q].run
                   /\ req'[q].pc = "write" => checks'[e] = {}
                   /\ req'[q].pc = "queue" => checks'[e] = {req'[q].run}
      BY <2>0, <2>4, <3>1 DEF LatestInv
    <3>3. ASSUME ocr'[e] # 0, ~Busy(e, Processing)' PROVE Complete(e)'
      <4>1. ~Busy(e, Processing)
        <5> SUFFICES ASSUME NEW q \in Requests, req[q].pc \in Processing, e \in req[q].on
                     PROVE  FALSE
          BY DEF Busy
        <5>1. q # r  BY <2>2, <2>4
        <5>2. req'[q] = req[q]  BY <5>1
        <5> QED  BY <3>3, <5>2 DEF Busy
      <4>2. Complete(e)  BY <2>0, <2>4, <3>3, <4>1 DEF LatestInv
      <4>3. ocr'[e] = ocr[e] /\ checks'[e] = checks[e] /\ queue'[e].ocr = queue[e].ocr
        BY <2>0, <2>4
      <4> QED  BY <4>2, <4>3 DEF Complete
    <3> QED  BY <2>1, <3>2, <3>3
  <2> QED  BY <2>3, <2>4
<1>4. LatestInv'  BY <1>3 DEF LatestInv
<1> QED  BY <1>1, <1>2, <1>4

\* A run that ends before its time: its document is one of those in broken.
LEMMA DropRun ==
    ASSUME TypeOK, HandlerInv, CheckInv, LatestInv, NEW r \in Requests,
           req'[r].pc = "idle", req'[r].on = {},
           \A q \in Requests \ {r} : req'[q] = req[q],
           ocr' = ocr, checks' = checks, queue' = queue, runs' = runs, reading' = reading,
           broken \subseteq broken',
           req[r].pc \in Processing => req[r].on \subseteq broken'
    PROVE  HandlerInv' /\ CheckInv' /\ LatestInv'
<1>0. "idle" \notin Processing \cup {"decide", "clear", "write", "queue"}  BY DEF Processing
<1>1. HandlerInv'  BY <1>0 DEF HandlerInv
<1>2. CheckInv'  BY <1>0 DEF CheckInv
<1>3. ASSUME NEW e \in Documents \ broken'
      PROVE  /\ \A p, q \in Requests :
                   req'[p].pc \in Processing /\ req'[q].pc \in Processing
                   /\ e \in req'[p].on \cap req'[q].on => p = q
             /\ \A q \in Requests : e \in req'[q].on =>
                   /\ req'[q].pc \in {"clear", "write", "queue"} => ocr'[e] = req'[q].run
                   /\ req'[q].pc = "write" => checks'[e] = {}
                   /\ req'[q].pc = "queue" => checks'[e] = {req'[q].run}
             /\ ocr'[e] # 0 /\ ~Busy(e, Processing)' => Complete(e)'
  <2>0. e \in Documents \ broken  OBVIOUS
  <2>1. \A p, q \in Requests :
                   req'[p].pc \in Processing /\ req'[q].pc \in Processing
                   /\ e \in req'[p].on \cap req'[q].on => p = q
    BY <1>0, <2>0 DEF LatestInv
  <2>2. \A q \in Requests : e \in req'[q].on =>
                   /\ req'[q].pc \in {"clear", "write", "queue"} => ocr'[e] = req'[q].run
                   /\ req'[q].pc = "write" => checks'[e] = {}
                   /\ req'[q].pc = "queue" => checks'[e] = {req'[q].run}
    BY <2>0 DEF LatestInv
  <2>3. ASSUME ocr'[e] # 0, ~Busy(e, Processing)' PROVE Complete(e)'
    <3>1. ~Busy(e, Processing)
      <4> SUFFICES ASSUME NEW q \in Requests, req[q].pc \in Processing, e \in req[q].on
                   PROVE  FALSE
        BY DEF Busy
      <4>1. q # r  OBVIOUS
      <4>2. req'[q] = req[q]  BY <4>1
      <4> QED  BY <2>3, <4>2 DEF Busy
    <3>2. Complete(e)  BY <2>0, <2>3, <3>1 DEF LatestInv
    <3> QED  BY <3>2 DEF Complete
  <2> QED  BY <2>1, <2>2, <2>3
<1>4. LatestInv'  BY <1>3 DEF LatestInv
<1> QED  BY <1>1, <1>2, <1>4

LEMMA EscalateGoes ==
    ASSUME TypeOK, NEW r \in Requests, NEW d \in Documents, EscalateListed(r, d)
    PROVE  /\ req[r].pc = "escalate" /\ req'[r].pc \in {"idle", "escalate"}
           /\ req'[r].pc = "escalate" => req'[r].on = req[r].on \ {d} /\ req'[r].late = req[r].late
           /\ \A q \in Requests \ {r} : req'[q] = req[q]
<1> DEFINE next == [req[r] EXCEPT !.on = req[r].on \ {d}]
<1>1. req[r] \in Handlers  BY DEF TypeOK, Handlers
<1>2. next \in Handlers /\ next.pc = req[r].pc /\ next.on = req[r].on \ {d} /\ next.late = req[r].late
  BY <1>1 DEF Handlers
<1>3. Go(r, Idle) \/ Go(r, next)  BY DEF EscalateListed
<1> HIDE DEF next
<1>4. req[r].pc = "escalate"  BY DEF EscalateListed
<1> QED  BY <1>2, <1>3, <1>4, GoType, IdleType

LEMMA StepRuns ==
    ASSUME TypeOK, TypeOK', HandlerInv, CheckInv, LatestInv, [Next]_vars
    PROVE  HandlerInv' /\ CheckInv' /\ LatestInv'
<1> DEFINE Kept == HandlerInv' /\ CheckInv' /\ LatestInv'
<1>1. ASSUME NEW r \in Requests, NEW d \in Documents, Process(r, d) PROVE Kept
  BY <1>1, ProcessRuns
<1>2. ASSUME NEW r \in Requests, NEW d \in Documents, d \in req[r].on, StoreOcr(r, d) PROVE Kept
  <2>1. /\ req[r].pc = "store" /\ req'[r].pc = "clear" /\ req'[r].on = req[r].on
        /\ req'[r].run = req[r].run
        /\ \A q \in Requests \ {r} : req'[q] = req[q]
    BY <1>2, GoStep DEF StoreOcr, Steps
  <2>2. /\ ocr'[d] = req[r].run /\ checks' = checks
        /\ runs' = runs /\ reading' = reading /\ broken' = broken
        /\ \A e \in Documents \ {d} : ocr'[e] = ocr[e] /\ queue'[e] = queue[e]
    BY <1>2 DEF StoreOcr, TypeOK
  <2>3. \A q \in Requests \ {r} : req[q].pc = "write" => req[q].run # req[r].run
    BY <2>1 DEF HandlerInv, Processing
  <2>4. \A m, n \in checks'[d] : m = n  BY <2>2 DEF CheckInv
  <2>5. req[r].pc \in Processing  BY <2>1 DEF Processing
  <2>6. req'[r].pc \in Processing  BY <2>1 DEF Processing
  <2> QED  BY <1>2, <2>1, <2>2, <2>3, <2>4, <2>5, <2>6, RunStep
<1>3. ASSUME NEW r \in Requests, NEW d \in Documents, d \in req[r].on, ClearChecks(r, d) PROVE Kept
  <2>1. /\ req[r].pc = "clear" /\ req'[r].pc = "write" /\ req'[r].on = req[r].on
        /\ req'[r].run = req[r].run
        /\ \A q \in Requests \ {r} : req'[q] = req[q]
    BY <1>3, GoStep DEF ClearChecks, Steps
  <2>2. /\ ocr' = ocr /\ checks'[d] = {} /\ queue' = queue
        /\ runs' = runs /\ reading' = reading /\ broken' = broken
        /\ \A e \in Documents \ {d} : checks'[e] = checks[e]
    BY <1>3 DEF ClearChecks, TypeOK
  <2>3. d \notin broken => ocr'[d] = req[r].run  BY <1>3, <2>1, <2>2 DEF LatestInv
  <2>4. req[r].pc \in Processing /\ req'[r].pc \in Processing  BY <2>1 DEF Processing
  <2> QED  BY <1>3, <2>1, <2>2, <2>3, <2>4, RunStep
<1>4. ASSUME NEW r \in Requests, NEW d \in Documents, d \in req[r].on, WriteChecks(r, d) PROVE Kept
  <2>0. ocr[d] = req[r].run /\ req[r].pc = "write"  BY <1>4 DEF WriteChecks, Refers
  <2>1. /\ req'[r].pc = IF NeedsHumanReview(reading[req[r].run]) THEN "queue" ELSE "audit"
        /\ req'[r].on = req[r].on /\ req'[r].run = req[r].run
        /\ \A q \in Requests \ {r} : req'[q] = req[q]
    BY <1>4, GoStep DEF WriteChecks, Steps
  <2>2. checks[d] = {}  BY <1>4, <2>0 DEF CheckInv
  <2>3. /\ ocr' = ocr /\ checks'[d] = {req[r].run} /\ queue' = queue
        /\ runs' = runs /\ reading' = reading /\ broken' = broken
        /\ \A e \in Documents \ {d} : checks'[e] = checks[e]
    BY <1>4, <2>2 DEF WriteChecks, TypeOK
  <2>4. \A q \in Requests \ {r} : req[q].pc = "write" => req[q].run # req[r].run
    BY <2>0 DEF HandlerInv, Processing
  <2>5. req'[r].pc \notin Processing => Complete(d)'
    BY <2>0, <2>1, <2>3 DEF Complete, Processing
  <2>6. req[r].pc \in Processing /\ req'[r].pc \notin {"decide", "write", "clear"}
    BY <2>0, <2>1 DEF Processing
  <2>7. /\ ocr'[d] \in {ocr[d], req[r].run}
        /\ \A m, n \in checks'[d] : m = n
        /\ \A q \in Requests \ {r} :
              req[q].pc = "write" /\ d \in req[q].on /\ ocr'[d] = req[q].run =>
                 ocr[d] = req[q].run /\ checks'[d] \subseteq checks[d]
    BY <2>0, <2>3, <2>4
  <2>8. d \notin broken =>
              /\ req'[r].pc \in {"clear", "write", "queue"} => ocr'[d] = req[r].run
              /\ req'[r].pc = "queue" => checks'[d] = {req[r].run}
              /\ req'[r].pc \notin Processing => Complete(d)'
    BY <2>0, <2>3, <2>5
  <2> QED  BY <1>4, <2>1, <2>3, <2>6, <2>7, <2>8, RunStep
<1>5. ASSUME NEW r \in Requests, NEW d \in Documents, d \in req[r].on, EnsureReviewQueue(r, d)
      PROVE  Kept
  <2>0. ocr[d] = req[r].run /\ req[r].pc = "queue"  BY <1>5 DEF EnsureReviewQueue, Refers
  <2>1. /\ req'[r].pc = "audit" /\ req'[r].on = req[r].on /\ req'[r].run = req[r].run
        /\ \A q \in Requests \ {r} : req'[q] = req[q]
    BY <1>5, GoStep DEF EnsureReviewQueue, Steps
  <2>2. /\ ocr' = ocr /\ checks' = checks /\ queue'[d].ocr = req[r].run
        /\ runs' = runs /\ reading' = reading /\ broken' = broken
        /\ \A e \in Documents \ {d} : queue'[e] = queue[e]
    BY <1>5 DEF EnsureReviewQueue, TypeOK
  <2>3. d \notin broken => Complete(d)'
    <3>1. d \notin broken => checks[d] = {req[r].run}  BY <1>5, <2>0 DEF LatestInv
    <3> QED  BY <2>0, <2>2, <3>1 DEF Complete
  <2>4. req[r].pc \in Processing /\ req'[r].pc \notin {"decide", "write", "clear", "queue"}
    BY <2>0, <2>1 DEF Processing
  <2>5. \A m, n \in checks'[d] : m = n  BY <2>2 DEF CheckInv
  <2> QED  BY <1>5, <2>1, <2>2, <2>3, <2>4, <2>5, RunStep
<1>6. ASSUME NEW r \in Requests, NEW d \in Documents, d \in req[r].on, Refused(r, d) PROVE Kept
  <2>1. /\ req[r].pc \in Processing /\ req'[r].pc = "idle" /\ req'[r].on = {}
        /\ \A q \in Requests \ {r} : req'[q] = req[q]
    BY <1>6, GoType, IdleType DEF Refused, Processing
  <2>2. ocr' = ocr /\ checks' = checks /\ queue' = queue /\ runs' = runs
        /\ reading' = reading /\ broken' = broken
    BY <1>6 DEF Refused, rows
  <2>3. d \in broken
    <3>1. CASE StoredMeanwhile(r, d)  BY <1>6, <2>1, <3>1 DEF StoredMeanwhile, LatestInv
    <3>2. CASE req[r].pc \in {"write", "queue"} /\ ~Refers(r, d)
      BY <1>6, <3>2 DEF Refers, LatestInv
    <3> QED  BY <1>6, <3>1, <3>2 DEF Refused
  <2>4. \A e \in req[r].on : e = d  BY <1>6, <2>1 DEF HandlerInv
  <2> QED  BY <2>1, <2>2, <2>3, <2>4, DropRun
<1>7. ASSUME NEW r \in Requests, HandlerFails(r) PROVE Kept
  <2>1. /\ req'[r].pc = "idle" /\ req'[r].on = {}
        /\ \A q \in Requests \ {r} : req'[q] = req[q]
    BY <1>7, GoType, IdleType DEF HandlerFails
  <2>2. ocr' = ocr /\ checks' = checks /\ queue' = queue /\ runs' = runs
        /\ reading' = reading
    BY <1>7 DEF HandlerFails, rows
  <2>3. broken \subseteq broken' /\ (req[r].pc \in Processing => req[r].on \subseteq broken')
    BY <1>7 DEF HandlerFails
  <2> QED  BY <2>1, <2>2, <2>3, DropRun
<1>8. ASSUME NEW r \in Requests,
             \A q \in Requests \ {r} : /\ req'[q].pc = req[q].pc /\ req'[q].on = req[q].on
                                         /\ req'[q].run = req[q].run,
             req[r].pc \notin Processing, req'[r].pc \notin Processing,
             req'[r].pc = "decide" => \A d, e \in req'[r].on : d = e,
             ocr' = ocr, checks' = checks, runs' = runs, reading' = reading, broken' = broken,
             \A d \in Documents : queue'[d].ocr = queue[d].ocr
      PROVE  Kept
  <2>1. \A q \in Requests :
              /\ req'[q].pc \in Processing <=> req[q].pc \in Processing
              /\ req'[q].pc \in Processing =>
                    /\ req'[q].pc = req[q].pc /\ req'[q].on = req[q].on
                    /\ req'[q].run = req[q].run
              /\ req'[q].pc = "decide" => \A d, e \in req'[q].on : d = e
    BY <1>8 DEF HandlerInv
  <2> QED  BY <1>8, <2>1, RunsUntouched
<1>9. "idle" \notin Processing /\ "decide" \notin Processing /\ "escalate" \notin Processing
      /\ "audit" \notin Processing
  BY DEF Processing
<1>10. ASSUME NEW r \in Requests, NEW d \in Documents,
              Assign(r, d) \/ Comment(r, d) \/ Escalate(r, d) PROVE Kept
  <2>1. /\ req[r].pc = "idle" /\ req'[r].pc = "idle"
        /\ \A q \in Requests \ {r} : req'[q] = req[q]
    BY <1>10, GoType, IdleType DEF Assign, Comment, Escalate
  <2>2. ocr' = ocr /\ checks' = checks /\ runs' = runs /\ reading' = reading /\ broken' = broken
    BY <1>10 DEF Assign, Comment, Escalate, Record
  <2>3. \A e \in Documents : queue'[e].ocr = queue[e].ocr
    BY <1>10 DEF Assign, Comment, Escalate, Record, Escalated, TypeOK
  <2> QED  BY <1>8, <1>9, <2>1, <2>2, <2>3
<1>11. ASSUME NEW r \in Requests, NEW d \in Documents, NEW act \in Decisions, Decide(r, d, act)
       PROVE  Kept
  <2>1. /\ req[r].pc = "idle" /\ req'[r].pc = "decide" /\ req'[r].on = {d}
        /\ \A q \in Requests \ {r} : /\ req'[q].pc = req[q].pc /\ req'[q].on = req[q].on
                                       /\ req'[q].run = req[q].run
    BY <1>11 DEF Decide, Doing, TypeOK
  <2>2. ocr' = ocr /\ checks' = checks /\ runs' = runs /\ reading' = reading /\ broken' = broken
    BY <1>11 DEF Decide, Record
  <2>3. \A e \in Documents : queue'[e].ocr = queue[e].ocr
    BY <1>11 DEF Decide, Record, TypeOK
  <2> QED  BY <1>8, <1>9, <2>1, <2>2, <2>3
<1>12. ASSUME NEW r \in Requests, Answer(r) PROVE Kept
  <2>1. /\ req[r].pc = "audit" /\ req'[r].pc = "idle"
        /\ \A q \in Requests \ {r} : req'[q] = req[q]
    BY <1>12, GoType, IdleType DEF Answer
  <2>2. ocr' = ocr /\ checks' = checks /\ runs' = runs /\ reading' = reading /\ broken' = broken
        /\ queue' = queue
    BY <1>12 DEF Answer, rows
  <2> QED  BY <1>8, <1>9, <2>1, <2>2
<1>13. ASSUME NEW r \in Requests, NEW d \in Documents, DecideDocument(r, d) PROVE Kept
  <2>1. /\ req[r].pc = "decide" /\ req'[r].pc = "idle"
        /\ \A q \in Requests \ {r} : req'[q] = req[q]
    BY <1>13, GoType, IdleType DEF DecideDocument
  <2>2. ocr' = ocr /\ checks' = checks /\ runs' = runs /\ reading' = reading /\ broken' = broken
        /\ queue' = queue
    BY <1>13 DEF DecideDocument
  <2> QED  BY <1>8, <1>9, <2>1, <2>2
<1>14. ASSUME NEW r \in Requests, ListStale(r) PROVE Kept
  <2>1. /\ req[r].pc = "idle" /\ req'[r].pc = "escalate"
        /\ \A q \in Requests \ {r} : req'[q] = req[q]
    BY <1>14 DEF ListStale, Go, Doing, TypeOK
  <2>2. ocr' = ocr /\ checks' = checks /\ runs' = runs /\ reading' = reading /\ broken' = broken
        /\ queue' = queue
    BY <1>14 DEF ListStale, rows
  <2> QED  BY <1>8, <1>9, <2>1, <2>2
<1>15. ASSUME NEW r \in Requests, NEW d \in Documents, EscalateListed(r, d) PROVE Kept
  <2>1. /\ req[r].pc = "escalate" /\ req'[r].pc \in {"idle", "escalate"}
        /\ \A q \in Requests \ {r} : req'[q] = req[q]
    BY <1>15, EscalateGoes
  <2>2. ocr' = ocr /\ checks' = checks /\ runs' = runs /\ reading' = reading /\ broken' = broken
    BY <1>15 DEF EscalateListed
  <2>3. \A e \in Documents : queue'[e].ocr = queue[e].ocr
    BY <1>15 DEF EscalateListed, Escalated, TypeOK
  <2> QED  BY <1>8, <1>9, <2>1, <2>2, <2>3
<1>16. ASSUME NEW d \in Documents, DueDatePasses(d) PROVE Kept
  BY <1>16, RunsUntouched DEF DueDatePasses, HandlerInv
<1>17. ASSUME UNCHANGED vars PROVE Kept
  BY <1>17, RunsUntouched DEF vars, rows, HandlerInv
<1> HIDE DEF Kept
<1>18. ASSUME NEW r \in Requests, NEW d \in Documents, Advance(r, d) PROVE Kept
  BY <1>2, <1>3, <1>4, <1>5, <1>6, <1>13, <1>15, <1>18, Zenon DEF Advance
<1>19. ASSUME NEW r \in Requests, NEW d \in Documents, Review(r, d) PROVE Kept
  BY <1>10, <1>11, <1>19, Zenon DEF Review
<1>20. Kept
  BY <1>1, <1>7, <1>12, <1>14, <1>16, <1>17, <1>18, <1>19, Zenon DEF Next
<1> QED  BY <1>20 DEF Kept

-----------------------------------------------------------------------------
(* Decisions and the chaser.                                               *)

\* Steps that decide nothing: what they leave of decisions and lists.
LEMMA DecisionsUntouched ==
    ASSUME DecisionInv, LateInv, DocumentAgrees, crossed \subseteq crossed', document' = document,
           \A d \in Documents : \/ queue'[d].status = queue[d].status
                                \/ queue'[d].status \notin {"approved", "rejected"},
           \A r \in Requests :
              /\ req[r].pc = "decide" =>
                    \/ req'[r].pc = "decide" /\ req'[r].on = req[r].on /\ req'[r].act = req[r].act
                    \/ req'[r].pc = "idle" /\ req[r].on \subseteq crossed'
              /\ req'[r].pc = "decide" => req[r].pc = "decide"
              /\ req'[r].pc = "escalate" =>
                    \A d \in req'[r].on : Decided(d)' => d \in req'[r].late
    PROVE  DecisionInv' /\ LateInv' /\ DocumentAgrees'
<1>1. LateInv'  BY DEF LateInv
<1>2. ASSUME NEW d \in Documents \ crossed'
      PROVE  /\ \A r, q \in Requests :
                   req'[r].pc = "decide" /\ req'[q].pc = "decide"
                   /\ d \in req'[r].on \cap req'[q].on => r = q
             /\ \A r \in Requests : req'[r].pc = "decide" /\ d \in req'[r].on /\ Decided(d)' =>
                   queue'[d].status = StatusOf(req'[r].act)
             /\ ~Busy(d, {"decide"})' =>
                   /\ queue'[d].status = "approved" => document'[d] = "uploaded"
                   /\ queue'[d].status = "rejected" => document'[d] = "rejected"
  <2>0. d \in Documents \ crossed  OBVIOUS
  <2>1. Decided(d)' => queue'[d].status = queue[d].status /\ Decided(d)
    BY DEF Decided
  <2>2. \A r \in Requests : req'[r].pc = "decide" =>
           req[r].pc = "decide" /\ req'[r].on = req[r].on /\ req'[r].act = req[r].act
    OBVIOUS
  <2>3. \A r, q \in Requests :
                   req'[r].pc = "decide" /\ req'[q].pc = "decide"
                   /\ d \in req'[r].on \cap req'[q].on => r = q
    BY <2>0, <2>2 DEF DecisionInv
  <2>4. ASSUME NEW r \in Requests, req'[r].pc = "decide", d \in req'[r].on, Decided(d)'
        PROVE  queue'[d].status = StatusOf(req'[r].act)
    BY <2>0, <2>1, <2>2, <2>4 DEF DecisionInv
  <2>5. ASSUME ~Busy(d, {"decide"})', Decided(d)'
        PROVE  /\ queue'[d].status = "approved" => document'[d] = "uploaded"
               /\ queue'[d].status = "rejected" => document'[d] = "rejected"
    <3>1. ~Busy(d, {"decide"})
      <4> SUFFICES ASSUME NEW r \in Requests, req[r].pc = "decide", d \in req[r].on PROVE FALSE
        BY DEF Busy
      <4>1. req'[r].pc = "decide" /\ req'[r].on = req[r].on  OBVIOUS
      <4> QED  BY <2>5, <4>1 DEF Busy
    <3> QED  BY <2>0, <2>1, <2>5, <3>1 DEF DocumentAgrees
  <2> QED  BY <2>3, <2>4, <2>5 DEF Decided
<1>3. DecisionInv'  BY <1>2 DEF DecisionInv
<1>4. DocumentAgrees'  BY <1>2 DEF DocumentAgrees
<1> QED  BY <1>1, <1>3, <1>4

LEMMA StepDecisions ==
    ASSUME TypeOK, TypeOK', HandlerInv, DecisionInv, LateInv, DocumentAgrees, [Next]_vars
    PROVE  DecisionInv' /\ LateInv' /\ DocumentAgrees'
<1> DEFINE Kept == DecisionInv' /\ LateInv' /\ DocumentAgrees'
           Same == \A d \in Documents : \/ queue'[d].status = queue[d].status
                                        \/ queue'[d].status \notin {"approved", "rejected"}
<1>0. ASSUME NEW r \in Requests, Same, crossed \subseteq crossed', document' = document,
             \A q \in Requests \ {r} : req'[q] = req[q],
             req[r].pc = "decide" => req'[r].pc = "idle" /\ req[r].on \subseteq crossed',
             req'[r].pc # "decide",
             req'[r].pc = "escalate" => \A d \in req'[r].on : Decided(d)' => d \in req'[r].late
      PROVE  Kept
  <2>1. \A d \in Documents : Decided(d)' => Decided(d)  BY <1>0 DEF Decided
  <2>2. \A q \in Requests : req[q].pc = "decide" =>
           \/ req'[q].pc = "decide" /\ req'[q].on = req[q].on /\ req'[q].act = req[q].act
           \/ req'[q].pc = "idle" /\ req[q].on \subseteq crossed'
    BY <1>0
  <2>3. \A q \in Requests : req'[q].pc = "decide" => req[q].pc = "decide"  BY <1>0
  <2>4. ASSUME NEW q \in Requests, req'[q].pc = "escalate", NEW d \in req'[q].on, Decided(d)'
        PROVE  d \in req'[q].late
    <3>1. d \in Documents  BY DEF TypeOK
    <3>2. CASE q = r  BY <1>0, <2>4, <3>2
    <3>3. CASE q # r
      <4>1. req'[q] = req[q]  BY <1>0, <3>3
      <4> QED  BY <2>1, <2>4, <3>1, <4>1 DEF LateInv
    <3> QED  BY <3>2, <3>3
  <2> QED  BY <1>0, <2>2, <2>3, <2>4, DecisionsUntouched
<1>1. ASSUME NEW r \in Requests, NEW d \in Documents, Process(r, d) PROVE Kept
  <2>1. /\ req[r].pc = "idle" /\ req'[r].pc = "store"
        /\ \A q \in Requests \ {r} : req'[q] = req[q]
    BY <1>1 DEF Process, Go, Doing, TypeOK
  <2>2. queue' = queue /\ document' = document /\ crossed' = crossed  BY <1>1 DEF Process, rows
  <2> QED  BY <1>0, <2>1, <2>2
<1>2. ASSUME NEW r \in Requests, NEW d \in Documents, StoreOcr(r, d) PROVE Kept
  <2>1. /\ req[r].pc = "store" /\ req'[r].pc = "clear"
        /\ \A q \in Requests \ {r} : req'[q] = req[q]
    BY <1>2, GoStep DEF StoreOcr, Steps
  <2>2. document' = document /\ crossed' = crossed /\ Same  BY <1>2 DEF StoreOcr, TypeOK
  <2> QED  BY <1>0, <2>1, <2>2
<1>3. ASSUME NEW r \in Requests, NEW d \in Documents, ClearChecks(r, d) PROVE Kept
  <2>1. /\ req[r].pc = "clear" /\ req'[r].pc = "write"
        /\ \A q \in Requests \ {r} : req'[q] = req[q]
    BY <1>3, GoStep DEF ClearChecks, Steps
  <2>2. queue' = queue /\ document' = document /\ crossed' = crossed  BY <1>3 DEF ClearChecks
  <2> QED  BY <1>0, <2>1, <2>2
<1>4. ASSUME NEW r \in Requests, NEW d \in Documents, WriteChecks(r, d) PROVE Kept
  <2>1. /\ req[r].pc = "write" /\ req'[r].pc \in {"queue", "audit"}
        /\ \A q \in Requests \ {r} : req'[q] = req[q]
    BY <1>4, GoStep DEF WriteChecks, Steps
  <2>2. queue' = queue /\ document' = document /\ crossed' = crossed  BY <1>4 DEF WriteChecks
  <2> QED  BY <1>0, <2>1, <2>2
<1>5. ASSUME NEW r \in Requests, NEW d \in Documents, EnsureReviewQueue(r, d) PROVE Kept
  <2>1. /\ req[r].pc = "queue" /\ req'[r].pc = "audit"
        /\ \A q \in Requests \ {r} : req'[q] = req[q]
    BY <1>5, GoStep DEF EnsureReviewQueue, Steps
  <2>2. document' = document /\ crossed' = crossed /\ Same
    BY <1>5 DEF EnsureReviewQueue, TypeOK
  <2> QED  BY <1>0, <2>1, <2>2
<1>6. ASSUME NEW r \in Requests, req[r].pc # "decide", Go(r, Idle), rows' = rows, crossed' = crossed
      PROVE  Kept
  <2>1. queue' = queue /\ document' = document  BY <1>6 DEF rows
  <2> QED  BY <1>0, <1>6, <2>1, GoType, IdleType
<1>7. ASSUME NEW r \in Requests, NEW d \in Documents, Refused(r, d) PROVE Kept
  BY <1>6, <1>7 DEF Refused
<1>8. ASSUME NEW r \in Requests, Answer(r) PROVE Kept
  BY <1>6, <1>8 DEF Answer
<1>9. ASSUME NEW r \in Requests, HandlerFails(r) PROVE Kept
  <2>1. /\ req'[r].pc = "idle" /\ \A q \in Requests \ {r} : req'[q] = req[q]
    BY <1>9, GoType, IdleType DEF HandlerFails
  <2>2. queue' = queue /\ document' = document  BY <1>9 DEF HandlerFails, rows
  <2>3. crossed \subseteq crossed' /\ (req[r].pc = "decide" => req[r].on \subseteq crossed')
    BY <1>9 DEF HandlerFails
  <2> QED  BY <1>0, <2>1, <2>2, <2>3
<1>10. ASSUME NEW r \in Requests, NEW d \in Documents,
              Assign(r, d) \/ Comment(r, d) \/ Escalate(r, d) PROVE Kept
  <2>1. /\ req[r].pc = "idle" /\ req'[r].pc = "idle"
        /\ \A q \in Requests \ {r} : req'[q] = req[q]
    BY <1>10, GoType, IdleType DEF Assign, Comment, Escalate
  <2>2. document' = document /\ crossed' = crossed
    BY <1>10 DEF Assign, Comment, Escalate, Record
  <2>3. Same
    <3>1. CASE Assign(r, d)
      <4>1. [queue[d] EXCEPT !.status = "assigned"].status = "assigned"
        BY StatusType DEF Statuses
      <4> QED  BY <3>1, <4>1 DEF Assign, Record, TypeOK
    <3>2. CASE Comment(r, d)  BY <3>2 DEF Comment, Record, TypeOK
    <3>3. CASE Escalate(r, d)  BY <3>3 DEF Escalate, Record, Escalated, TypeOK
    <3> QED  BY <1>10, <3>1, <3>2, <3>3
  <2> QED  BY <1>0, <2>1, <2>2, <2>3
<1>11. ASSUME NEW r \in Requests, NEW d \in Documents, NEW act \in Decisions, Decide(r, d, act)
       PROVE  Kept
  <2>1. /\ req[r].pc = "idle" /\ req'[r].pc = "decide" /\ req'[r].on = {d} /\ req'[r].act = act
        /\ \A q \in Requests \ {r} :
              /\ req'[q].pc = req[q].pc /\ req'[q].on = req[q].on /\ req'[q].act = req[q].act
              /\ req[q].late \subseteq req'[q].late
              /\ req[q].pc = "escalate" /\ d \in req[q].on => d \in req'[q].late
    BY <1>11 DEF Decide, Doing, TypeOK
  <2>2. document' = document /\ crossed \subseteq crossed'
        /\ (d \notin crossed' => \A q \in Requests \ {r} : req[q].pc = "decide" => d \notin req[q].on)
    BY <1>11 DEF Decide, Record
  <2>3. queue'[d].status = StatusOf(act) /\ \A e \in Documents \ {d} : queue'[e] = queue[e]
    BY <1>11 DEF Decide, Record, TypeOK
  <2>4. LateInv'
    <3> SUFFICES ASSUME NEW q \in Requests, req'[q].pc = "escalate",
                        NEW e \in req'[q].on, Decided(e)'
                 PROVE  e \in req'[q].late
      BY DEF LateInv
    <3>1. q # r /\ e \in Documents  BY <2>1 DEF TypeOK
    <3>2. req[q].pc = "escalate" /\ e \in req[q].on /\ req[q].late \subseteq req'[q].late
      BY <2>1, <3>1
    <3>3. CASE e = d  BY <2>1, <3>1, <3>2, <3>3
    <3>4. CASE e # d
      <4>1. Decided(e)  BY <2>3, <3>1, <3>4 DEF Decided
      <4> QED  BY <3>2, <4>1 DEF LateInv
    <3> QED  BY <3>3, <3>4
  <2>5. ASSUME NEW e \in Documents \ crossed'
        PROVE  /\ \A p, q \in Requests :
                     req'[p].pc = "decide" /\ req'[q].pc = "decide"
                     /\ e \in req'[p].on \cap req'[q].on => p = q
               /\ \A q \in Requests : req'[q].pc = "decide" /\ e \in req'[q].on /\ Decided(e)' =>
                     queue'[e].status = StatusOf(req'[q].act)
               /\ ~Busy(e, {"decide"})' =>
                     /\ queue'[e].status = "approved" => document'[e] = "uploaded"
                     /\ queue'[e].status = "rejected" => document'[e] = "rejected"
    <3>0. e \in Documents \ crossed  BY <2>2
    <3>1. CASE e = d
      <4>1. \A q \in Requests : req'[q].pc = "decide" /\ e \in req'[q].on => q = r
        BY <2>1, <2>2, <3>1
      <4>2. Busy(e, {"decide"})'  BY <2>1, <3>1 DEF Busy
      <4> QED  BY <2>1, <2>3, <3>1, <4>1, <4>2
    <3>2. CASE e # d
      <4>1. \A q \in Requests : req'[q].pc = "decide" /\ e \in req'[q].on =>
               req[q].pc = "decide" /\ e \in req[q].on /\ req'[q].act = req[q].act
        BY <2>1, <3>2
      <4>2. queue'[e] = queue[e]  BY <2>3, <3>2
      <4>3. ~Busy(e, {"decide"})' => ~Busy(e, {"decide"})
        <5> SUFFICES ASSUME NEW q \in Requests, req[q].pc = "decide", e \in req[q].on
                     PROVE  Busy(e, {"decide"})'
          BY DEF Busy
        <5>1. req'[q].pc = "decide" /\ req'[q].on = req[q].on  BY <2>1
        <5> QED  BY <5>1 DEF Busy
      <4>4. \A p, q \in Requests :
                     req'[p].pc = "decide" /\ req'[q].pc = "decide"
                     /\ e \in req'[p].on \cap req'[q].on => p = q
        BY <3>0, <4>1 DEF DecisionInv
      <4>5. \A q \in Requests : req'[q].pc = "decide" /\ e \in req'[q].on /\ Decided(e)' =>
                     queue'[e].status = StatusOf(req'[q].act)
        BY <3>0, <4>1, <4>2 DEF DecisionInv, Decided
      <4>6. ~Busy(e, {"decide"})' =>
                     /\ queue'[e].status = "approved" => document'[e] = "uploaded"
                     /\ queue'[e].status = "rejected" => document'[e] = "rejected"
        BY <2>2, <3>0, <4>2, <4>3 DEF DocumentAgrees
      <4> QED  BY <4>4, <4>5, <4>6
    <3> QED  BY <3>1, <3>2
  <2>6. DecisionInv'  BY <2>5 DEF DecisionInv
  <2>7. DocumentAgrees'  BY <2>5 DEF DocumentAgrees
  <2> QED  BY <2>4, <2>6, <2>7
<1>12. ASSUME NEW r \in Requests, NEW d \in Documents, d \in req[r].on, DecideDocument(r, d)
       PROVE  Kept
  <2>1. /\ req[r].pc = "decide" /\ req'[r].pc = "idle" /\ req'[r].on = {}
        /\ \A q \in Requests \ {r} : req'[q] = req[q]
    BY <1>12, GoType, IdleType DEF DecideDocument
  <2>2. /\ document'[d] = DocumentOf(req[r].act) /\ \A e \in Documents \ {d} : document'[e] = document[e]
        /\ queue' = queue /\ crossed' = crossed
    BY <1>12 DEF DecideDocument, TypeOK
  <2>3. \A e \in req[r].on : e = d  BY <1>12, <2>1 DEF HandlerInv
  <2>4. LateInv'  BY <2>1, <2>2 DEF LateInv, Decided
  <2>5. DecisionInv'  BY <2>1, <2>2 DEF DecisionInv, Decided
  <2>6. ASSUME NEW e \in Documents \ crossed', ~Busy(e, {"decide"})'
        PROVE  /\ queue'[e].status = "approved" => document'[e] = "uploaded"
               /\ queue'[e].status = "rejected" => document'[e] = "rejected"
    <3>1. CASE e = d
      <4>1. Decided(d) => queue[d].status = StatusOf(req[r].act)
        BY <1>12, <2>1, <2>2, <3>1 DEF DecisionInv
      <4>2. req[r].act \in Decisions  BY DEF TypeOK
      <4> QED  BY <2>2, <3>1, <4>1, <4>2 DEF Decided, StatusOf, DocumentOf, Decisions
    <3>2. CASE e # d
      <4>1. ~Busy(e, {"decide"})
        <5> SUFFICES ASSUME NEW q \in Requests, req[q].pc = "decide", e \in req[q].on PROVE FALSE
          BY DEF Busy
        <5>1. q # r  BY <2>3, <3>2
        <5>2. req'[q] = req[q]  BY <2>1, <5>1
        <5> QED  BY <2>6, <5>2 DEF Busy
      <4> QED  BY <2>2, <3>2, <4>1 DEF DocumentAgrees
    <3> QED  BY <3>1, <3>2
  <2>7. DocumentAgrees'  BY <2>6 DEF DocumentAgrees
  <2> QED  BY <2>4, <2>5, <2>7
<1>13. ASSUME NEW r \in Requests, ListStale(r) PROVE Kept
  <2>1. /\ req[r].pc = "idle" /\ req'[r].pc = "escalate" /\ req'[r].on = Stale
        /\ \A q \in Requests \ {r} : req'[q] = req[q]
    BY <1>13 DEF ListStale, Go, Doing, TypeOK
  <2>2. queue' = queue /\ document' = document /\ crossed' = crossed  BY <1>13 DEF ListStale, rows
  <2>3. \A d \in Stale : ~Decided(d)'  BY <2>2 DEF Stale, Decided
  <2> QED  BY <1>0, <2>1, <2>2, <2>3
<1>14. ASSUME NEW r \in Requests, NEW d \in Documents, EscalateListed(r, d) PROVE Kept
  <2>1. /\ req[r].pc = "escalate" /\ req'[r].pc \in {"idle", "escalate"}
        /\ req'[r].pc = "escalate" => req'[r].on = req[r].on \ {d} /\ req'[r].late = req[r].late
        /\ \A q \in Requests \ {r} : req'[q] = req[q]
    BY <1>14, EscalateGoes
  <2>2. document' = document /\ crossed' = crossed /\ Same
        /\ \A e \in Documents \ {d} : queue'[e] = queue[e]
    BY <1>14 DEF EscalateListed, Escalated, TypeOK
  <2>3. ASSUME req'[r].pc = "escalate", NEW e \in req'[r].on, Decided(e)'
        PROVE  e \in req'[r].late
    <3>1. e \in Documents \ {d} /\ e \in req[r].on  BY <2>1, <2>3 DEF TypeOK
    <3>2. Decided(e)  BY <2>2, <2>3, <3>1 DEF Decided
    <3> QED  BY <2>1, <2>3, <3>1, <3>2 DEF LateInv
  <2> QED  BY <1>0, <2>1, <2>2, <2>3
<1>15. ASSUME NEW d \in Documents, DueDatePasses(d) PROVE Kept
  BY <1>15, DecisionsUntouched DEF DueDatePasses, LateInv, Decided
<1>16. ASSUME UNCHANGED vars PROVE Kept
  BY <1>16, DecisionsUntouched DEF vars, rows, LateInv, Decided
<1> HIDE DEF Kept
<1>17. ASSUME NEW r \in Requests, NEW d \in Documents, Advance(r, d) PROVE Kept
  BY <1>2, <1>3, <1>4, <1>5, <1>7, <1>12, <1>14, <1>17, Zenon DEF Advance
<1>18. ASSUME NEW r \in Requests, NEW d \in Documents, Review(r, d) PROVE Kept
  BY <1>10, <1>11, <1>18, Zenon DEF Review
<1>19. Kept
  BY <1>1, <1>8, <1>9, <1>13, <1>15, <1>16, <1>17, <1>18, Zenon DEF Next
<1> QED  BY <1>19 DEF Kept

-----------------------------------------------------------------------------

IInv == /\ TypeOK /\ HandlerInv /\ CheckInv /\ LatestInv
        /\ DecisionInv /\ LateInv /\ DocumentAgrees

\* The inductive invariant: what each step of a handler may rely on.
THEOREM ReviewInvariant == Spec => []IInv
<1>1. Init => DocumentAgrees  BY DEF Init, DocumentAgrees, NoItem
<1>2. Init => IInv  BY <1>1, InitInv DEF IInv
<1>3. IInv /\ [Next]_vars => IInv'
  BY StepTypes, StepRuns, StepDecisions DEF IInv
<1> QED  BY <1>2, <1>3, PTL DEF Spec

\* Every reachable state is well-typed, and a review item refers to the OCR
\* result its document has or to none (reviewQueue.service.ts, schema.prisma).
THEOREM ReviewTypes == Spec => []TypeOK
<1>1. IInv => TypeOK  BY DEF IInv
<1> QED  BY <1>1, ReviewInvariant, PTL

\* A document's status is what its review item says wherever decisions do not
\* overlap or break off (reviewQueue.service.ts:90-97, 106-116).
THEOREM DecisionsReachDocuments == Spec => []DocumentAgrees
<1>1. IInv => DocumentAgrees  BY DEF IInv
<1> QED  BY <1>1, ReviewInvariant, PTL

\* However many runs are under way, a document never has checks of two
\* (validationEngine.service.ts:48-61).
THEOREM ChecksComeFromOneRun == Spec => []ChecksOfOneRun
<1>1. IInv => ChecksOfOneRun
  <2> SUFFICES ASSUME IInv, NEW d \in Documents PROVE Cardinality(checks[d]) <= 1
    BY DEF ChecksOfOneRun
  <2>1. CASE checks[d] = {}
    BY <2>1, FS_EmptySet
  <2>2. CASE checks[d] # {}
    <3>1. PICK n : n \in checks[d]  BY <2>2
    <3>2. checks[d] = {n}  BY <3>1 DEF IInv, CheckInv
    <3>3. Cardinality({n}) = 1  BY FS_Singleton
    <3> QED  BY <3>2, <3>3
  <2> QED  BY <2>1, <2>2
<1> QED  BY <1>1, ReviewInvariant, PTL

\* A document whose runs neither overlapped nor broke off has the checks of its
\* OCR result and waits for a person if it must (document.processor.ts:35-84).
THEOREM LatestRunCounts == Spec => []LatestRunIsComplete
<1>1. IInv => LatestRunIsComplete
  <2> SUFFICES ASSUME IInv, NEW d \in Documents \ broken, ocr[d] # 0, ~Busy(d, Processing)
               PROVE  /\ checks[d] = {ocr[d]}
                      /\ \/ OcrStatus(reading[ocr[d]]) = "requires_review"
                         \/ \E rule \in Rules : CheckStatus(rule, reading[ocr[d]]) # "passed"
                         => queue[d].ocr = ocr[d]
    BY DEF LatestRunIsComplete
  <2>1. Complete(d)  BY DEF IInv, LatestInv
  <2> QED  BY <2>1 DEF Complete, NeedsHumanReview, OcrStatus
<1> QED  BY <1>1, ReviewInvariant, PTL

\* The chaser undoes no decision that was there when it read its list
\* (chaserEmail.service.ts:67-79).
THEOREM ChaserRespectsDecisions == Spec => EscalationRespectsDecisions
<1>1. ASSUME IInv, [Next]_vars, NEW d \in Documents,
             Decided(d), queue'[d].status = "escalated", acts' = acts
      PROVE  \E r \in Requests : d \in req[r].late
  <2>0. acts \in Nat /\ queue[d].status # "escalated"
    BY <1>1, ReviewAssumption DEF IInv, TypeOK, Decided
  <2>1. ASSUME NEW r \in Requests, NEW e \in Documents, EscalateListed(r, e)
        PROVE  d \in req[r].late
    <3>1. e = d  BY <1>1, <2>0, <2>1 DEF EscalateListed, IInv, TypeOK
    <3>2. req[r].pc = "escalate" /\ d \in req[r].on  BY <2>1, <3>1 DEF EscalateListed
    <3> QED  BY <1>1, <3>2 DEF IInv, LateInv
  <2>2. ASSUME NEW r \in Requests, NEW e \in Documents, Review(r, e) PROVE FALSE
    BY <1>1, <2>0, <2>2 DEF Review, Assign, Comment, Escalate, Decide, Record
  <2>3. ASSUME queue' = queue PROVE FALSE  BY <1>1, <2>0, <2>3
  <2>4. ASSUME NEW r \in Requests, NEW e \in Documents, StoreOcr(r, e) PROVE FALSE
    BY <1>1, <2>0, <2>4 DEF StoreOcr, IInv, TypeOK
  <2>5. ASSUME NEW r \in Requests, NEW e \in Documents, EnsureReviewQueue(r, e) PROVE FALSE
    BY <1>1, <2>0, <2>5 DEF EnsureReviewQueue, IInv, TypeOK
  <2>6. ASSUME NEW r \in Requests, NEW e \in Documents, Advance(r, e)
        PROVE  \E q \in Requests : d \in req[q].late
    <3>1. CASE ClearChecks(r, e)  BY <2>3, <3>1 DEF ClearChecks
    <3>2. CASE WriteChecks(r, e)  BY <2>3, <3>2 DEF WriteChecks
    <3>3. CASE Refused(r, e)  BY <2>3, <3>3 DEF Refused, rows
    <3>4. CASE DecideDocument(r, e)  BY <2>3, <3>4 DEF DecideDocument
    <3> QED  BY <2>1, <2>4, <2>5, <2>6, <3>1, <3>2, <3>3, <3>4, Zenon DEF Advance
  <2>7. ASSUME NEW r \in Requests, NEW e \in Documents, Process(r, e) PROVE FALSE
    BY <2>3, <2>7 DEF Process, rows
  <2>8. ASSUME NEW r \in Requests, Answer(r) \/ ListStale(r) \/ HandlerFails(r) PROVE FALSE
    BY <2>3, <2>8 DEF Answer, ListStale, HandlerFails, rows
  <2>9. ASSUME NEW e \in Documents, DueDatePasses(e) PROVE FALSE
    BY <2>3, <2>9 DEF DueDatePasses
  <2>10. ASSUME UNCHANGED vars PROVE FALSE  BY <2>3, <2>10 DEF vars, rows
  <2> QED  BY <1>1, <2>2, <2>6, <2>7, <2>8, <2>9, <2>10, Zenon DEF Next
<1>2. IInv /\ [Next]_vars =>
         [\A d \in Documents :
             Decided(d) /\ queue'[d].status = "escalated" /\ acts' = acts =>
                \E r \in Requests : d \in req[r].late]_vars
  BY <1>1
<1> QED  BY <1>2, ReviewInvariant, PTL DEF Spec, EscalationRespectsDecisions
=============================================================================
